# The Fast Message Queue, specified

libfmq is a C++ library for passing fixed-size messages between processes
through shared memory: a ring of bytes, two 64-bit counters and, optionally, a
32-bit futex word for blocking. These modules specify what the code in `src/`
does, TLC checks them on small queues, and TLAPS proves the central facts for
every queue. Line numbers below are those of `src/include/fmq/MessageQueueBase.h`
unless another file is named.

## 1. Inventory

| component | source | state | operations | hard behaviour | what makes it correct | status |
|---|---|---|---|---|---|---|
| Ring arithmetic, `MemTransaction` | `MessageQueueBase.h` 276-336, 496-605, 1086-1099, 1122-1148, 1281-1288 | none (pure) | `getSlot`, `getMemRegionInfo`, `copyTo`/`copyFrom` addresses, `availableTo*` | wrap of the ring and of the counters, requests in two regions | all ways of addressing an item agree; no address outside the ring | `FmqRing`, proved in `FmqRingProofs` |
| Non-blocking queue | `MessageQueueBase.h` 837-852, 1101-1278 | `*mWritePtr`, `*mReadPtr`, the ring; the caller's open transaction | `beginWrite`, `copyTo`, `commitWrite`, `write`, `beginRead`, `copyFrom`, `commitRead`, `read` | writer and readers interleave; partial commits; a peer dies mid-transaction; an unsynchronized reader is overrun | FIFO, no data race, no torn message, no wrong copy unless an overrun explains it | `MessageQueue`, `BoundedFifo`, proved in `MessageQueueProofs` |
| Attaching and detaching | `MessageQueueBase.h` 608-834, 1296-1339 | the mapped grantors, `mReadPtr` (own for unsynchronized readers), `mEventFlag` | constructors, `initMemory`, destructor, `mapGrantorDescr` | a reset of the counters under an active peer, overwritten by its commit | a reset by one side harms nobody but who was in the middle of a call or a transaction and whoever finds what that party stores | mapping, failure and destruction in `QueueObjects`, attachment to a queue in use in `MessageQueue` (without a reset) and `QueueReset` (with one, proved in `QueueResetProofs`) |
| Blocking queue | `MessageQueueBase.h` 854-1083 | the loop's remaining time | `writeBlocking`, `readBlocking` | lost wake-ups, timeouts racing the peer, requests that starve each other, a party killed in the middle of a call | a call whose room or data is there returns; no deadlock of requests that fit; the result tells the truth | `BlockingQueue`, proved in `BlockingQueueProofs` |
| `EventFlag` | `EventFlag.cpp` | the futex word, the kernel's wait queue | `wake`, `wait`, `waitHelper`, `createEventFlag`, `deleteEventFlag` | a wake between test and sleep; two waiters on one bit; deferred wakes; a killed waker | no wake is lost, each bit is reported once | `EventFlag`, proved in `EventFlagProofs`; creation and deletion not modelled |
| Queue layout | `MessageQueueBase.h` 705-808, `AidlMQDescriptorShim.h` 216-268, `base/fmq/MQDescriptorBase.h` | grantors of the descriptor | allocating constructor | alignment, page rounding, 32-bit offsets | grantors do not overlap, lie in the region and are mapped | `QueueLayout`, proved in `QueueLayoutProofs` |
| Descriptors and conversion | `AidlMQDescriptorShim.h`, `ConvertMQDescriptors.h`, `AidlMessageQueue.h` | a descriptor and the handle it owns | copy, `dupeDesc`, conversion HIDL to AIDL | ownership of file descriptors, 32-bit narrowing, failure half-way | a handle is closed once; peers see the same queue; a conversion fails or loses nothing | `QueueObjects`, proved in `QueueObjectsProofs`; the `_MSC_VER` build's in `NamedQueues` |
| Checks and logging | `FmqInternal.cpp` | none | `check`, `logError` | - | - | `Abort` of `QueueObjects`; logging left out |
| HIDL wrapper | `MessageQueue.h` | none | forwards constructors | - | - | not modelled: no state |
| Windows port | `system_porting.cpp`, `_MSC_VER` parts of `MessageQueueBase.h` 673-677, 743-768, 805-807, `AidlMQDescriptorShim.h` 65-87, `AidlMessageQueue.h` 145-177 | named sections, the handles on them and their views | `mmap`, `munmap`, `open_shmem`, `generate_string`, `from_string`, `generate_random_name` | a description is a name, and what the name stands for changes; handles that nobody closes | no view outside its section; a description stays good while its maker runs; peers agree | `NamedQueues`, proved in `NamedQueuesProofs` |
| Generated types | `generated_files/` | plain data | (un)parcelling | - | - | not modelled: generated |
| Tests, fuzzer, benchmarks | `tests/`, `fuzzer/`, `benchmarks/` | - | - | - | - | read for how the library is called |

How they interact. A queue object is created from numbers (allocating
constructor) or from a descriptor received from a peer; both end in `initMemory`,
which maps the grantors. From then on the objects of different processes share
only memory: a writer reads `readPtr` (acquire), fills free bytes of the ring and
stores `writePtr` (release); a reader does the same with the roles swapped.
`writeBlocking` and `readBlocking` call `write` and `read`, and on failure sleep in
`EventFlag::wait` until the peer, after a successful operation, calls
`EventFlag::wake`. There are no callbacks and no messages.

The hazards of this design are listed in `PROJECT.json`, each at its line.

## 2. Modules

### FmqRing: pure arithmetic

Counters are integers below `CounterMod` (2^64 in the code), addresses are byte
offsets from `mRing`, a `MemTransaction` is a record of two regions whose length
counts messages. `TxAt` is the common tail of `beginWrite` (1122-1146) and
`beginRead`; `GetSlot`, `GetMemRegionInfo` and `CopyAddress` follow the code,
branch by branch. `size_t` and counter arithmetic is modulo `CounterMod`.

### MessageQueue: the queue of both flavors

`Flavor` chooses `kSynchronizedReadWrite` (one reader, whose `readPtr` the writer
looks at) or `kUnsynchronizedWrite` (any number of readers, each with a counter of
its own, whom the writer ignores).

| variable | in the code |
|---|---|
| `writePtr` | `*mWritePtr` |
| `readPtr[r]` | `*mReadPtr` of reader r's object |
| `ring` | the bytes at `mRing` |
| `wpc`, `wtx`, `wdata` | the writer's program point, its `MemTransaction`, what it has copied into it |
| `rpc`, `rtx`, `rdata` | the same for each reader |
| `recent`, `scribbled`, `wrapped` | history: the newest committed bytes, how far an uncommitted write has reached beyond `writePtr`, whether a counter has wrapped. No guard reads them |

Each action is a step that a peer can tell apart: `BeginWrite`/`BeginWriteFails`
(the load of `readPtr` and all that follows from it), `CopyTo` (one byte of a
`memcpy`, any order), `CommitWrite` (the store of `writePtr`), and `BeginRead`,
`BeginReadOverflow`, `BeginReadFails`, `CopyFrom`, `CommitRead`,
`CommitReadOverflow` for a reader. `write()` and `read()` are these in a row.
`DropWrite`, `DropRead` and `ReattachReader` are the transaction that is never
committed and the process that dies, and attaches again with
`resetPointers = false`.

*Memory order.* A begin loads its peer's counter once with acquire, and a commit
stores its own with release, so the data before a store is visible to whoever
loads it; a load that returns an older value is the same load taken earlier, and
its owner touches no shared memory between the two. Hence a begin may be one
step and the interleavings of the model are those of the C++ memory model, for
the synchronized flavor, where `NoDataRace` says the plain bytes do not race. In
the unsynchronized flavor the `memcpy`s of writer and reader do race by design; the
model gives a racing load the old or the new byte, and orders the copies of one
reader before its commit. Weaker outcomes of that race are not modelled.

*Counters loaded twice.* `commitRead` loads each counter once (1263-1264) and stores what
it loaded, and so does `beginRead` (1201, 1206). Only `beginWrite` loads `writePtr` twice,
inside `availableToWrite` and at 1114. Nobody but the writer stores it, so that the
two agree, and so do the load and the store of each commit: as long as nobody resets
the counters. `QueueReset` is about what happens when somebody does, and takes the
loads and stores apart.

### QueueReset: attaching with a reset to a queue in use

`resetPointers = true` is the constructor's default, and `initMemory` then stores 0 to
`*mReadPtr` (647) and, in a second step, to `*mWritePtr` (648), while the other parties go
on. `QueueReset` EXTENDS `MessageQueue` and splits its actions where a reset can fall
between:

| action | in the code |
|---|---|
| `LoadWritePtr`, `StoreWritePtr` | `commitWrite`: the load (1158) and the store (1160) |
| `BeginReadLoad`; `BeginReadGrants`, `BeginReadRefuses`, `BeginReadGivesUp` | `beginRead`: the load of `writePtr` (1201); the load of its own counter and the decision (1206-1252) |
| `CommitReadLoad`; `CommitReadKeeps`, `CommitReadGivesUp` | `commitRead`: the load of its own counter (1263); the load of `writePtr` and the decision (1264-1275) |
| `StoreReadPtr` | the store at the end of either (1216, 1270, 1276) |
| `ResetReadPtr(p)`, `ResetWritePtr(p)` | `initMemory` of the process that takes the place of party `p`: the two stores; a `p` between the two is in `attaching` |

`step[p]` is where a party is in such a call and `loaded[p]` what it has loaded, or is
about to store. `beginWrite` stays one step: only a reset moves `writePtr` between its two loads, and
the second load then finds 0, where any request that fits the queue is granted anyway;
without one it decides as at its load of `readPtr`. `CopyTo` and `CopyFrom` are as in
`MessageQueue`.

A commit that has loaded its counter before a reset and stores it afterwards overwrites
the reset: with a queue of 3, the writer loads 3, a reader's process attaches and stores 0 to
both counters, the writer stores 4, and the reader is left with a backlog of 4. The
code has no guard against it; a reader in that position sees an overflow at its next call and
gives up what it has not read. History variables say who may suffer:

- `caught`: the parties that were in a call or a transaction when the counters
  were reset, as long as they are; and the readers whose backlog exceeds the queue (`Lost`)
  because a caught party has stored its counter, or the writer a grant that was blind,
  until they have seen the overflow.
- `blind`: the open write was granted while somebody was caught. A caught reader may be
  ahead of `writePtr`, where `availableToWrite()` underflows and grants anything; such a
  write can also run into what the reader, recovering with an old counter, has yet to read.
- `torn`: a caught writer committed. Its bytes lie elsewhere, or its counter is the old
  one.
- `fresh`: how many of the newest bytes were committed since the reset.

What is guaranteed: every transaction lies in the ring although `availableToWrite()` may have
underflowed (`TransactionsInRing`); the bytes committed since are where their counters
say, and a reader that is not caught is handed nothing older, until a caught writer
commits (`FreshInRing`, `ReadsAreFresh`); and once both stores of a reset are done, a reader that is
not caught has a backlog that fits the queue and holds no more than that, and the writer
holds nothing of it unless its grant was blind (`GrantsHoldAgain`). What is not: a caught
reader may commit bytes of the old queue; a caught writer publishes bytes that lie
elsewhere, or, when its store overwrites the reset, bytes from before it, which a
reader whose backlog still fits the queue takes for new. Bound: a party that dies between
the two stores of `initMemory` is followed by one that resets the counters too.

### BoundedFifo: what the synchronized queue promises

The contents (`fifo`), and the private copies of the two sides: bytes are offered
one by one, appended together by a commit, copied out one by one and removed
together. It says nothing of counters or addresses. `MessageQueue` implements it
under the mapping at the end of that module (`RefinesFifo`).

### EventFlag: the futex word

`word` is the set of bits of `*mEfWordPtr`. A thread of any process is at one place
of the library (`at`), with its arguments (`call`):

| `at[t]` | in `src/EventFlag.cpp` |
|---|---|
| `"out"` | not in a call; `status[t]` and `efState[t]` are what the last one returned |
| `"posted"` | `wake()`, between the `fetch_or` (92) and `FUTEX_WAKE_BITSET` (103) |
| `"polling"` | `wait()`, at the head of its loop (198), or before its only `waitHelper` |
| `"polled"` | `waitHelper()`, after the `fetch_and` (126) found nothing, before `FUTEX_WAIT_BITSET`; `expected[t]` is the value passed to it |
| `"asleep"` | inside `FUTEX_WAIT_BITSET` |
| `"awake"` | that call returned 0, before the second `fetch_and` (170) |

Each atomic operation and each futex call is an action. The kernel is external,
as its manual describes it and as the code uses it: `FUTEX_WAIT_BITSET` compares
and sleeps in one step, `FUTEX_WAKE_BITSET` wakes every sleeper whose mask meets
the given one, a sleep may also end by a signal (`FutexInterrupted`), by its
timeout, or for no reason (`FutexSpurious`). `RealFutex = FALSE` is the `_MSC_VER`
build, where both calls are faked by `ret = 0` (99-101, 148-158): `wait()` with
retry becomes a polling loop. `CanDie` lets a process be killed in any step;
`orphaned` is a history variable naming the bits such a process had set without
making its system call.

A deadline is a flag that the clock raises (`late`); how much time is left is
abstracted. `EventFlagProofs` has the proofs.

### BlockingQueue: writeBlocking and readBlocking

Composes the two protocols. `EF == INSTANCE EventFlag` with the parties as
threads, over the same word, so every interleaving of the two sides inside
`wake` and `wait` is there. The queue is reduced to `level`, how many messages it
holds: a synchronized queue is a bounded FIFO (`RefinesFifo`), `write(n)` succeeds
when the room it sees is at least `n` and a peer can only add to it, so the step
that looks (`Ready`) and the step that commits (`Move`) are kept apart.
`writeBlocking` and `readBlocking` are the same steps with the sides exchanged.

| `pc[p]` | in the code (`writeBlocking`; `readBlocking` alike) |
|---|---|
| `"moving"` | `write()` has found room, its commit is still to come |
| `"notifying"`, `"waking"` | before, and inside, the final `evFlag->wake` (956) |
| `"looping"` | the head of the loop (903), or after an attempt that failed |
| `"waiting"` | inside `evFlag->wait(..., retry = true)` (933) |

`over` says that `timeOutNanos` is used up. The loop then makes its last attempt
(`LastAttempt`), whereas a wait that itself times out gives up at once (`WaitTimedOut`,
942), as the code does. A call with an empty notification to wait for, or with more
messages than the queue holds, returns false (`CallRefused`); a null `evFlag` is the
same early return. `Die(p)` kills the process of a party anywhere in a call, inside
`wake` and `wait` too, and another one takes its place with the same counters; `owed`
(history) names the party whose peer was killed between its commit and its wake. The
properties make an exception for exactly that party, and for bits orphaned inside
`wake`: the code has nothing that would wake it before its timeout or its peer's next
call. The two sides are assumed to use the same masks, as the short overloads do.

### QueueLayout: where the parts lie

The grantors that the two paths of the allocating constructor describe
(`OwnRegion`: `AidlMQDescriptorShim.h` 239-268, `SuppliedRegion`: 770-798), the size
of the memory (`AshmemSize`: 705-732), the refusals (`TooLarge`, `Alignable`) and
what `mapGrantorDescr` asks of `mmap` (`MapOffset`, `MapLength`), with the widths of
`size_t`, `uint32_t` and `int` as parameters. No state.

### QueueObjects: creating, describing, attaching, destroying

| variable | in the code |
|---|---|
| `object[o]` | a queue object: `desc` is `*mDesc` (`None` for a null pointer), `maps` what `mReadPtr`, `mWritePtr`, `mRing` and `mEvFlagWord` point into |
| `parcel[p]` | an AIDL `MQDescriptor` with its `ScopedFileDescriptor`s |
| `table` | the process's file descriptors |
| `limit` | how many of them it may have open (`RLIMIT_NOFILE`) |
| `memory` | the size of each shared memory file |

| action | in the code |
|---|---|
| `Construct`, `ConstructRefused`, `ConstructAborts` | the allocating constructor (683-815), its early returns, its failing check |
| `Attach` | `AidlMessageQueue(desc)` (`AidlMessageQueue.h` 122): the temporary descriptor, its copy, `initMemory`, the temporary's end |
| `GivesUp` | `native_handle_create` or `new (std::nothrow)` returns null |
| `DupeDesc`, `DropParcel` | `dupeDesc()` (`AidlMessageQueue.h` 133), the end of its result |
| `Convert`, `ConvertRefused`, `ConvertGivesUp` | `unsafeHidlToAidlMQDescriptor` (`ConvertMQDescriptors.h` 64-119) of a queue's description: complete but for a quantum or flags that do not fit, refused for a destination with grantors, given up at a grantor that does not fit |
| `EditQuantum` | the receiver of a parcel changes it, as the tests do |
| `Destroy` | the destructors of object (817) and descriptor |

`dup` and `ashmem_create_region` fail when there is no free descriptor below the limit; the code stores
the -1 and goes on until `mmap` fails and `check` ends the process (`Abort`, after which
a new process starts with nothing). A parcel that is sent to another process arrives
with descriptors of its own, just as a duplicate in the same process, so one process
with two objects shows both ends. The build is the one that duplicates descriptors;
under `_MSC_VER` a descriptor is copied with the same handles (`AidlMQDescriptorShim.h`
202) and shared memory is found by name, which is `NamedQueues`' subject. A HIDL queue
may have one part further away than an AIDL offset can say (`Widened`);
`AttachableIsComplete` says that a description with a payload size that a queue could
accept has the descriptors its grantors name, so that no conversion that gave up
half-way can be attached. It is checked for destinations that come empty, as the code
asks; only the destination's grantors are looked at, though
(`ConvertMQDescriptors.h:73`), and a destination with a quantum and a handle but no
grantors, which `dupeDesc` makes of a queue that was too large, could be left with
grantors of one queue and descriptors of another. The supplied buffer is as large as the
caller says, and the caller keeps no duplicate of it. Grantors are edited by nobody,
`flags` and the `ints` of a handle are left out.

### NamedQueues: the Windows port

| variable | in the code |
|---|---|
| `section[n]` | the file mapping that a name stands for: its size, and which of the name's sections it is |
| `object[o]` | a queue object of a process: `desc` is `*mDesc` with its `mName`, `gen` the section its handle is open on, `maps` its views |
| `leaked[p]` | the sections of which process `p` has duplicated handles (`system_porting.cpp` 201), which nothing closes |
| `description[d]` | an `MQDescriptor`, reduced to its `json_decriptor`; `by` and `gen` are history |
| `generation`, `reused` | history: how many sections a name has had, and the names given twice |

| action | in the code |
|---|---|
| `Construct`, `ConstructRefused`, `ConstructAborts` | the allocating constructor with a name (683-814): `ashmem_create_region` opens the section that has the name already, whatever its size |
| `Describe`, `DropDescription` | `dupeDesc` and `generate_string` |
| `Attach`, `AttachAborts` | `from_string`, `system_porting_open_shmem` (674), `initMemory`; the process ends when a view cannot be mapped or the string does not parse |
| `Destroy` | the destructor: views and the object's own handle, not the duplicates |
| `Exit` | the process goes, and with the last handle the section |

`generate_random_name` gives every queue without a name the same one (the line that would
append the number is commented out, 421), so such a queue is one with a name like any
other. That a second constructor then shares the first one's section, and
resets its counters, is what `reused` excepts from `PeersAgree`. `ViewsInSection` needs no
exception: a section that is too small ends the process. The `long` and `int` of the
mapping's length, the page size (64 KiB, which is the allocation granularity) and the
layout are `QueueLayout`'s. Left out: the `int` made of a `HANDLE` that `dupeDesc`
hands to a `ScopedFileDescriptor` (`AidlMessageQueue.h` 155), and supplied buffers, which the
port does not support (760).

### MC modules

`MCMessageQueue`, `MCEventFlag` and `MCQueueObjects` add `Symmetry`: permutations of
`Values` and `Readers`, of `Threads` and `Bits`, and `MCQueueObjects` those of
`Objects`; `MCQueueReset` and `MCNamedQueues` do the same with `Values` and `Readers`,
and with `Procs` and `Objects`. None of these is compared except for equality, a new
queue's bytes are one arbitrary value, and no liveness property is checked with
symmetry, so it is sound. `MCBlockingQueue` gives the masks, the callers and the parties
that may be killed.

## 3. Runs

`CounterMod` is a handful instead of 2^64, so every run passes many times through
the wrap of the counters, at each position of the ring.

| run | instance | shows |
|---|---|---|
| `sync` | 3 bytes, messages of 1, counters mod 6; requests of 0 to 4 (too large) | no data race, every grant kept, no wrong byte read, `getSlot` and `memcpy` address alike, refinement of `BoundedFifo` |
| `sync_wide` | 4 bytes, messages of 2, mod 11 | byte-wise copies in any order never tear a message; after the wrap, which misaligns a counter, both sides refuse for good and nothing wrong is ever read |
| `unsync` | 2 bytes, messages of 1, mod 6, two readers; requests of 1 to 3 (too large) | overrun, give-up, death and late joining; a copy is wrong only when its byte has been overwritten, and the readers do not disturb each other |
| `eventflag` | 3 threads, 2 bits, every mask, timeouts, kills | no wake is lost except by a killed waker, every bit is reported by exactly one wait, `retry` hides EAGAIN and EINTR |
| `eventflag_live` | 3 threads, masks `{a}` and `{a, b}`, no timeouts, retry | nobody waits for ever for a bit that stays set |
| `eventflag_fake` | 2 threads, every mask, the `_MSC_VER` build | the same without a futex, and waits with a timeout return |
| `blocking` | one queue of 3, requests of 1, 2 and 4 (refused), with and without timeouts; the writer is killed at any point | no notification is missed but that of a writer killed between commit and wake, results are truthful, a call whose room or data is there finishes, a timed call finishes, no deadlock |
| `objects` | two objects and a parcel; a process may open eight file descriptors, or three; three files; words and counters of 2 bytes, pages of 8, `int` of 24 values, `size_t` of 56; requests for 5 and 55 messages of 1 or 5 bytes, a supplied buffer of 25, parcels whose quantum is edited to -1, HIDL descriptions whose EventFlag word is too far away | no file descriptor leaks or is closed twice, whatever fails; every part of a valid queue lies in its memory, apart from the others, and is mapped (but for a ring of 25 bytes, see below); two objects are the same queue or share nothing; payload sizes match; no conversion that gave up can be attached |
| `reset` | 3 bytes, messages of 1, counters mod 8, synchronized; both parties attach with a reset whenever they like, also within a commit; requests of 1, 3 and 4 (refused) | what a reset of a queue in use leaves intact, whom it harms, and that the rest heals |
| `named` | two processes, two objects, one description, one name with two sections in turn; requests for 1, 6 and 55 messages of 1 or 2 bytes, with and without an EventFlag | no view outside a section, no description that dies before its maker, peers that agree unless a name was given twice |
| `unsync_detects` | violation | finding 1 |
| `blocking_shared_bits` | violation | finding 2 |

Bounds. `MessageQueue` is finite without a constraint but for one guard,
`NoReaderLapped`: an unsynchronized writer does not run a whole `CounterMod` (2^64
bytes) ahead of a reader, where the difference of the counters aliases. The
guard never bites in the synchronized flavor. `Counts` holds requests with
`n * Quantum < CounterMod` only (`QueueAssumption`): what `beginRead` does with a
request whose byte count overflows `size_t` is not covered. Three slots are the
least with a transaction that wraps, one that does not, and a slot left over; two
values tell a byte from its neighbour; two readers are enough for one to disturb
another, as a reader's actions mention no third. `EventFlag` is finite as it is;
three threads are a waker, a waiter and one more that takes the bit away or defers
its wake, and two bits let masks be equal, nested, overlapping or apart. In
`BlockingQueue` a queue of 3 is the least where requests of 1 and 2 fit together
(2 + 2 <= 3 + 1) and can still fail.

The writer is the one that may be killed: both sides run the same steps with the roles
exchanged, and what a kill leaves to the peer is the same either way. After
a kill the process that takes the place calls when it likes.

In `QueueReset` a counter stays `QueueSize` away from `CounterMod` between two resets
(`Counted`), so that a reader that is ahead of `writePtr` sees a backlog larger than the
queue; in the code the counters start at 0 and would need 2^64 bytes to leave that bound.
With a modulus of 8 a counter reaches 4 and passes the end of the ring of 3 before a reset
must follow; a request of 1 leaves part of the ring over and one of 3 takes all of it.

In `NamedQueues` a section is of one page or two: 1 and 6 messages of 1 byte need one and
two, 6 of 2 bytes are too large to be described, 55 of 2 bytes are refused and 55 of 1
fail the alignment's check. Operations touch the section of their own name only, so one name is
enough, but for `Exit`, which treats all names alike. Two sections in turn
(`MaxGeneration`) let a stale description meet a later section, larger or smaller.

In `QueueObjects` a process may have as many descriptors open as `limit` says, which is chosen
when it starts. With eight everything succeeds: two objects that share a queue around a supplied
buffer, its parcel and the temporary of the attachment hold two each. With three,
`ashmem_create_region` fails when other queues and parcels hold them all, and also when the
supplied buffer has taken the last one; `dup` fails at the second descriptor of `dupeDesc`, in the
temporary of an attachment, and in the copy when the temporary has succeeded; objects and
parcels with a descriptor missing are then described and attached to in turn. Limits between
the two move the failing `dup` of an attachment within a handle of two: the theorems are about any
limits.
A ring of 5 bytes does not fill a word and crosses a page; one of 25 is too large for the
offsets of a queue in memory of its own; 55 messages of 1 byte fail the alignment's check, and 55 of
5 overflow `size_t` in the constructor. None makes the sum in `TooLarge` wrap: the byte
counts that do are those of the theorems (`OwnRegionFits`, `GrantorsStayBacked`,
`PartsStayApart`) only. The supplied buffer takes a ring of 5 or 25, and the length of the
latter is beyond the range of `int`: the ring of 4 GiB or more of the divergences below. An
edited quantum is never the size of another queue's messages (`Quanta`): the sizes of message
types are given, and a receiver that chose to lie about them would be believed.

Fairness. `MessageQueue`, `QueueReset`, `QueueObjects` and `NamedQueues` assume none:
their operations return without waiting. In `EventFlag` and `BlockingQueue` a thread
that is inside the library and not asleep eventually takes its step (weak fairness of
`Runs` and `Steps`: the scheduler runs a ready thread, and no step waits for another),
and time passes (weak fairness of `Clock`). Nothing obliges the kernel to end a sleep by
itself, and nobody is obliged to call: `WakeArrives` and `BlockedCallFinishes` hold even
if the peer never calls again. Only `EveryCallReturns` is about callers that keep
calling, and says so in its own hypothesis. Weak fairness suffices for
`BlockedCallFinishes` since one party of each side exists; `WakeArrives` is about a bit
that stays set, so a rival that keeps consuming it is not an obstacle but an exception.

Deadlock is checked in every run: the failing branches of `beginWrite` and
`beginRead` are steps, and new calls can always be made.

### Findings

1. `commitRead` of the unsynchronized flavor can return true for data that a write
   was overwriting while it was copied (`unsync_detects`): the writer moves
   `writePtr` after its `memcpy`, so a reader with a full backlog sees no overflow
   yet. The documentation (450-451) promises a failure.
2. Two queues that share an `EventFlag` word with the same (default) bits: a reader
   that waits in vain takes the bit set for the other queue's reader and keeps it,
   and that reader sleeps beside its message (`blocking_shared_bits`).
   `src/include/fmq/EventFlag.h:30-31` allows sharing without asking for different
   bits.

Further divergences met while modelling; each is a reading of the code, with no
run of its own:

- `getSlot(N)` of a transaction of N items in two regions is the address after its last
  slot and not null (500), against 341-343. `AddressingAgrees` speaks of the valid
  indexes.
- The length of a mapping is an `int` (1315). A ring buffer supplied by the caller of 2^32
  bytes or more is mapped in part only, the object is valid, and its operations leave
  the mapping, although the buffer is as large as 87-89 ask. A queue with memory of its own is
  refused instead (`AidlMQDescriptorShim.h:230`); a length from 2^31 to 2^32 - 1
  becomes negative and `mmap` fails. `GrantorsAreBacked` excepts a part that ends beyond the
  range of `int`, and only from being mapped as a whole: it still lies in its file.
  `GrantorsAlwaysBacked` makes no exception; TLC refutes it in the instance of `objects`, whose
  supplied buffer has 25 bytes where an `int` has 24 values.
- `beginRead` multiplies `nMessages` by `sizeof(T)` in `size_t` (1220) and, unlike `beginWrite`,
  never compares `nMessages` with the queue's size: a request whose byte count wraps is judged
  by what is left.
- `beginWrite` leaves `*result` as it was when `writePtr` is misaligned (1119), against its
  own comment in 1105-1107.
- On Windows a description that does not parse, or an empty one, leaves a null handle that
  the constructor writes to (676), where `src/tests/fmq_unit_tests.cpp:467-476` expects an
  invalid object. Attaching after the last process with a handle has gone ends
  the process likewise, in `check`.
- On Windows `readFromParcel` reads the text whether or not the parcel has it
  (`generated_files/.../fmq/MQDescriptor.h:135`), unlike the fields before it.
- On Windows a `HANDLE` cut to an `int` is wrapped in a `ScopedFileDescriptor`
  (`AidlMessageQueue.h:155`), whose destructor closes whatever file has that number.
- `availableToWrite()` of the unsynchronized flavor underflows once a reader has been
  overrun (1087), against 106-107. `beginWrite` of that flavor does not ask, so the
  queue is not harmed.
- For a queue whose size does not divide 2^64 the offset `counter % getSize()` jumps
  when a counter wraps, and unread data is looked for in the wrong place (1122),
  against the comment of 1152-1153. After 2^64 bytes: a matter of principle, but the
  reason why properties and theorems carry the hypothesis `OffsetsValid`.
- `initMemory` resets the counters with two plain stores (647-648) and the commits add to
  them with a load and a store (1158-1160, 1263-1276), not with an atomic addition: a
  commit under way overwrites a reset. See `QueueReset` in section 2 for what it harms.
- On Windows two queues made without a name are one (`system_porting.cpp:420`), and a
  description may find a later queue of its name (674): `PeersAgree` of `NamedQueues` says what
  holds for names that are given once, and cannot catch either.
- `dupeDesc()` of an object attached to a malformed parcel follows a null handle
  (`AidlMessageQueue.h:152`); it looks only at the descriptor (136).
- `wake(0)` returns `NO_ERROR` (`EventFlag.cpp:88`), against `EventFlag.h:68-70`.
- A process killed between `fetch_or` and `FUTEX_WAKE_BITSET` leaves a sleeper asleep
  although its bit is set, and later wakes of that bit skip the system call,
  trusting the first (`EventFlag.cpp:94-98`). `NoLostWake` has exactly this exception
  (`orphaned`), and `DeferredWakesAreEnough` proves that there is no other.

## 4. Theorems

Each proof module is about every value of the constants that the named assumptions allow:

- `RingAssumption` (the allocating constructor makes the size a multiple of the message size,
  not zero, and less than the counters' range), `QueueAssumption` (the flavor, one reader
  if synchronized, requests whose bytes do not overflow): all sizes, all counter widths, all
  values, all readers. `ResetAssumption` adds that two laps fit the counters.
- `EventFlagAssumption`, `BlockingAssumption` and `NamedAssumption` type the constants: any
  threads, bits, queues, masks, mortals, names and processes, both builds.
- `LayoutAssumption`: widths are positive, counters are whole words, two counters fit an
  `int`, the EventFlag word is not empty and fits an `int`, `size_t` is wider than `int`.
- `ObjectsAssumption`: the arguments have their types, objects are not parcels, and an edited
  quantum is not the size of a message type. Any number of objects, parcels, file
  descriptors and files, and any limits on what a process may open.

In `MessageQueueProofs`:

- `TypeCorrect`: every variable keeps its range, an open transaction is the one its
  begin computed from the counter its owner has not moved since.
- `GrantsAreKept`: space and data once granted stay granted until the commit.
- `RaceFreedom`: in the synchronized flavor the bytes being written are disjoint
  from the unread ones, and those being read are unread ones.
- `RecentIsKept`: the ring holds the newest committed bytes behind `writePtr`, but for
  those an uncommitted write has reached, in both flavors.
- `CopiesStayExact`: a reader's copy is what was committed, unless its slot has been
  overwritten.
- `SynchronizedReadsExact`: hence a synchronized reader is never handed a wrong byte.
- `SafeInvariant`: the invariant they follow from.
- `AddressingIsConsistent`: `getSlot`, `getMemRegionInfo` and the `memcpy`s of an open
  transaction name the same bytes. Of the invariant it needs `TypeInv` alone.
- `MisalignmentIsForGood`: after a wrap that misaligns `writePtr`, the counter stays where it
  is and no read begins (an action property).
- `ImplementsFifo`: the synchronized queue implements `BoundedFifo`, as long as
  `OffsetsValid` holds. `FifoInit` maps the initial states; `FifoNext` maps each action of
  writer and reader to the action of `BoundedFifo` it implements, and begins, failures and
  overflows to stutters. The abstract contents are the ring's
  bytes from `readPtr` to `writePtr` (`Unread`), so that a commit appends what the writer has copied by `FilledInRing`, and a
  copy takes the byte at its place by `CopiesAreExact`. `ImplementsFifoAlways` drops the
  hypothesis when the size divides the counters' range.

`GrantsHold`, `RecentInRing` and `CopiesAreExact` are not inductive. `SafeInv` adds:
`WriterTx`/`ReaderTx` (a transaction's addresses are those of consecutive counter
values, so that arithmetic on counters decides which bytes meet), `SyncRoom` and
`ReaderOrder` (where the readers stand behind `writePtr`), and `FilledInRing` (what
the writer has copied is in the ring until it commits, which is what makes the new
newest bytes right). The arithmetic is in `FmqRingProofs`: division and remainder
are unique, an offset survives the counter's wrap when the size divides
`CounterMod` (`OffsetSurvivesWrap`), different positions within one lap have
different offsets (`OneLap`), and `TxAtCovers`: byte j of a transaction begun at
counter p lies at `(p + j) % QueueSize`.

In `EventFlagProofs`:

- `TypeCorrect`, from `TypeNext`, one step per action.
- `NoWakeIsLost`: a thread is asleep on a set bit only while some thread is about to
  make the system call for that bit, or the bit is orphaned. Alone it is not
  inductive: a thread that goes to sleep must not find its bit set, for which
  `SleepInv` records that what `waitHelper` passes as expected value has none of its
  bits, so that the comparison in the futex call excludes the missed wake. The
  invariant is `FlagInv == TypeOK /\ SleepInv /\ NoLostWake`.
- `DeferredWakesAreEnough`: when no process can be killed, nothing is ever orphaned,
  and skipping the system call for bits already set strands nobody.
- `BitsAreReportedOnce`: in every step, the bits that leave the word are those
  reported by the waits that return in it.
- `SpuriousIsHidden`: a wait with `retry` returns neither EAGAIN nor EINTR.

In `BlockingQueueProofs`, for any queues on one word:

- `QueueInvariant`: `QueueInv == QueueTyped /\ FP!FlagInv /\ CallInv /\ FoundInv /\ MovedInv`.
  `FlagNext` shows that each step of a party is a step of `EventFlag` or leaves its state
  alone, so `FlagInv` is inherited from `EventFlagProofs` (`FP == INSTANCE ...`), and with it
  `BlockedCallsLoseNoWake`. `CallInv` ties the place in the loop to the place in
  `EventFlag`; `FoundInv` says that what an attempt has found is there when it commits.
- `BlockingTypeCorrect`, `AnswersAreTruthful`: a call returns true just when it has moved its
  messages, through every timeout, wake and kill.
- `NotificationsArePending`: a call beside its room or data has its bit set, taken, or about to
  be set, or its peer was killed before the wake. `NotificationPending` is not inductive: it
  speaks of a sleeping call, and the bit must have been there since the failed attempt
  (`PendingInv`). Its hypothesis `OwnBits` says that nobody else waits for these bits; finding
  2 is what happens without it.

In `QueueResetProofs`, `CutInv` says where open transactions were cut (at the
counter of their owner, or, if a reset has overtaken the owner, at some aligned counter); it
is enough for `ResetsKeepTransactionsInRing`. `ResetInv` adds, over the counters and over
what the calls have loaded of them:

- `CountedInv`: no counter is near its wrap, and none will be after a commit.
- `FreshCount`: what is fresh is what `writePtr` counts, and a writer that was not caught
  stores over the value it loaded.
- `CaughtNow`: whoever is `caught` is in a call, in a transaction or lost.
- `StandsBehind`, with `CallBehind` for a reader between load and store: a reader that is
  not caught stands behind `writePtr`, and so will the counter it stores.
- `RoomAgain`: between resets its backlog fits the queue, and a grant that was not blind
  is free of it. For the induction it also says that a caught party beside a grant
  that is not blind means a reset since that grant: `writePtr` is 0.
- `FilledAgain`: what a writer that was not caught has copied is in the ring.

`StandsBehind` is why a load that is older than the store does no harm without a reset, and
`caught` and `blind` are the exceptions under which `RoomAgain` is kept by a store that
overwrites one. `ResetInv` gives `ResetTypeCorrect`, `GrantsSurviveResets`,
`FreshBytesAreInRing` and `NoStaleReads`.

In `QueueLayoutProofs`:

- `OwnRegionFits`: each part of a queue ends within the memory that the constructor
  allocates for it, for every size that `TooLarge` lets pass. `RoundUpShift` moves the
  counters, whole words, out of the alignment; `RoundDownBounds` bounds what page
  rounding takes away.
- `SuppliedRegionFits`: the same of a queue around a buffer of its caller.

In `QueueObjectsProofs`:

- `PartsStayApart`: no two parts of a valid queue share a byte, however its description
  travelled. `PartsInv` says that every descriptor, in objects and in parcels, is
  `LaidOut`: apart, with offsets that the casts of `dupeDesc` do not change. Conversion keeps
  `LaidOut` because a grantor that fits is pushed unchanged (`PushedKeepsLayout`) and
  one that is widened is not pushed at all.
- `ObjectsInvariant`: `ObjectsInv` adds to it three parts, over the carriers of
  descriptors (objects and parcels) and what their handles are open on. `OwnersInv`: the open
  descriptors are those of exactly one handle each; the handle copy is `DupAll`, of which
  `DupAllCopies` says all that the rest needs, failures of `dup` included. `DesignsInv`: each
  description is `Sound` (its grantors lie in the files of its handle, and, if some queue
  could accept it, it has all its descriptors and whole messages), and two that share a file
  are `Kin` (say the same and differ in no file). `MappedInv`: an object has
  mapped what its description says, on the files of its handle. `FilesGo` gives a file
  back only when no handle and no mapping is left, so a new queue meets nobody's files.
- From it `ObjectsTypeCorrect`, `DescriptorsHaveOneOwner`, `AttachableParcelsAreComplete`,
  `GrantorsStayBacked`, `SizesFitMessages` and `PeersAreOneQueue`, one theorem per invariant
  of the run.

In `NamedQueuesProofs`, `NamedInv` says that a mapped queue's process keeps a handle on
the section of its name (`Mapped`), that a description's maker does (`GoodDescription`), and
that whoever carries a name that was not given twice carries one descriptor (`CarriersInv`).
The leaked handles are what makes the second true: `DescriptionsHold` rests on
`system_porting.cpp` 201. It gives `NamedTypeCorrect`, `ViewsStayInSection`, `DescriptionsHold`
and `NamesMeanOneQueue`.

Only model-checked: liveness (`WakeArrives`, `TimedWaitReturns`, `BlockedCallFinishes`,
`TimedCallReturns`, `EveryCallReturns`), which rests on fairness and ENABLED and is out of the
prover's reach. No theorem rests on induction over data: copies are addressed by
index, and a handle has at most two descriptors (`DupAll`).

## 5. Not modelled

- `createEventFlag`, `deleteEventFlag`, `unmapEventFlagWord` and
  `addNanosecondsToCurrentTime`: they touch no shared state (`mEfWordNeedsUnmapping` is
  false from construction on), and time is abstracted to a deadline that passes.
- `availableToRead` from a thread that owns neither counter: the library never calls it
  so; its two loads may then come from different moments.
- Requests whose byte count overflows `size_t`, and what an early return leaves in a
  `MemTransaction` that the caller uses again: see the divergences above.
- The HIDL wrapper (no state), generated parcelling (generated; the text that the Windows port
  adds is `description` of `NamedQueues`), tests, fuzzer and benchmarks.

## 6. Plan

Every safety property and action property of the runs is a theorem. Left:

1. The exactness of an unsynchronized reader whose backlog leaves room for the
   writer's transaction: what finding 1 does not take away from `commitRead`.
2. A second abstract specification, of the futex word: `EventFlag` as a set of bits with atomic
   set and test-and-clear, whose steps `BitsAreReportedOnce` already names.
3. `BlockingQueue`'s `level` as an abstraction of `BoundedFifo`'s contents, which
   section 2 argues in words.
4. `QueueLayout` against the sizes a 32-bit build would have, where `size_t` is no wider than
   `int`.
