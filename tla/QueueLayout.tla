----------------------------- MODULE QueueLayout -----------------------------
(***************************************************************************)
(* Where the parts of a queue lie: the grantors that the two allocating    *)
(* paths of the MessageQueueBase constructor describe, the size of the     *)
(* memory they allocate, and the pages mapGrantorDescr maps.  Offsets are  *)
(* uint32_t, mapOffset and mapLength are int, everything else is size_t;   *)
(* the widths are parameters so that the conversions can be checked.       *)
(***************************************************************************)
EXTENDS Integers

CONSTANTS WordBytes,      \* kAlignmentSize / 8: 8
          CounterBytes,   \* sizeof(RingBufferPosition): 8
          FlagBytes,      \* sizeof(std::atomic<uint32_t>): 4
          PageSize,
          IntMod,         \* 2^32
          SizeMod         \* 2^64

ASSUME LayoutAssumption ==
    /\ WordBytes \in Nat \ {0}
    /\ CounterBytes \in Nat \ {0} /\ CounterBytes % WordBytes = 0
    /\ FlagBytes \in Nat \ {0} /\ FlagBytes < IntMod \div 2
    /\ PageSize \in Nat \ {0}
    /\ IntMod \in Nat \ {0} /\ IntMod % 2 = 0
    /\ 2 * CounterBytes < IntMod \div 2
    /\ SizeMod \in Nat /\ SizeMod >= IntMod + FlagBytes + PageSize
    /\ SizeMod % PageSize = 0 /\ SizeMod % WordBytes = 0

-----------------------------------------------------------------------------
\* Conversions to size_t, uint32_t and int.
SizeT(x) == x % SizeMod
Uint32(x) == x % IntMod
Int32(x) == IF Uint32(x) < IntMod \div 2 THEN Uint32(x) ELSE Uint32(x) - IntMod
IntMax == IntMod \div 2 - 1

RoundDown(x, unit) == (x \div unit) * unit
RoundUp(x, unit) == RoundDown(x + unit - 1, unit)

\* alignToWordBoundary, for a length its check lets pass.
\* (Mutant of AlignToWordBoundary: it rounds down.)
AlignDown(length) == RoundDown(length, WordBytes)
AlignToWordBoundary(length) == RoundUp(length, WordBytes)
Alignable(length) == length <= SizeMod - WordBytes

-----------------------------------------------------------------------------
\* GrantorType
READPTRPOS == 0
WRITEPTRPOS == 1
DATAPTRPOS == 2
EVFLAGWORDPOS == 3
kMinGrantorCount == DATAPTRPOS + 1

Positions(eventFlag) == 0..(IF eventFlag THEN EVFLAGWORDPOS ELSE DATAPTRPOS)

MemSize(bytes, pos) == CASE pos = DATAPTRPOS -> bytes
                         [] pos = EVFLAGWORDPOS -> FlagBytes
                         [] OTHER -> CounterBytes

\* The extents of the grantors before pos in one region, the data included.
Before(bytes, pos) == CASE pos = READPTRPOS -> 0
                        [] pos = WRITEPTRPOS -> CounterBytes
                        [] pos = DATAPTRPOS -> 2 * CounterBytes
                        [] OTHER -> 2 * CounterBytes + bytes

Grantor(fdIndex, offset, extent) ==
    [fdIndex |-> fdIndex, offset |-> offset, extent |-> extent]

\* The descriptor for one memory region of its own.
OwnRegion(bytes, eventFlag) ==
    [pos \in Positions(eventFlag) |->
        Grantor(0, Uint32(AlignToWordBoundary(Before(bytes, pos))),
                MemSize(bytes, pos))]

\* It refuses data whose EventFlag word would not have an int32_t offset.
TooLarge(bytes, messageSize) ==
    \/ bytes > SizeMod - 1 - 2 * CounterBytes
    \/ AlignToWordBoundary(SizeT(2 * CounterBytes + bytes)) > IntMax
    \/ messageSize > IntMax
TooLargeToTell(bytes) == ~Alignable(SizeT(2 * CounterBytes + bytes))

\* The grantors when the caller supplies the memory of the ring buffer: the
\* counters and the EventFlag word have a region of their own.
SuppliedRegion(bytes, eventFlag) ==
    [pos \in Positions(eventFlag) |->
        IF pos = DATAPTRPOS THEN Grantor(1, 0, bytes)
        ELSE Grantor(0, Uint32(AlignToWordBoundary(Before(0, pos))),
                     MemSize(bytes, pos))]

\* kMetaDataSize and kAshmemSizePageAligned
MetaDataSize(eventFlag) == 2 * CounterBytes + (IF eventFlag THEN FlagBytes ELSE 0)

AshmemSize(bytes, eventFlag, supplied) ==
    LET data == IF supplied THEN 0 ELSE AlignToWordBoundary(bytes)
    IN  RoundDown(SizeT(data + MetaDataSize(eventFlag) + PageSize - 1), PageSize)

-----------------------------------------------------------------------------
\* What mapGrantorDescr asks mmap for.
MapOffset(g) == Int32(RoundDown(g.offset, PageSize))
\* (Mutant of MapLength: the bytes in front of the grantor are forgotten.)
MapLengthOfExtent(g) == Int32(g.extent)
MapLength(g) == Int32(g.offset - MapOffset(g) + g.extent)

\* mmap (external) maps whole pages, and of no more than the memory has.
Mappable(g, memory) ==
    /\ MapOffset(g) >= 0 /\ MapLength(g) > 0
    /\ MapOffset(g) + MapLength(g) <= RoundUp(memory, PageSize)
Pages(g) == [first |-> MapOffset(g),
             bytes |-> RoundUp(MapLength(g), PageSize)]

\* The bytes of grantor g lie in the mapped pages.
Covers(pages, g) ==
    /\ pages.first <= g.offset
    /\ g.offset + g.extent <= pages.first + pages.bytes

Apart(g, h) ==
    g.fdIndex = h.fdIndex => \/ g.offset + g.extent <= h.offset
                             \/ h.offset + h.extent <= g.offset
=============================================================================
