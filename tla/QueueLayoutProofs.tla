-------------------------- MODULE QueueLayoutProofs --------------------------
(***************************************************************************)
(* Theorems about QueueLayout for every size, page size, word size and     *)
(* integer width that LayoutAssumption allows: the parts of a queue do not *)
(* overlap, lie in the memory allocated for them, and what is mapped for a *)
(* part covers it.                                                         *)
(***************************************************************************)
EXTENDS QueueLayout, TLAPS

-----------------------------------------------------------------------------
\* Rounding.

\* Division leaves a remainder below the divisor.
LEMMA DivMod ==
    ASSUME NEW a \in Int, NEW s \in Nat \ {0}
    PROVE  /\ a % s \in 0..(s - 1)
           /\ a \div s \in Int
           /\ a = s * (a \div s) + (a % s)
  OBVIOUS

\* A quotient is unique.
LEMMA DivUnique ==
    ASSUME NEW a \in Int, NEW s \in Nat \ {0}, NEW q \in Int, NEW x \in 0..(s - 1),
           a = s * q + x
    PROVE  a \div s = q
<1> DEFINE p == a \div s
<1> DEFINE y == a % s
<1>1. p \in Int /\ y \in 0..(s - 1) /\ a = s * p + y
  BY DivMod
<1> HIDE DEF p, y
<1>2. CASE q - p >= 1
  <2>1. s * (q - p) >= s
    BY <1>1, <1>2
  <2>2. s * (q - p) = y - x
    BY <1>1
  <2> QED
    BY <1>1, <2>1, <2>2
<1>3. CASE p - q >= 1
  <2>1. s * (p - q) >= s
    BY <1>1, <1>3
  <2>2. s * (p - q) = x - y
    BY <1>1
  <2> QED
    BY <1>1, <2>1, <2>2
<1>4. CASE p = q
  BY <1>4 DEF p
<1> QED
  BY <1>1, <1>2, <1>3, <1>4

\* Rounding down loses less than a unit.
LEMMA RoundDownBounds ==
    ASSUME NEW x \in Int, NEW unit \in Nat \ {0}
    PROVE  /\ RoundDown(x, unit) \in Int
           /\ RoundDown(x, unit) <= x
           /\ x < RoundDown(x, unit) + unit
<1>1. x % unit \in 0..(unit - 1) /\ x \div unit \in Int
      /\ x = unit * (x \div unit) + (x % unit)
  BY DivMod
<1>2. RoundDown(x, unit) = unit * (x \div unit)
  BY <1>1 DEF RoundDown
<1> QED
  BY <1>1, <1>2

\* Rounding up adds less than a unit.
LEMMA RoundUpBounds ==
    ASSUME NEW x \in Int, NEW unit \in Nat \ {0}
    PROVE  /\ RoundUp(x, unit) \in Int
           /\ x <= RoundUp(x, unit)
           /\ RoundUp(x, unit) < x + unit
<1>1. x + unit - 1 \in Int
  OBVIOUS
<1> QED
  BY <1>1, RoundDownBounds DEF RoundUp

\* A whole number of units can be taken out of what is rounded up.
LEMMA RoundUpShift ==
    ASSUME NEW x \in Int, NEW unit \in Nat \ {0}, NEW k \in Int
    PROVE  RoundUp(unit * k + x, unit) = unit * k + RoundUp(x, unit)
<1> DEFINE y == x + unit - 1
<1> DEFINE q == y \div unit
<1> DEFINE r == y % unit
<1>1. y \in Int /\ q \in Int /\ r \in 0..(unit - 1) /\ y = unit * q + r
  BY DivMod
<1>2. (unit * k + y) \div unit = k + q
  <2> HIDE DEF y, q, r
  <2>1. unit * k + y = unit * (k + q) + r
    BY <1>1
  <2>2. k + q \in Int /\ unit * k + y \in Int
    BY <1>1
  <2> QED
    BY <1>1, <2>1, <2>2, DivUnique
<1>3. unit * k + x + unit - 1 = unit * k + y
  OBVIOUS
<1>4. RoundUp(unit * k + x, unit) = (k + q) * unit
  BY <1>2, <1>3 DEF RoundUp, RoundDown
<1>5. RoundUp(x, unit) = q * unit
  BY DEF RoundUp, RoundDown
<1>6. (k + q) * unit = unit * k + q * unit
  <2> HIDE DEF q
  <2> QED
    BY <1>1
<1> QED
  BY <1>4, <1>5, <1>6

-----------------------------------------------------------------------------
\* The parameters, as the provers need them.
LEMMA Parameters ==
    /\ WordBytes \in Nat \ {0} /\ PageSize \in Nat \ {0} /\ FlagBytes \in Nat \ {0}
    /\ CounterBytes \in Nat \ {0}
    /\ CounterBytes \div WordBytes \in Int
    /\ CounterBytes = WordBytes * (CounterBytes \div WordBytes)
    /\ IntMod \in Nat \ {0} /\ IntMax \in Int /\ 2 * IntMax + 2 = IntMod
    /\ 2 * CounterBytes <= IntMax
    /\ SizeMod \in Nat \ {0} /\ SizeMod >= IntMod + FlagBytes + PageSize
<1>1. WordBytes \in Nat \ {0} /\ CounterBytes \in Nat \ {0}
      /\ CounterBytes % WordBytes = 0
  BY LayoutAssumption
<1>2. CounterBytes \div WordBytes \in Int
      /\ CounterBytes = WordBytes * (CounterBytes \div WordBytes)
  <2>1. CounterBytes = WordBytes * (CounterBytes \div WordBytes)
                       + (CounterBytes % WordBytes)
        /\ CounterBytes \div WordBytes \in Int
    BY <1>1, DivMod
  <2> QED
    BY <1>1, <2>1
<1>3. IntMod \in Nat \ {0} /\ IntMod % 2 = 0 /\ IntMod \div 2 \in Int
      /\ IntMod = 2 * (IntMod \div 2)
  BY LayoutAssumption
<1>4. IntMax \in Int /\ 2 * IntMax + 2 = IntMod /\ 2 * CounterBytes <= IntMax
  BY <1>1, <1>3, LayoutAssumption DEF IntMax
<1> QED
  BY <1>1, <1>2, <1>3, <1>4, LayoutAssumption

\* The counters are whole words: they do not disturb the alignment.
LEMMA AlignAfterCounters ==
    ASSUME NEW x \in Int
    PROVE  /\ AlignToWordBoundary(CounterBytes + x)
                 = CounterBytes + AlignToWordBoundary(x)
           /\ AlignToWordBoundary(2 * CounterBytes + x)
                 = 2 * CounterBytes + AlignToWordBoundary(x)
<1> DEFINE c == CounterBytes \div WordBytes
<1>1. c \in Int /\ WordBytes \in Nat \ {0} /\ CounterBytes \in Int
      /\ CounterBytes = WordBytes * c
  BY Parameters
<1> HIDE DEF c
<1>2. RoundUp(WordBytes * c + x, WordBytes) = WordBytes * c + RoundUp(x, WordBytes)
  BY <1>1, RoundUpShift
<1>3. RoundUp(WordBytes * (2 * c) + x, WordBytes)
         = WordBytes * (2 * c) + RoundUp(x, WordBytes)
  <2>1. 2 * c \in Int
    BY <1>1
  <2> QED
    BY <1>1, <2>1, RoundUpShift
<1>4. WordBytes * (2 * c) = 2 * CounterBytes
  BY <1>1
<1> QED
  BY <1>1, <1>2, <1>3, <1>4 DEF AlignToWordBoundary

\* The first part lies at offset 0.
LEMMA AlignZero == AlignToWordBoundary(0) = 0
<1>1. WordBytes \in Nat \ {0} /\ 0 + WordBytes - 1 \in Int
      /\ 0 + WordBytes - 1 = WordBytes * 0 + (WordBytes - 1)
      /\ WordBytes - 1 \in 0..(WordBytes - 1)
  BY Parameters
<1>2. (0 + WordBytes - 1) \div WordBytes = 0
  BY <1>1, DivUnique
<1> QED
  BY <1>1, <1>2 DEF AlignToWordBoundary, RoundUp, RoundDown

\* An offset that fits an int passes the conversions unchanged.
LEMMA ShortOffset ==
    ASSUME NEW x \in 0..IntMax
    PROVE  Uint32(x) = x /\ Int32(x) = x
<1>1. IntMod \in Nat \ {0} /\ x \in Int /\ 0 <= x /\ x < IntMod
      /\ x < IntMod \div 2
  BY Parameters, LayoutAssumption DEF IntMax
<1>2. x % IntMod = x
  BY <1>1
<1> QED
  BY <1>1, <1>2 DEF Uint32, Int32

-----------------------------------------------------------------------------
\* The layout that every descriptor has: short offsets, parts that are apart.
LaidOut(grantors) ==
    /\ \A pos \in DOMAIN grantors : /\ grantors[pos].offset \in 0..IntMax
                                    /\ grantors[pos].fdIndex \in 0..1
    /\ \A pos, other \in DOMAIN grantors :
          pos # other => Apart(grantors[pos], grantors[other])

\* Where the parts of a region of its own lie, in plain numbers.
LEMMA OwnOffsets ==
    ASSUME NEW bytes \in 0..(SizeMod - 1), NEW eventFlag \in BOOLEAN,
           NEW messageSize \in Nat, ~TooLarge(bytes, messageSize)
    PROVE  LET data == AlignToWordBoundary(bytes)
               own == OwnRegion(bytes, eventFlag)
           IN  /\ data \in Int /\ bytes <= data
               /\ 2 * CounterBytes + data <= IntMax
               /\ own[READPTRPOS] = Grantor(0, 0, CounterBytes)
               /\ own[WRITEPTRPOS] = Grantor(0, CounterBytes, CounterBytes)
               /\ own[DATAPTRPOS] = Grantor(0, 2 * CounterBytes, bytes)
               /\ eventFlag => own[EVFLAGWORDPOS]
                                  = Grantor(0, 2 * CounterBytes + data, FlagBytes)
<1> DEFINE data == AlignToWordBoundary(bytes)
           own == OwnRegion(bytes, eventFlag)
<1>1. bytes \in Int /\ 0 <= bytes /\ SizeMod \in Nat \ {0}
  BY Parameters
<1>2. data \in Int /\ bytes <= data
  BY <1>1, Parameters, RoundUpBounds DEF AlignToWordBoundary
<1>3. SizeT(2 * CounterBytes + bytes) = 2 * CounterBytes + bytes
  <2>1. bytes <= SizeMod - 1 - 2 * CounterBytes
    BY <1>1, Parameters DEF TooLarge
  <2> QED
    BY <1>1, <2>1, Parameters DEF SizeT
<1>4. AlignToWordBoundary(2 * CounterBytes + bytes) = 2 * CounterBytes + data
  BY <1>1, AlignAfterCounters
<1>5. 2 * CounterBytes + data <= IntMax
  <2>1. ~(AlignToWordBoundary(SizeT(2 * CounterBytes + bytes)) > IntMax)
    BY DEF TooLarge
  <2> QED
    BY <1>2, <1>3, <1>4, <2>1, Parameters
<1>6. /\ AlignToWordBoundary(CounterBytes) = CounterBytes
      /\ AlignToWordBoundary(2 * CounterBytes) = 2 * CounterBytes
  BY AlignAfterCounters, AlignZero, Parameters
<1>7. /\ Uint32(0) = 0
      /\ Uint32(CounterBytes) = CounterBytes
      /\ Uint32(2 * CounterBytes) = 2 * CounterBytes
      /\ Uint32(2 * CounterBytes + data) = 2 * CounterBytes + data
  <2>1. 0 \in 0..IntMax /\ CounterBytes \in 0..IntMax
        /\ 2 * CounterBytes \in 0..IntMax /\ 2 * CounterBytes + data \in 0..IntMax
    BY <1>1, <1>2, <1>5, Parameters
  <2> QED
    BY <2>1, ShortOffset
<1> HIDE DEF data
<1>8. own[READPTRPOS] = Grantor(0, 0, CounterBytes)
  BY <1>7, AlignZero
     DEF OwnRegion, Positions, Before, MemSize, READPTRPOS, WRITEPTRPOS,
         DATAPTRPOS, EVFLAGWORDPOS
<1>9. own[WRITEPTRPOS] = Grantor(0, CounterBytes, CounterBytes)
  BY <1>6, <1>7
     DEF OwnRegion, Positions, Before, MemSize, READPTRPOS, WRITEPTRPOS,
         DATAPTRPOS, EVFLAGWORDPOS
<1>10. own[DATAPTRPOS] = Grantor(0, 2 * CounterBytes, bytes)
  BY <1>6, <1>7
     DEF OwnRegion, Positions, Before, MemSize, READPTRPOS, WRITEPTRPOS,
         DATAPTRPOS, EVFLAGWORDPOS
<1>11. ASSUME eventFlag
       PROVE  own[EVFLAGWORDPOS] = Grantor(0, 2 * CounterBytes + data, FlagBytes)
  BY <1>4, <1>7, <1>11
     DEF OwnRegion, Positions, Before, MemSize, READPTRPOS, WRITEPTRPOS,
         DATAPTRPOS, EVFLAGWORDPOS
<1> QED
  BY <1>2, <1>5, <1>8, <1>9, <1>10, <1>11 DEF data

\* Both layouts of the constructor: the queue's own region ...
LEMMA OwnRegionLaidOut ==
    ASSUME NEW bytes \in 0..(SizeMod - 1), NEW eventFlag \in BOOLEAN,
           NEW messageSize \in Nat, ~TooLarge(bytes, messageSize)
    PROVE  LaidOut(OwnRegion(bytes, eventFlag))
<1> DEFINE data == AlignToWordBoundary(bytes)
           own == OwnRegion(bytes, eventFlag)
<1>1. /\ data \in Int /\ bytes <= data
      /\ 2 * CounterBytes + data <= IntMax
      /\ own[READPTRPOS] = Grantor(0, 0, CounterBytes)
      /\ own[WRITEPTRPOS] = Grantor(0, CounterBytes, CounterBytes)
      /\ own[DATAPTRPOS] = Grantor(0, 2 * CounterBytes, bytes)
      /\ eventFlag => own[EVFLAGWORDPOS]
                         = Grantor(0, 2 * CounterBytes + data, FlagBytes)
  BY OwnOffsets
<1>2. DOMAIN own = IF eventFlag THEN 0..3 ELSE 0..2
  BY DEF OwnRegion, Positions, EVFLAGWORDPOS, DATAPTRPOS
<1> HIDE DEF data, own
<1>3. bytes \in Nat /\ CounterBytes \in Nat \ {0} /\ FlagBytes \in Nat \ {0}
      /\ IntMax \in Int
  BY Parameters
<1>4. \A pos \in DOMAIN own : own[pos].offset \in 0..IntMax /\ own[pos].fdIndex \in 0..1
  BY <1>1, <1>2, <1>3
     DEF Grantor, READPTRPOS, WRITEPTRPOS, DATAPTRPOS, EVFLAGWORDPOS
<1>5. \A pos, other \in DOMAIN own : pos # other => Apart(own[pos], own[other])
  BY <1>1, <1>2, <1>3
     DEF Grantor, Apart, READPTRPOS, WRITEPTRPOS, DATAPTRPOS, EVFLAGWORDPOS
<1> QED
  BY <1>4, <1>5 DEF LaidOut, own

\* ... and the ring in a buffer of the caller, whatever its size.
LEMMA SuppliedRegionLaidOut ==
    ASSUME NEW bytes \in Nat, NEW eventFlag \in BOOLEAN
    PROVE  LaidOut(SuppliedRegion(bytes, eventFlag))
<1> DEFINE grantors == SuppliedRegion(bytes, eventFlag)
<1>1. /\ AlignToWordBoundary(CounterBytes) = CounterBytes
      /\ AlignToWordBoundary(2 * CounterBytes) = 2 * CounterBytes
      /\ AlignToWordBoundary(2 * CounterBytes + 0) = 2 * CounterBytes
  BY AlignAfterCounters, AlignZero, Parameters
<1>2. /\ Uint32(0) = 0
      /\ Uint32(CounterBytes) = CounterBytes
      /\ Uint32(2 * CounterBytes) = 2 * CounterBytes
  <2>1. 0 \in 0..IntMax /\ CounterBytes \in 0..IntMax /\ 2 * CounterBytes \in 0..IntMax
    BY Parameters
  <2> QED
    BY <2>1, ShortOffset
<1>3. /\ grantors[READPTRPOS] = Grantor(0, 0, CounterBytes)
      /\ grantors[WRITEPTRPOS] = Grantor(0, CounterBytes, CounterBytes)
      /\ grantors[DATAPTRPOS] = Grantor(1, 0, bytes)
  BY <1>1, <1>2, AlignZero
     DEF SuppliedRegion, Positions, Before, MemSize, READPTRPOS, WRITEPTRPOS,
         DATAPTRPOS, EVFLAGWORDPOS
<1>4. ASSUME eventFlag
      PROVE  grantors[EVFLAGWORDPOS] = Grantor(0, 2 * CounterBytes, FlagBytes)
  BY <1>1, <1>2, <1>4
     DEF SuppliedRegion, Positions, Before, MemSize, READPTRPOS, WRITEPTRPOS,
         DATAPTRPOS, EVFLAGWORDPOS
<1>5. DOMAIN grantors = IF eventFlag THEN 0..3 ELSE 0..2
  BY DEF SuppliedRegion, Positions, EVFLAGWORDPOS, DATAPTRPOS
<1> HIDE DEF grantors
<1>6. CounterBytes \in Nat \ {0} /\ FlagBytes \in Nat \ {0} /\ IntMax \in Int
      /\ 2 * CounterBytes <= IntMax
  BY Parameters
<1>7. \A pos \in DOMAIN grantors :
         grantors[pos].offset \in 0..IntMax /\ grantors[pos].fdIndex \in 0..1
  BY <1>3, <1>4, <1>5, <1>6
     DEF Grantor, READPTRPOS, WRITEPTRPOS, DATAPTRPOS, EVFLAGWORDPOS
<1>8. \A pos, other \in DOMAIN grantors :
         pos # other => Apart(grantors[pos], grantors[other])
  BY <1>3, <1>4, <1>5, <1>6
     DEF Grantor, Apart, READPTRPOS, WRITEPTRPOS, DATAPTRPOS, EVFLAGWORDPOS
<1> QED
  BY <1>7, <1>8 DEF LaidOut, grantors

-----------------------------------------------------------------------------
\* The memory that the constructor allocates (AshmemSize) holds every part that
\* its descriptor places there, for every size that the descriptor accepts.
THEOREM OwnRegionFits ==
    ASSUME NEW bytes \in 0..(SizeMod - 1), NEW eventFlag \in BOOLEAN,
           NEW messageSize \in Nat, ~TooLarge(bytes, messageSize),
           NEW pos \in Positions(eventFlag)
    PROVE  LET g == OwnRegion(bytes, eventFlag)[pos]
           IN  g.offset + g.extent <= AshmemSize(bytes, eventFlag, FALSE)
<1> DEFINE data == AlignToWordBoundary(bytes)
           own == OwnRegion(bytes, eventFlag)
           flag == IF eventFlag THEN FlagBytes ELSE 0
           size == data + (2 * CounterBytes + flag) + PageSize - 1
<1> SUFFICES own[pos].offset + own[pos].extent
                <= AshmemSize(bytes, eventFlag, FALSE)
  OBVIOUS
<1>1. /\ data \in Int /\ bytes <= data
      /\ 2 * CounterBytes + data <= IntMax
      /\ own[READPTRPOS] = Grantor(0, 0, CounterBytes)
      /\ own[WRITEPTRPOS] = Grantor(0, CounterBytes, CounterBytes)
      /\ own[DATAPTRPOS] = Grantor(0, 2 * CounterBytes, bytes)
      /\ eventFlag => own[EVFLAGWORDPOS]
                         = Grantor(0, 2 * CounterBytes + data, FlagBytes)
  BY OwnOffsets
<1>2. AshmemSize(bytes, eventFlag, FALSE) = RoundDown(SizeT(size), PageSize)
  BY DEF AshmemSize, MetaDataSize
<1> HIDE DEF data, own
<1>3. size \in Int /\ 0 <= size /\ size < SizeMod /\ flag \in Int
      /\ bytes \in Int /\ 0 <= bytes
  BY <1>1, Parameters
<1>4. SizeT(size) = size
  <2> HIDE DEF size
  <2> QED
    BY <1>3, Parameters DEF SizeT
<1>5. size - PageSize + 1 <= RoundDown(size, PageSize)
      /\ RoundDown(size, PageSize) \in Int
  <2> HIDE DEF size
  <2> QED
    BY <1>3, Parameters, RoundDownBounds
<1>6. data + 2 * CounterBytes + flag <= AshmemSize(bytes, eventFlag, FALSE)
      /\ AshmemSize(bytes, eventFlag, FALSE) \in Int
  <2> HIDE DEF flag
  <2>1. size - PageSize + 1 = data + 2 * CounterBytes + flag
    BY <1>1, <1>3, Parameters
  <2> HIDE DEF size
  <2> QED
    BY <1>2, <1>4, <1>5, <2>1
<1>7. own[pos].offset + own[pos].extent <= data + 2 * CounterBytes + flag
  <2>1. pos \in (IF eventFlag THEN 0..3 ELSE 0..2)
    BY DEF Positions, EVFLAGWORDPOS, DATAPTRPOS
  <2> QED
    BY <1>1, <1>3, <2>1, Parameters
       DEF Grantor, READPTRPOS, WRITEPTRPOS, DATAPTRPOS, EVFLAGWORDPOS
<1>8. own[pos].offset \in Int /\ own[pos].extent \in Int
  <2>1. pos \in (IF eventFlag THEN 0..3 ELSE 0..2)
    BY DEF Positions, EVFLAGWORDPOS, DATAPTRPOS
  <2> QED
    BY <1>1, <1>3, <2>1, Parameters
       DEF Grantor, READPTRPOS, WRITEPTRPOS, DATAPTRPOS, EVFLAGWORDPOS
<1> DEFINE end == own[pos].offset + own[pos].extent
           used == data + 2 * CounterBytes + flag
           memoryEnd == AshmemSize(bytes, eventFlag, FALSE)
<1>9. end \in Int /\ used \in Int
  BY <1>1, <1>3, <1>8, Parameters
<1>10. end <= used /\ used <= memoryEnd /\ memoryEnd \in Int
  BY <1>6, <1>7
<1> HIDE DEF end, used, memoryEnd
<1>11. end <= memoryEnd
  BY <1>9, <1>10
<1> QED
  BY <1>11 DEF end, memoryEnd

-----------------------------------------------------------------------------
\* What mmap is asked for.

\* A grantor whose numbers the conversions of mapGrantorDescr do not change, or
\* make negative.
Short(g) == /\ g.offset \in 0..IntMax /\ g.extent \in Nat
            /\ g.offset + g.extent < IntMod

\* Rounding yields whole units, and leaves whole units alone.
LEMMA RoundDownWhole ==
    ASSUME NEW x \in Nat, NEW unit \in Nat \ {0}
    PROVE  /\ x \div unit \in Nat /\ RoundDown(x, unit) \in Nat
           /\ RoundDown(x, unit) = unit * (x \div unit) /\ RoundDown(x, unit) <= x
<1> DEFINE k == x \div unit
           y == x % unit
<1>1. y \in 0..(unit - 1) /\ k \in Int /\ x = unit * k + y
  BY DivMod
<1>2. RoundDown(x, unit) = k * unit
  BY DEF RoundDown
<1> HIDE DEF k, y
<1>3. k \in Nat
  <2>1. CASE k <= -1
    <3>1. unit * (-1 - k) >= 0
      BY <1>1, <2>1
    <3>2. unit * (-1 - k) = -unit - unit * k
      BY <1>1
    <3> QED
      BY <1>1, <3>1, <3>2
  <2> QED
    BY <1>1, <2>1
<1>4. k * unit = unit * k /\ unit * k \in Nat /\ unit * k <= x
  BY <1>1, <1>3
<1> QED
  BY <1>2, <1>3, <1>4 DEF k

LEMMA RoundUpWhole ==
    ASSUME NEW k \in Int, NEW unit \in Nat \ {0}
    PROVE  RoundUp(unit * k, unit) = unit * k
<1> DEFINE a == unit * k + unit - 1
<1>1. a \in Int /\ unit - 1 \in 0..(unit - 1) /\ a = unit * k + (unit - 1)
      /\ k * unit = unit * k
  OBVIOUS
<1> HIDE DEF a
<1>2. a \div unit = k
  BY <1>1, DivUnique
<1> QED
  BY <1>1, <1>2 DEF RoundUp, RoundDown, a

\* Int32 is exact or negative on what an unsigned integer holds.
LEMMA IntOfUnsigned ==
    ASSUME NEW x \in Nat, x < IntMod
    PROVE  Int32(x) = x \/ Int32(x) < 0
<1>1. x % IntMod = x /\ IntMod \in Nat
  BY Parameters
<1> QED
  BY <1>1 DEF Int32, Uint32

\* A grantor that is mapped lies in the mapped pages and in the memory.
LEMMA MappedIsCovered ==
    ASSUME NEW g, Short(g), NEW memory \in Nat, Mappable(g, memory)
    PROVE  /\ Covers(Pages(g), g)
           /\ g.offset + g.extent <= RoundUp(memory, PageSize)
           /\ RoundUp(memory, PageSize) > 0
<1> DEFINE off == g.offset
           ext == g.extent
           down == RoundDown(off, PageSize)
           len == off - down + ext
<1>1. off \in 0..IntMax /\ ext \in Nat /\ off + ext < IntMod /\ IntMax \in Int
      /\ PageSize \in Nat \ {0} /\ IntMod \in Nat
  BY Parameters DEF Short
<1>2. off \in Nat /\ off <= IntMax
  BY <1>1
<1>3. down \in Nat /\ down <= off
  <2> HIDE DEF off
  <2> QED
    BY <1>1, <1>2, RoundDownWhole
<1>4. MapOffset(g) = down
  <2> HIDE DEF off
  <2>1. down \in 0..IntMax
    <3> HIDE DEF down
    <3> QED
      BY <1>1, <1>2, <1>3
  <2> HIDE DEF down
  <2>2. Int32(down) = down
    BY <2>1, ShortOffset
  <2> QED
    BY <2>2 DEF MapOffset, down, off
<1>5. MapLength(g) = Int32(len)
  BY <1>4 DEF MapLength
<1>6. len \in Nat /\ len < IntMod /\ down + len = off + ext
  <2> HIDE DEF off, ext, down
  <2> QED
    BY <1>1, <1>2, <1>3
<1> HIDE DEF off, ext, down, len
<1>7. MapLength(g) = len /\ len > 0 /\ down + len <= RoundUp(memory, PageSize)
  <2>1. Int32(len) > 0 /\ down + Int32(len) <= RoundUp(memory, PageSize)
    BY <1>4, <1>5 DEF Mappable
  <2>2. Int32(len) = len \/ Int32(len) < 0
    BY <1>6, IntOfUnsigned
  <2>3. IntMod \in Nat /\ Int32(len) \in Int
    BY <1>1, <1>6 DEF Int32, Uint32
  <2>4. Int32(len) = len
    BY <2>1, <2>2, <2>3
  <2> QED
    BY <1>5, <2>1, <2>4
<1>8. RoundUp(len, PageSize) \in Int /\ len <= RoundUp(len, PageSize)
      /\ RoundUp(memory, PageSize) \in Int
  BY <1>1, <1>6, RoundUpBounds
<1>9. Pages(g).first = down /\ Pages(g).bytes = RoundUp(len, PageSize)
  BY <1>4, <1>7 DEF Pages
<1>10. down <= off /\ off + ext <= down + RoundUp(len, PageSize)
  BY <1>1, <1>2, <1>3, <1>6, <1>8
<1>11. Covers(Pages(g), g)
  BY <1>9, <1>10 DEF Covers, off, ext
<1>12. off + ext <= RoundUp(memory, PageSize) /\ RoundUp(memory, PageSize) > 0
  BY <1>3, <1>6, <1>7, <1>8
<1> QED
  BY <1>11, <1>12 DEF off, ext

\* Nothing is mapped without memory.
LEMMA NothingMapped ==
    /\ RoundUp(0, PageSize) = 0
    /\ \A g : Short(g) => ~Mappable(g, 0)
<1>1. PageSize \in Nat \ {0} /\ 0 + PageSize - 1 \in Int
      /\ 0 + PageSize - 1 = PageSize * 0 + (PageSize - 1)
      /\ PageSize - 1 \in 0..(PageSize - 1)
  BY Parameters
<1>2. (0 + PageSize - 1) \div PageSize = 0
  BY <1>1, DivUnique
<1>3. RoundUp(0, PageSize) = 0
  BY <1>1, <1>2 DEF RoundUp, RoundDown
<1>4. ASSUME NEW g, Short(g), Mappable(g, 0) PROVE FALSE
  BY <1>3, <1>4, MappedIsCovered
<1> QED
  BY <1>3, <1>4

\* The memory of a queue is whole pages: no part that is mapped runs past it.
LEMMA WholePages ==
    ASSUME NEW bytes \in Nat, NEW eventFlag \in BOOLEAN, NEW supplied \in BOOLEAN
    PROVE  LET size == AshmemSize(bytes, eventFlag, supplied)
           IN  size \in 0..(SizeMod - 1) /\ RoundUp(size, PageSize) = size
<1> DEFINE data == IF supplied THEN 0 ELSE AlignToWordBoundary(bytes)
           x == data + MetaDataSize(eventFlag) + PageSize - 1
           y == SizeT(x)
           k == y \div PageSize
           size == AshmemSize(bytes, eventFlag, supplied)
<1>1. PageSize \in Nat \ {0} /\ SizeMod \in Nat \ {0}
  BY Parameters
<1>2. x \in Int
  <2>1. AlignToWordBoundary(bytes) \in Int /\ CounterBytes \in Int /\ FlagBytes \in Int
    BY Parameters, RoundUpBounds DEF AlignToWordBoundary
  <2> QED
    BY <1>1, <2>1 DEF MetaDataSize
<1> HIDE DEF x
<1>3. y \in 0..(SizeMod - 1)
  BY <1>1, <1>2, DivMod DEF SizeT
<1>4. size = RoundDown(y, PageSize)
  BY DEF AshmemSize, x
<1> HIDE DEF y, size
<1>5. k \in Nat /\ size \in Nat /\ size = PageSize * k /\ size <= y
  <2>1. y \in Nat
    BY <1>1, <1>3
  <2> QED
    BY <1>1, <1>4, <2>1, RoundDownWhole
<1> HIDE DEF k
<1>6. RoundUp(size, PageSize) = size
  BY <1>1, <1>5, RoundUpWhole
<1>7. size \in 0..(SizeMod - 1)
  BY <1>1, <1>3, <1>5
<1> QED
  BY <1>6, <1>7 DEF size

\* The parts of a region of its own are short.
LEMMA OwnRegionShort ==
    ASSUME NEW bytes \in 0..(SizeMod - 1), NEW eventFlag \in BOOLEAN,
           NEW messageSize \in Nat, ~TooLarge(bytes, messageSize)
    PROVE  LET own == OwnRegion(bytes, eventFlag)
           IN  \A pos \in DOMAIN own : Short(own[pos])
<1> DEFINE data == AlignToWordBoundary(bytes)
           own == OwnRegion(bytes, eventFlag)
<1>1. /\ data \in Int /\ bytes <= data
      /\ 2 * CounterBytes + data <= IntMax
      /\ own[READPTRPOS] = Grantor(0, 0, CounterBytes)
      /\ own[WRITEPTRPOS] = Grantor(0, CounterBytes, CounterBytes)
      /\ own[DATAPTRPOS] = Grantor(0, 2 * CounterBytes, bytes)
      /\ eventFlag => own[EVFLAGWORDPOS]
                         = Grantor(0, 2 * CounterBytes + data, FlagBytes)
  BY OwnOffsets
<1>2. DOMAIN own = IF eventFlag THEN 0..3 ELSE 0..2
  BY DEF OwnRegion, Positions, EVFLAGWORDPOS, DATAPTRPOS
<1> HIDE DEF data, own
<1>3. bytes \in Nat /\ CounterBytes \in Nat \ {0} /\ FlagBytes \in Nat \ {0}
      /\ IntMax \in Int /\ 2 * IntMax + 2 = IntMod /\ IntMod \in Nat
      /\ FlagBytes <= IntMax
  BY Parameters, LayoutAssumption DEF IntMax
<1>4. own[READPTRPOS].offset = 0 /\ own[WRITEPTRPOS].offset = CounterBytes
      /\ own[DATAPTRPOS].offset = 2 * CounterBytes
      /\ own[READPTRPOS].extent = CounterBytes /\ own[WRITEPTRPOS].extent = CounterBytes
      /\ own[DATAPTRPOS].extent = bytes
      /\ (eventFlag => own[EVFLAGWORDPOS].offset = 2 * CounterBytes + data
                       /\ own[EVFLAGWORDPOS].extent = FlagBytes)
  BY <1>1 DEF Grantor
<1>5. Short(own[READPTRPOS]) /\ Short(own[WRITEPTRPOS]) /\ Short(own[DATAPTRPOS])
      /\ (eventFlag => Short(own[EVFLAGWORDPOS]))
  <2>1. /\ 0 \in 0..IntMax /\ CounterBytes \in 0..IntMax /\ 2 * CounterBytes \in 0..IntMax
        /\ 2 * CounterBytes + data \in 0..IntMax
        /\ 0 + CounterBytes < IntMod /\ CounterBytes + CounterBytes < IntMod
        /\ 2 * CounterBytes + bytes < IntMod
        /\ 2 * CounterBytes + data + FlagBytes < IntMod
    <3>1. data \in Int /\ bytes <= data /\ 2 * CounterBytes + data <= IntMax
      BY <1>1
    <3> QED
      BY <1>3, <3>1
  <2>2. Short(own[READPTRPOS])
    BY <1>3, <1>4, <2>1 DEF Short
  <2>3. Short(own[WRITEPTRPOS])
    BY <1>3, <1>4, <2>1 DEF Short
  <2>4. Short(own[DATAPTRPOS])
    BY <1>3, <1>4, <2>1 DEF Short
  <2>5. ASSUME eventFlag PROVE Short(own[EVFLAGWORDPOS])
    <3>1. own[EVFLAGWORDPOS].offset = 2 * CounterBytes + data
          /\ own[EVFLAGWORDPOS].extent = FlagBytes
      BY <1>4, <2>5
    <3> QED
      BY <1>3, <2>1, <3>1 DEF Short
  <2> QED
    BY <2>2, <2>3, <2>4, <2>5
<1>6. \A pos \in DOMAIN own : \/ pos \in {READPTRPOS, WRITEPTRPOS, DATAPTRPOS}
                              \/ eventFlag /\ pos = EVFLAGWORDPOS
  BY <1>2 DEF READPTRPOS, WRITEPTRPOS, DATAPTRPOS, EVFLAGWORDPOS
<1> QED
  BY <1>5, <1>6 DEF own

\* A number of elements that the constructor does not refuse has a size_t.
LEMMA CountFits ==
    ASSUME NEW n \in Nat, NEW size \in Nat \ {0}, n <= (SizeMod - 1) \div size
    PROVE  n * size \in 0..(SizeMod - 1)
<1> DEFINE q == (SizeMod - 1) \div size
<1>1. q \in Int /\ (SizeMod - 1) % size \in 0..(size - 1)
      /\ SizeMod - 1 = size * q + ((SizeMod - 1) % size)
  <2>1. SizeMod - 1 \in Int
    BY Parameters
  <2> QED
    BY <2>1, DivMod
<1> HIDE DEF q
<1>2. n <= q
  BY DEF q
<1>3. size * (q - n) >= 0
  BY <1>1, <1>2
<1>4. size * q = n * size + size * (q - n) /\ n * size \in Nat
  BY <1>1
<1> QED
  BY <1>1, <1>3, <1>4, Parameters

\* Grantors g of a ring of so many bytes lie in the memory of the queue's own, of
\* size own, or fill the first of those bytes that the caller supplies.
FitsMemory(g, own, bytes) ==
    \A pos \in DOMAIN g :
        /\ g[pos] = Grantor(g[pos].fdIndex, g[pos].offset, g[pos].extent)
        /\ g[pos].fdIndex \in 0..1 /\ g[pos].extent \in Nat
        /\ g[pos].fdIndex = 0 => g[pos].offset + g[pos].extent <= own
        /\ g[pos].fdIndex = 1 => g[pos].offset + g[pos].extent = bytes
        /\ pos = DATAPTRPOS => g[pos].extent = bytes

\* The parts around a buffer of the caller lie in the memory allocated for them,
\* and the ring in the buffer.
THEOREM SuppliedRegionFits ==
    ASSUME NEW bytes \in Nat, NEW eventFlag \in BOOLEAN
    PROVE  FitsMemory(SuppliedRegion(bytes, eventFlag),
                      AshmemSize(bytes, eventFlag, TRUE), bytes)
<1> DEFINE grantors == SuppliedRegion(bytes, eventFlag)
           flag == IF eventFlag THEN FlagBytes ELSE 0
           x == 0 + (2 * CounterBytes + flag) + PageSize - 1
           size == AshmemSize(bytes, eventFlag, TRUE)
<1>1. /\ AlignToWordBoundary(CounterBytes) = CounterBytes
      /\ AlignToWordBoundary(2 * CounterBytes) = 2 * CounterBytes
      /\ AlignToWordBoundary(2 * CounterBytes + 0) = 2 * CounterBytes
  BY AlignAfterCounters, AlignZero, Parameters
<1>2. /\ Uint32(0) = 0
      /\ Uint32(CounterBytes) = CounterBytes
      /\ Uint32(2 * CounterBytes) = 2 * CounterBytes
  <2>1. 0 \in 0..IntMax /\ CounterBytes \in 0..IntMax /\ 2 * CounterBytes \in 0..IntMax
    BY Parameters
  <2> QED
    BY <2>1, ShortOffset
<1>3. /\ grantors[READPTRPOS] = Grantor(0, 0, CounterBytes)
      /\ grantors[WRITEPTRPOS] = Grantor(0, CounterBytes, CounterBytes)
      /\ grantors[DATAPTRPOS] = Grantor(1, 0, bytes)
  BY <1>1, <1>2, AlignZero
     DEF SuppliedRegion, Positions, Before, MemSize, READPTRPOS, WRITEPTRPOS,
         DATAPTRPOS, EVFLAGWORDPOS
<1>4. ASSUME eventFlag
      PROVE  grantors[EVFLAGWORDPOS] = Grantor(0, 2 * CounterBytes, FlagBytes)
  BY <1>1, <1>2, <1>4
     DEF SuppliedRegion, Positions, Before, MemSize, READPTRPOS, WRITEPTRPOS,
         DATAPTRPOS, EVFLAGWORDPOS
<1>5. DOMAIN grantors = IF eventFlag THEN 0..3 ELSE 0..2
  BY DEF SuppliedRegion, Positions, EVFLAGWORDPOS, DATAPTRPOS
<1>6. /\ CounterBytes \in Nat \ {0} /\ FlagBytes \in Nat \ {0} /\ PageSize \in Nat \ {0}
      /\ SizeMod \in Nat /\ SizeMod >= IntMod + FlagBytes + PageSize
      /\ IntMod \in Nat /\ IntMax \in Int /\ 2 * IntMax + 2 = IntMod
      /\ 2 * CounterBytes <= IntMax
  BY Parameters
<1>7. size = RoundDown(SizeT(x), PageSize)
  BY DEF AshmemSize, MetaDataSize
<1> HIDE DEF grantors, size
<1>8. x \in Nat /\ x < SizeMod /\ flag \in Nat
  BY <1>6
<1>9. 2 * CounterBytes + flag <= size /\ size \in Int
  <2>1. SizeT(x) = x
    <3> HIDE DEF x
    <3> QED
      BY <1>6, <1>8 DEF SizeT
  <2>2. RoundDown(x, PageSize) \in Int /\ x < RoundDown(x, PageSize) + PageSize
    <3> HIDE DEF x
    <3> QED
      BY <1>6, <1>8, RoundDownBounds
  <2>3. x = 2 * CounterBytes + flag + PageSize - 1
    BY <1>6
  <2> HIDE DEF x, flag
  <2> QED
    BY <1>6, <1>7, <1>8, <2>1, <2>2, <2>3
<1>10. ASSUME NEW pos \in DOMAIN grantors
       PROVE  /\ grantors[pos] = Grantor(grantors[pos].fdIndex, grantors[pos].offset,
                                         grantors[pos].extent)
              /\ grantors[pos].fdIndex \in 0..1 /\ grantors[pos].extent \in Nat
              /\ grantors[pos].fdIndex = 0 =>
                    grantors[pos].offset + grantors[pos].extent <= size
              /\ grantors[pos].fdIndex = 1 =>
                    grantors[pos].offset + grantors[pos].extent = bytes
              /\ pos = DATAPTRPOS => grantors[pos].extent = bytes
  <2>1. CASE pos \in {READPTRPOS, WRITEPTRPOS}
    BY <1>3, <1>6, <1>8, <1>9, <2>1 DEF Grantor, READPTRPOS, WRITEPTRPOS, DATAPTRPOS
  <2>2. CASE pos = DATAPTRPOS
    BY <1>3, <2>2 DEF Grantor
  <2>3. CASE eventFlag /\ pos = EVFLAGWORDPOS
    BY <1>4, <1>6, <1>8, <1>9, <2>3 DEF Grantor, DATAPTRPOS, EVFLAGWORDPOS
  <2> QED
    BY <1>5, <2>1, <2>2, <2>3 DEF READPTRPOS, WRITEPTRPOS, DATAPTRPOS, EVFLAGWORDPOS
<1> QED
  BY <1>10 DEF FitsMemory, grantors, size

\* The same of a region of its own.
LEMMA OwnRegionShape ==
    ASSUME NEW bytes \in 0..(SizeMod - 1), NEW eventFlag \in BOOLEAN,
           NEW messageSize \in Nat, ~TooLarge(bytes, messageSize)
    PROVE  LET g == OwnRegion(bytes, eventFlag)
           IN  /\ FitsMemory(g, AshmemSize(bytes, eventFlag, FALSE), bytes)
               /\ \A pos \in DOMAIN g : g[pos].fdIndex = 0
<1> DEFINE own == OwnRegion(bytes, eventFlag)
<1>1. DOMAIN own = Positions(eventFlag)
  BY DEF OwnRegion
<1>2. ASSUME NEW pos \in DOMAIN own
      PROVE  own[pos].offset + own[pos].extent <= AshmemSize(bytes, eventFlag, FALSE)
  BY <1>1, OwnRegionFits
<1>3. /\ own[READPTRPOS] = Grantor(0, 0, CounterBytes)
      /\ own[WRITEPTRPOS] = Grantor(0, CounterBytes, CounterBytes)
      /\ own[DATAPTRPOS] = Grantor(0, 2 * CounterBytes, bytes)
      /\ eventFlag => own[EVFLAGWORDPOS]
             = Grantor(0, 2 * CounterBytes + AlignToWordBoundary(bytes), FlagBytes)
  BY OwnOffsets
<1>4. \A pos \in DOMAIN own : \/ pos \in {READPTRPOS, WRITEPTRPOS, DATAPTRPOS}
                              \/ eventFlag /\ pos = EVFLAGWORDPOS
  BY <1>1 DEF Positions, READPTRPOS, WRITEPTRPOS, DATAPTRPOS, EVFLAGWORDPOS
<1> HIDE DEF own
<1>5. CounterBytes \in Nat /\ FlagBytes \in Nat /\ bytes \in Nat
  BY Parameters
<1>6. ASSUME NEW pos \in DOMAIN own
      PROVE  /\ own[pos] = Grantor(own[pos].fdIndex, own[pos].offset, own[pos].extent)
             /\ own[pos].fdIndex = 0 /\ own[pos].extent \in Nat
             /\ pos = DATAPTRPOS => own[pos].extent = bytes
  <2>1. CASE pos \in {READPTRPOS, WRITEPTRPOS}
    BY <1>3, <1>5, <2>1 DEF Grantor, READPTRPOS, WRITEPTRPOS, DATAPTRPOS
  <2>2. CASE pos = DATAPTRPOS
    BY <1>3, <1>5, <2>2 DEF Grantor
  <2>3. CASE eventFlag /\ pos = EVFLAGWORDPOS
    BY <1>3, <1>5, <2>3 DEF Grantor, DATAPTRPOS, EVFLAGWORDPOS
  <2> QED
    BY <1>4, <2>1, <2>2, <2>3
<1>7. FitsMemory(own, AshmemSize(bytes, eventFlag, FALSE), bytes)
  <2>1. \A pos \in DOMAIN own : own[pos].fdIndex \in 0..1 /\ own[pos].fdIndex # 1
    BY <1>6
  <2> QED
    BY <1>2, <1>6, <2>1, Zenon DEF FitsMemory
<1> QED
  BY <1>6, <1>7 DEF own
=============================================================================
