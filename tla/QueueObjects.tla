---------------------------- MODULE QueueObjects ----------------------------
(***************************************************************************)
(* The life of queue objects in one process: created with memory of their  *)
(* own or with a ring buffer the caller supplies, described to others      *)
(* (dupeDesc), attached to such a description, destroyed; and the file     *)
(* descriptors and mappings they own meanwhile.  A parcel is an AIDL       *)
(* MQDescriptor: one that crosses processes arrives with descriptors of    *)
(* its own, as dupeDesc makes them, so one process shows both ends.  When  *)
(* a check fails the process aborts and a new one starts afresh.           *)
(***************************************************************************)
EXTENDS QueueLayout, Sequences

CONSTANTS Objects, Parcels,
          MaxFd,          \* bound: descriptors 0..MaxFd
          Limits,         \* how many of them a process may have open: RLIMIT_NOFILE
          MaxFile,        \* bound: memory files 0..MaxFile exist at once
          Synchronized,   \* flavor == kSynchronizedReadWrite
          Elements,       \* the numElementsInQueue arguments
          MessageSizes,   \* sizeof(T) of the queue types in use
          Quanta,         \* values an edited parcel may have as its quantum: no queue's
          BufferSizes,    \* sizes of the memory that callers supply
          Widened         \* positions whose grantor a HIDL descriptor may spoil

FDs == 0..MaxFd
Files == 0..MaxFile
Closed == -1      \* not a file
NoFd == -1        \* what a failed dup or ashmem_create_region returns

ASSUME ObjectsAssumption ==
    /\ MaxFd \in Nat /\ MaxFile \in Nat /\ Limits \subseteq 0..(MaxFd + 1)
    /\ Synchronized \in BOOLEAN
    /\ Elements \subseteq 0..(SizeMod - 1)
    /\ MessageSizes \subseteq 1..(IntMod - 1)
    /\ Quanta \subseteq Int32(IntMod \div 2)..IntMax /\ Quanta \cap MessageSizes = {}
    /\ BufferSizes \subseteq 0..(SizeMod - 1)
    /\ Widened \subseteq Positions(TRUE)
    /\ Objects \cap Parcels = {}

VARIABLES
    limit,    \* the process's limit on open descriptors
    table,    \* the file each descriptor is open on, or Closed
    memory,   \* the size of each memory file
    object,   \* each queue object, or None
    parcel    \* each MQDescriptor, or None

vars == <<limit, table, memory, object, parcel>>

None == [kind |-> "none"]

\* mDesc: its grantors, quantum, and the descriptors in its handle, which is
\* null when the parcel it was made from was malformed.
Shim(grantors, quantum, fds) ==
    [kind |-> "shim", grantors |-> grantors, quantum |-> quantum,
     fds |-> fds, handle |-> TRUE]
Malformed == [kind |-> "shim", grantors |-> <<>>, quantum |-> 0,
              fds |-> <<>>, handle |-> FALSE]
\* An object: its descriptor (None when there was no memory for it), and, once
\* it has mapped its grantors, sizeof(T) and the pages and file of each.
Object(desc, size, maps) ==
    [kind |-> "object", desc |-> desc, size |-> size, maps |-> maps]

Init ==
    /\ limit \in Limits
    /\ table = [d \in FDs |-> Closed]
    /\ memory = [f \in Files |-> 0]
    /\ object = [o \in Objects |-> None]
    /\ parcel = [p \in Parcels |-> None]

\* CHECK fails: the kernel takes everything back.
Abort ==
    /\ limit' \in Limits
    /\ table' = [d \in FDs |-> Closed]
    /\ memory' = [f \in Files |-> 0]
    /\ object' = [o \in Objects |-> None]
    /\ parcel' = [p \in Parcels |-> None]

-----------------------------------------------------------------------------
\* Descriptors (external): the kernel hands out the lowest free one, if it is
\* below the limit.
Least(S) == CHOOSE x \in S : \A y \in S : x <= y
FreeFd(t) == LET free == {d \in FDs : d < limit /\ t[d] = Closed}
             IN  IF free = {} THEN NoFd ELSE Least(free)

FileOf(t, d) == IF d = NoFd THEN Closed ELSE t[d]

\* open or ashmem_create_region
Opened(t, d, f) == IF d = NoFd THEN t ELSE [t EXCEPT ![d] = f]

Dup(t, d) ==
    LET new == IF FileOf(t, d) = Closed THEN NoFd ELSE FreeFd(t)
    IN  [table |-> Opened(t, new, FileOf(t, d)), fd |-> new]

\* dup() of every descriptor of a handle, one after the other: it has none, that
\* of the queue's memory, or that and the one of the caller's ring buffer.
\* (Mutant of DupAll: the copy shares the descriptors of the original.)
DupAllShared(t, fds) == [table |-> t, fds |-> fds]
DupAll(t, fds) ==
    LET first == Dup(t, fds[1])
        second == Dup(first.table, fds[2])
    IN  IF Len(fds) = 0 THEN [table |-> t, fds |-> <<>>]
        ELSE IF Len(fds) = 1 THEN [table |-> first.table, fds |-> <<first.fd>>]
        ELSE [table |-> second.table, fds |-> <<first.fd, second.fd>>]

\* native_handle_close, and the destruction of unique_fd and parcel.
CloseAll(t, fds) ==
    [d \in FDs |-> IF \E i \in DOMAIN fds : fds[i] = d THEN Closed ELSE t[d]]

InUse(f) ==
    \/ \E d \in FDs : table[d] = f
    \/ \E o \in Objects : object[o] # None /\
          \E pos \in DOMAIN object[o].maps : object[o].maps[pos].file = f

\* A file goes with its last descriptor and mapping.
FilesGo == memory' = [f \in Files |-> IF InUse(f)' THEN memory[f] ELSE 0]

\* New memory files take the place of some that nobody uses any more: the
\* queue's own, of size own, and the buffer its caller supplies.  NoBuffer is
\* bufferFd == -1.
NoBuffer == -1
FreeFiles == {f \in Files : ~InUse(f)}
OwnFile == Least(FreeFiles)
BufferFile == Least(FreeFiles \ {OwnFile})

WithFiles(own, buffer) ==
    [f \in Files |-> IF f = OwnFile THEN own
                     ELSE IF buffer # NoBuffer /\ f = BufferFile THEN buffer
                     ELSE memory[f]]

-----------------------------------------------------------------------------
\* initMemory

\* (Mutant of Unusable: the payload's size is not compared.)
UnusableUnlessShort(desc, size) ==
    ~desc.handle \/ ~(0..(kMinGrantorCount - 1) \subseteq DOMAIN desc.grantors)
Unusable(desc, size) ==
    \/ ~desc.handle
    \/ ~(0..(kMinGrantorCount - 1) \subseteq DOMAIN desc.grantors)
    \/ desc.quantum # size

\* The unsynchronized reader's counter is not in shared memory.
MappedPositions(desc) ==
    DOMAIN desc.grantors \ (IF Synchronized THEN {} ELSE {READPTRPOS})

File(t, desc, pos) == FileOf(t, desc.fds[desc.grantors[pos].fdIndex + 1])

\* Every offset is aligned and every mmap succeeds, or a check aborts.
MapsAll(t, m, desc) ==
    /\ \A pos \in DOMAIN desc.grantors : desc.grantors[pos].offset % WordBytes = 0
    /\ \A pos \in MappedPositions(desc) :
         /\ File(t, desc, pos) # Closed
         /\ Mappable(desc.grantors[pos], m[File(t, desc, pos)])

Maps(t, desc) ==
    [pos \in MappedPositions(desc) |->
        [file |-> File(t, desc, pos), pages |-> Pages(desc.grantors[pos])]]

\* The object o that a constructor leaves behind: desc and size are its own, t
\* the open descriptors when initMemory runs, after the ones it returns with.
InitMemory(o, desc, size, t, after, m) ==
    \/ /\ Unusable(desc, size)
       /\ object' = [object EXCEPT ![o] = Object(desc, 0, <<>>)]
       /\ table' = after /\ memory' = m
       /\ UNCHANGED <<limit, parcel>>
    \/ /\ ~Unusable(desc, size) /\ MapsAll(t, m, desc)
       /\ object' = [object EXCEPT ![o] = Object(desc, size, Maps(t, desc))]
       /\ table' = after /\ memory' = m
       /\ UNCHANGED <<limit, parcel>>

InitMemoryAborts(desc, size, t, m) ==
    ~Unusable(desc, size) /\ ~MapsAll(t, m, desc) /\ Abort

-----------------------------------------------------------------------------
\* A queue object for which there is no memory, or whose arguments are refused,
\* has no descriptor; and the handle, the supplied buffer's unique_fd and the
\* temporary descriptor are closed again.
Empty == Object(None, 0, <<>>)

GivesUp(o) ==
    /\ object[o] = None
    /\ object' = [object EXCEPT ![o] = Empty]
    /\ UNCHANGED <<limit, table, memory, parcel>>

\* The early returns of the allocating constructor: a size_t overflow, a
\* supplied buffer that is too small.  The caller opens the buffer, of the given
\* size, and hands it over (bound: it does not keep a duplicate).
Refused(n, size, buffer) ==
    \/ n > (SizeMod - 1) \div size
    \/ buffer # NoBuffer /\ n * size > buffer

ConstructRefused(o, n, size, buffer) == Refused(n, size, buffer) /\ GivesUp(o)

\* A length that cannot be aligned fails a check.
Unalignable(bytes, buffer) ==
    buffer = NoBuffer /\ (~Alignable(bytes) \/ TooLargeToTell(bytes))

ConstructAborts(o, n, size, buffer) ==
    /\ object[o] = None
    /\ ~Refused(n, size, buffer) /\ Unalignable(n * size, buffer)
    /\ Abort

\* The descriptor's own check of the size leaves it without grantors.
NewGrantors(bytes, size, eventFlag, buffer) ==
    IF buffer # NoBuffer THEN SuppliedRegion(bytes, eventFlag)
    ELSE IF TooLarge(bytes, size) THEN <<>>
    ELSE OwnRegion(bytes, eventFlag)

\* ashmem_create_region runs when the buffer, if there is one, is open already;
\* its failure goes unnoticed until mmap fails.
NewHandle(t, buffer) ==
    LET bufferFd == FreeFd(t)
        held == IF buffer = NoBuffer THEN t ELSE Opened(t, bufferFd, BufferFile)
        ashmemFd == FreeFd(held)
    IN  [table |-> Opened(held, ashmemFd, OwnFile),
         fds |-> IF buffer = NoBuffer THEN <<ashmemFd>> ELSE <<ashmemFd, bufferFd>>]

Construct(o, n, size, eventFlag, buffer) ==
    LET handle == NewHandle(table, buffer)
        m == WithFiles(AshmemSize(n * size, eventFlag, buffer # NoBuffer), buffer)
        desc == Shim(NewGrantors(n * size, size, eventFlag, buffer),
                     Uint32(size), handle.fds)
    IN  /\ object[o] = None
        /\ ~Refused(n, size, buffer) /\ ~Unalignable(n * size, buffer)
        /\ FreeFiles # {}
        /\ buffer # NoBuffer => FreeFd(table) # NoFd /\ FreeFiles # {OwnFile}
        /\ \/ InitMemory(o, desc, size, handle.table, handle.table, m)
           \/ InitMemoryAborts(desc, size, handle.table, m)

\* dupeDesc().  An object without descriptor is described by an empty parcel;
\* the handle of a malformed one is a null pointer, which is followed.
\* (Mutant of Parceled: every grantor is said to be in the first file.)
ParceledFirst(g) == Grantor(0, Int32(g.offset), g.extent)
Parceled(g) == Grantor(Int32(g.fdIndex), Int32(g.offset), g.extent)

Parcel(grantors, quantum, fds) ==
    [kind |-> "parcel", grantors |-> grantors, quantum |-> quantum, fds |-> fds]

DupeDesc(o, p) ==
    LET desc == object[o].desc
        copy == DupAll(table, desc.fds)
    IN  /\ object[o] # None /\ parcel[p] = None
        /\ \/ /\ desc = None
              /\ parcel' = [parcel EXCEPT ![p] = Parcel(<<>>, 0, <<>>)]
              /\ UNCHANGED <<limit, table, memory, object>>
           \/ /\ desc # None /\ desc.handle
              /\ parcel' = [parcel EXCEPT ![p] =
                    Parcel([pos \in DOMAIN desc.grantors |->
                               Parceled(desc.grantors[pos])],
                           Int32(desc.quantum), copy.fds)]
              /\ table' = copy.table
              /\ UNCHANGED <<limit, memory, object>>
           \/ desc # None /\ ~desc.handle /\ Abort

\* unsafeHidlToAidlMQDescriptor: the queue o is described by a HIDL descriptor,
\* as it is or (wide) with an offset that int32_t does not hold.
Wide(g) == Grantor(g.fdIndex, IntMax + 1, g.extent)
HidlGrantors(o, wide) ==
    [pos \in DOMAIN object[o].desc.grantors |->
        IF pos = wide THEN Wide(object[o].desc.grantors[pos])
                      ELSE object[o].desc.grantors[pos]]
Fits(g) == Int32(g.offset) >= 0 /\ g.extent < SizeMod \div 2

\* The grantors pushed before the first that does not fit.
Pushed(grantors) ==
    [pos \in {k \in DOMAIN grantors : /\ Fits(grantors[k])
                                       /\ \A j \in DOMAIN grantors :
                                             j < k => Fits(grantors[j])}
        |-> Parceled(grantors[pos])]

\* The destination is a new MQDescriptor, or one that holds grantors already
\* and is refused.  (Bound: none that an earlier conversion or dupeDesc left
\* without grantors but with a handle or a quantum; only the grantors are
\* looked at.)
NewParcel == Parcel(<<>>, 0, <<>>)

ConvertRefused(o, p) ==
    /\ object[o] # None /\ object[o].desc # None
    /\ parcel[p] # None /\ DOMAIN parcel[p].grantors # {}
    /\ UNCHANGED vars

\* A grantor that does not fit leaves the ones before it, without handle.
\* (Mutant of ConvertGivesUp: the quantum is set before the grantors.)
ConvertGivesUpLate(o, p, wide) ==
    LET hidl == HidlGrantors(o, wide)
    IN  /\ object[o] # None /\ object[o].desc # None
        /\ parcel[p] \in {None, NewParcel}
        /\ \E pos \in DOMAIN hidl : ~Fits(hidl[pos])
        /\ parcel' = [parcel EXCEPT ![p] =
              Parcel(Pushed(hidl), Int32(object[o].desc.quantum), <<>>)]
        /\ UNCHANGED <<limit, table, memory, object>>
ConvertGivesUp(o, p, wide) ==
    LET hidl == HidlGrantors(o, wide)
    IN  /\ object[o] # None /\ object[o].desc # None
        /\ parcel[p] \in {None, NewParcel}
        /\ \E pos \in DOMAIN hidl : ~Fits(hidl[pos])
        /\ parcel' = [parcel EXCEPT ![p] = Parcel(Pushed(hidl), 0, <<>>)]
        /\ UNCHANGED <<limit, table, memory, object>>

\* Then the handle; the quantum is set unless it does not fit or the flags are
\* those of the other flavor.
Convert(o, p, flagsFit) ==
    LET desc == object[o].desc
        copy == DupAll(table, desc.fds)
    IN  /\ object[o] # None /\ desc # None /\ desc.handle
        /\ parcel[p] \in {None, NewParcel}
        /\ \A pos \in DOMAIN desc.grantors : Fits(desc.grantors[pos])
        /\ table' = copy.table
        /\ parcel' = [parcel EXCEPT ![p] =
              Parcel(Pushed(desc.grantors),
                     IF flagsFit /\ Int32(desc.quantum) >= 0 THEN Int32(desc.quantum)
                                                             ELSE 0,
                     copy.fds)]
        /\ UNCHANGED <<limit, memory, object>>

\* A parcel is plain data and may come with a quantum that no queue has.
EditQuantum(p, quantum) ==
    /\ parcel[p] # None
    /\ parcel' = [parcel EXCEPT ![p] = Parcel(@.grantors, quantum, @.fds)]
    /\ UNCHANGED <<limit, table, memory, object>>

DropParcel(p) ==
    /\ parcel[p] # None
    /\ table' = CloseAll(table, parcel[p].fds)
    /\ parcel' = [parcel EXCEPT ![p] = None]
    /\ UNCHANGED <<limit, object>> /\ FilesGo

\* AIDL has signed integers only.  (Mutant of Negative: the quantum is not
\* looked at.)
NegativeGrantor(p) ==
    \E pos \in DOMAIN parcel[p].grantors : parcel[p].grantors[pos].offset < 0
Negative(p) ==
    \/ parcel[p].quantum < 0
    \/ NegativeGrantor(p)

\* AidlMessageQueue(desc): a temporary descriptor with duplicates, a copy of it
\* with duplicates again, and the temporary is destroyed.
Attach(o, p, size) ==
    /\ object[o] = None /\ parcel[p] # None
    /\ \/ /\ Negative(p)
          /\ object' = [object EXCEPT ![o] = Object(Malformed, 0, <<>>)]
          /\ UNCHANGED <<limit, table, memory, parcel>>
       \/ /\ ~Negative(p)
          /\ LET temporary == DupAll(table, parcel[p].fds)
                 copy == DupAll(temporary.table, temporary.fds)
                 desc == Shim(parcel[p].grantors, parcel[p].quantum, copy.fds)
             IN  \/ /\ InitMemory(o, desc, size, copy.table,
                                  CloseAll(copy.table, temporary.fds), memory)
                 \/ InitMemoryAborts(desc, size, copy.table, memory)

\* The destructor unmaps, then mDesc closes its handle.
Destroy(o) ==
    /\ object[o] # None
    /\ table' = IF object[o].desc = None THEN table
                ELSE CloseAll(table, object[o].desc.fds)
    /\ object' = [object EXCEPT ![o] = None]
    /\ UNCHANGED <<limit, parcel>> /\ FilesGo

-----------------------------------------------------------------------------
Next ==
    \/ \E o \in Objects, size \in MessageSizes :
         \/ \E n \in Elements, buffer \in BufferSizes \cup {NoBuffer} :
              \/ ConstructRefused(o, n, size, buffer)
              \/ ConstructAborts(o, n, size, buffer)
              \/ \E eventFlag \in BOOLEAN : Construct(o, n, size, eventFlag, buffer)
         \/ \E p \in Parcels : Attach(o, p, size)
    \/ \E o \in Objects :
         \/ GivesUp(o) \/ Destroy(o)
         \/ \E p \in Parcels :
              \/ DupeDesc(o, p) \/ ConvertRefused(o, p)
              \/ \E flagsFit \in BOOLEAN : Convert(o, p, flagsFit)
              \/ \E wide \in Widened : ConvertGivesUp(o, p, wide)
    \/ \E p \in Parcels : DropParcel(p) \/ \E q \in Quanta : EditQuantum(p, q)

Spec == Init /\ [][Next]_vars

-----------------------------------------------------------------------------
\* Properties.

\* isValid()
IsValid(o) ==
    object[o] # None /\ DATAPTRPOS \in DOMAIN object[o].maps
ValidObjects == {o \in Objects : IsValid(o)}
GrantorOf(o, pos) == object[o].desc.grantors[pos]

\* Type invariant; a descriptor is never open on a file that is not there.
TypeOK ==
    /\ limit \in Limits
    /\ table \in [FDs -> Files \cup {Closed}]
    /\ memory \in [Files -> 0..(SizeMod - 1)]
    /\ DOMAIN object = Objects /\ DOMAIN parcel = Parcels
    /\ \A o \in Objects : object[o] = None \/
         /\ object[o].kind = "object" /\ object[o].size \in MessageSizes \cup {0}
         /\ object[o].desc = None \/ object[o].desc.quantum \in 0..(IntMod - 1)
         /\ \A pos \in DOMAIN object[o].maps : object[o].maps[pos].file \in Files
    /\ \A p \in Parcels : parcel[p] = None \/ parcel[p].kind = "parcel"

\* The owners of descriptors: the queue objects and the parcels.
HandleOf(o) == IF object[o] = None \/ object[o].desc = None THEN <<>>
               ELSE object[o].desc.fds
ParcelFds(p) == IF parcel[p] = None THEN <<>> ELSE parcel[p].fds
Held(fds) == {fds[i] : i \in DOMAIN fds} \ {NoFd}

Holdings == [x \in Objects \cup Parcels |->
                Held(IF x \in Objects THEN HandleOf(x) ELSE ParcelFds(x))]

\* Whatever fails half-way, every open descriptor has exactly one owner, who
\* will close it, and no owner holds one that is closed: none leaks, none is
\* closed twice.
EveryFdHasOneOwner ==
    /\ \A x, y \in DOMAIN Holdings : x # y => Holdings[x] \cap Holdings[y] = {}
    /\ {d \in FDs : table[d] # Closed} = UNION {Holdings[x] : x \in DOMAIN Holdings}
    /\ \A o \in Objects : \A i, j \in DOMAIN HandleOf(o) :
         i # j /\ HandleOf(o)[i] # NoFd => HandleOf(o)[i] # HandleOf(o)[j]

\* A valid queue never touches memory that it has not mapped: every grantor
\* lies inside the file, and inside its pages if it ends below 2^32.  (The
\* length of a mapping is an int.  AidlMQDescriptorShim.h:230 refuses a queue
\* in memory of its own that it would not hold, but nothing looks at the size of
\* a ring buffer that the caller supplies: the mapping of one of 4 GiB is short.)
GrantorsAreBacked ==
    \A o \in ValidObjects : \A pos \in DOMAIN object[o].maps :
        LET g == GrantorOf(o, pos)
        IN  /\ g.offset + g.extent <= memory[object[o].maps[pos].file]
            /\ g.offset + g.extent < IntMod => Covers(object[o].maps[pos].pages, g)

\* The same without the exception, which is all that the constructor's comment
\* asks of the size (MessageQueueBase.h:86, "larger than or equal to
\* (numElementsInQueue * sizeof(T))").
GrantorsAlwaysBacked ==
    \A o \in ValidObjects : \A pos \in DOMAIN object[o].maps :
        Covers(object[o].maps[pos].pages, GrantorOf(o, pos))

\* A parcel that an attach accepts has in its handle every descriptor that its
\* grantors name (mapGrantorDescr indexes the handle unchecked), although a
\* conversion may give up half-way and its caller use the parcel all the same.
AttachableIsComplete ==
    \A p \in Parcels :
        parcel[p] # None /\ ~Negative(p) /\ parcel[p].quantum \in MessageSizes =>
            \A pos \in DOMAIN parcel[p].grantors :
                parcel[p].grantors[pos].fdIndex + 1 \in DOMAIN parcel[p].fds

\* The counters, the ring and the EventFlag word of a queue share no byte.
PartsAreApart ==
    \A o \in ValidObjects : \A pos, other \in DOMAIN object[o].desc.grantors :
        pos # other => Apart(GrantorOf(o, pos), GrantorOf(o, other))

\* Two valid objects are the same queue, with every part at the same place of
\* the same file, or share no memory at all.
Place(o, pos) == <<object[o].maps[pos].file, GrantorOf(o, pos)>>

PeersAgree ==
    \A o, other \in ValidObjects :
        LET mine == DOMAIN object[o].maps
            its == DOMAIN object[other].maps
        IN  \/ mine = its /\ \A pos \in mine : Place(o, pos) = Place(other, pos)
            \/ \A pos \in mine, pos2 \in its :
                  object[o].maps[pos].file # object[other].maps[pos2].file

\* A valid object holds a whole number of messages of its own type: what the
\* ring arithmetic assumes of the size (FmqRing, RingAssumption).
SizeFitsMessages ==
    \A o \in ValidObjects :
        /\ object[o].desc.quantum = object[o].size
        /\ GrantorOf(o, DATAPTRPOS).extent % object[o].size = 0
=============================================================================
