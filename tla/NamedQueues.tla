----------------------------- MODULE NamedQueues -----------------------------
(***************************************************************************)
(* The Windows port (system_porting.cpp and the _MSC_VER parts of the      *)
(* headers): queue memory is a named section, a description is a string    *)
(* that carries the name, and whoever attaches opens the section the name  *)
(* stands for by then.  Processes construct, describe, attach, destroy and *)
(* exit at any moment, names are given again, descriptions outlive what    *)
(* they describe.  Sections and handles are the kernel's (external): a     *)
(* name stands for a section as long as some process has a handle or a     *)
(* view of it.                                                             *)
(***************************************************************************)
EXTENDS QueueLayout

CONSTANTS Procs, Objects, Descriptions,
          Names,          \* of sections; generate_random_name gives the queues
                          \* that have none the same one, every time
          Elements,       \* the numElementsInQueue arguments
          MessageSizes,   \* sizeof(T)
          MaxGeneration   \* bound: how many sections have one name, in turn

ASSUME NamedAssumption ==
    /\ Elements \subseteq 0..(SizeMod - 1)
    /\ MessageSizes \subseteq 1..IntMax
    /\ MaxGeneration \in Nat

VARIABLES
    section,      \* what each name stands for: its size and generation, or None
    leaked,       \* the sections each process has handles on until it exits
    object,       \* each queue object, or None
    description,  \* each description, or None
    generation,   \* history: how many sections each name has stood for
    reused        \* history: names given to a second queue while a section, an
                  \* object or a description of the first was left

vars == <<section, leaked, object, description, generation, reused>>

None == [kind |-> "none"]
NoProc == "no process"

Section(size, gen) == [kind |-> "section", size |-> size, gen |-> gen]

\* proc owns the object.  desc is its mDesc, None when the constructor returned
\* before there was one; gen the section its handle is open on (0: none); maps
\* the pages of each grantor when it is valid.
Object(proc, desc, gen, maps) ==
    [kind |-> "object", proc |-> proc, desc |-> desc, gen |-> gen, maps |-> maps]
Shim(name, grantors, quantum) ==
    [kind |-> "shim", name |-> name, grantors |-> grantors, quantum |-> quantum]

\* history: by and gen, the process that made it and the section it is of (0: the
\* object it is of was not valid).
Text(desc, by, gen) == [kind |-> "text", desc |-> desc, by |-> by, gen |-> gen]

Init ==
    /\ section = [n \in Names |-> None]
    /\ leaked = [p \in Procs |-> {}]
    /\ object = [o \in Objects |-> None]
    /\ description = [d \in Descriptions |-> None]
    /\ generation = [n \in Names |-> 0]
    /\ reused = {}

-----------------------------------------------------------------------------
\* The kernel.
HasOpen(o, n) == object[o] # None /\ object[o].gen # 0 /\ object[o].desc.name = n
Valid(o) == object[o] # None /\ DATAPTRPOS \in DOMAIN object[o].maps
Held(n) == \/ \E p \in Procs : n \in leaked[p]
           \/ \E o \in Objects : HasOpen(o, n)

\* A section goes with its last handle.
Remain(s) == section' = [n \in Names |-> IF Held(n)' THEN s[n] ELSE None]

\* The process exits, or a check or a null pointer ends it.
Exit(p) ==
    /\ leaked' = [leaked EXCEPT ![p] = {}]
    /\ object' = [o \in Objects |->
                    IF object[o] # None /\ object[o].proc = p THEN None ELSE object[o]]
    /\ description' = [d \in Descriptions |->
                    IF description[d] # None /\ description[d].by = p
                    THEN Text(description[d].desc, NoProc, description[d].gen)
                    ELSE description[d]]
    /\ Remain(section)
    /\ UNCHANGED <<generation, reused>>

-----------------------------------------------------------------------------
\* initMemory of a process whose handle is open on a section of that size
\* (0: it is null), for the synchronized flavor.
Unusable(desc, size) ==
    ~(0..(kMinGrantorCount - 1) \subseteq DOMAIN desc.grantors) \/ desc.quantum # size

\* MapViewOfFileEx refuses a view that ends outside the section.
MapsAll(desc, bytes) == \A pos \in DOMAIN desc.grantors : Mappable(desc.grantors[pos], bytes)
Maps(desc) == [pos \in DOMAIN desc.grantors |-> Pages(desc.grantors[pos])]

\* system_porting_mmap duplicates the handle for every view and nothing closes
\* the duplicates: munmap only unmaps the view.
InitMemory(o, p, desc, size, bytes, gen) ==
    \/ /\ Unusable(desc, size)
       /\ object' = [object EXCEPT ![o] = Object(p, desc, gen, <<>>)]
       /\ UNCHANGED leaked
    \/ /\ ~Unusable(desc, size) /\ MapsAll(desc, bytes)
       /\ object' = [object EXCEPT ![o] = Object(p, desc, gen, Maps(desc))]
       /\ leaked' = [leaked EXCEPT ![p] = @ \cup {desc.name}]

InitMemoryAborts(desc, size, bytes) == ~Unusable(desc, size) /\ ~MapsAll(desc, bytes)

-----------------------------------------------------------------------------
\* The allocating constructor.
Refused(n, size) == n > (SizeMod - 1) \div size
Unalignable(bytes) == ~Alignable(bytes) \/ TooLargeToTell(bytes)

ConstructRefused(o, p, n, size) ==
    /\ object[o] = None /\ Refused(n, size)
    /\ object' = [object EXCEPT ![o] = Object(p, None, 0, <<>>)]
    /\ UNCHANGED <<section, leaked, description, generation, reused>>

NewShim(name, bytes, size, eventFlag) ==
    Shim(name, IF TooLarge(bytes, size) THEN <<>> ELSE OwnRegion(bytes, eventFlag), size)

\* ashmem_create_region: a new section, or the one the name stands for.
Region(name, bytes, eventFlag) ==
    IF section[name] # None THEN section[name]
    ELSE Section(AshmemSize(bytes, eventFlag, FALSE), generation[name] + 1)

Carries(x, name) == x # None /\ x.desc # None /\ x.desc.name = name
Remembered(name) == \/ \E d \in Descriptions : Carries(description[d], name)
                    \/ \E o \in Objects : Carries(object[o], name)

Construct(o, p, name, n, size, eventFlag) ==
    LET bytes == n * size
        region == Region(name, bytes, eventFlag)
        desc == NewShim(name, bytes, size, eventFlag)
    IN  /\ object[o] = None /\ ~Refused(n, size) /\ ~Unalignable(bytes)
        /\ region.gen <= MaxGeneration
        /\ InitMemory(o, p, desc, size, region.size, region.gen)
        /\ Remain([section EXCEPT ![name] = region])
        /\ generation' = [generation EXCEPT ![name] = region.gen]
        /\ reused' = IF section[name] # None \/ Remembered(name)
                     THEN reused \cup {name} ELSE reused
        /\ UNCHANGED description

\* A section that is there already may be too small.
ConstructAborts(o, p, name, n, size, eventFlag) ==
    LET bytes == n * size
    IN  /\ object[o] = None /\ ~Refused(n, size)
        /\ \/ Unalignable(bytes)
           \/ /\ ~Unalignable(bytes) /\ section[name] # None
              /\ InitMemoryAborts(NewShim(name, bytes, size, eventFlag), size,
                                  section[name].size)
        /\ Exit(p)

-----------------------------------------------------------------------------
\* dupeDesc and generate_string.  An object without mDesc gives an empty string.
\* (Mutant of Written: the last grantor is left out.)
WrittenShort(desc) ==
    [desc EXCEPT !.grantors = [pos \in {k \in DOMAIN desc.grantors : k < EVFLAGWORDPOS}
                                 |-> desc.grantors[pos]]]
Written(desc) == desc

Describe(o, d) ==
    /\ object[o] # None /\ description[d] = None
    /\ LET desc == object[o].desc
       IN  description' = [description EXCEPT ![d] =
              IF desc = None THEN Text(None, object[o].proc, 0)
              ELSE Text(Written(desc), object[o].proc, IF Valid(o) THEN object[o].gen ELSE 0)]
    /\ UNCHANGED <<section, leaked, object, generation, reused>>

DropDescription(d) ==
    /\ description[d] # None
    /\ description' = [description EXCEPT ![d] = None]
    /\ UNCHANGED <<section, leaked, object, generation, reused>>

\* from_string, then OpenFileMapping of the name; without a section the handle
\* is null, and mmap of it fails.
OpenSize(name) == IF section[name] = None THEN 0 ELSE section[name].size
\* (Mutant of OpenGen: a handle is taken to be open although nothing has the name.)
OpenGenAlways(name) == generation[name]
OpenGen(name) == IF section[name] = None THEN 0 ELSE section[name].gen

Attach(o, p, d, size) ==
    /\ object[o] = None
    /\ description[d] # None /\ description[d].desc # None
    /\ LET desc == description[d].desc
       IN  InitMemory(o, p, desc, size, OpenSize(desc.name), OpenGen(desc.name))
    /\ Remain(section)
    /\ UNCHANGED <<description, generation, reused>>

\* The name stands for nothing any more, or for a smaller section; or the string
\* does not parse, and the handle that fromString did not make is written to.
AttachAborts(o, p, d, size) ==
    /\ object[o] = None /\ description[d] # None
    /\ LET desc == description[d].desc
       IN  \/ desc = None
           \/ desc # None /\ InitMemoryAborts(desc, size, OpenSize(desc.name))
    /\ Exit(p)

\* The destructor unmaps the views and closes the object's own handle.
\* (Mutant of Destroy: the duplicates are closed with the views.)
DestroyCloses(o) ==
    /\ object[o] # None
    /\ object' = [object EXCEPT ![o] = None]
    /\ leaked' = IF object[o].desc = None THEN leaked
                 ELSE [leaked EXCEPT ![object[o].proc] = @ \ {object[o].desc.name}]
    /\ Remain(section)
    /\ UNCHANGED <<description, generation, reused>>
Destroy(o) ==
    /\ object[o] # None
    /\ object' = [object EXCEPT ![o] = None]
    /\ UNCHANGED <<leaked, description, generation, reused>>
    /\ Remain(section)

-----------------------------------------------------------------------------
Next ==
    \/ \E o \in Objects, p \in Procs, size \in MessageSizes :
         \/ \E n \in Elements :
              \/ ConstructRefused(o, p, n, size)
              \/ \E name \in Names, eventFlag \in BOOLEAN :
                   \/ Construct(o, p, name, n, size, eventFlag)
                   \/ ConstructAborts(o, p, name, n, size, eventFlag)
         \/ \E d \in Descriptions : Attach(o, p, d, size) \/ AttachAborts(o, p, d, size)
    \/ \E o \in Objects : Destroy(o) \/ \E d \in Descriptions : Describe(o, d)
    \/ \E d \in Descriptions : DropDescription(d)
    \/ \E p \in Procs : Exit(p)

Spec == Init /\ [][Next]_vars

-----------------------------------------------------------------------------
\* Properties.
ValidObjects == {o \in Objects : Valid(o)}
NameOf(o) == object[o].desc.name
GrantorOf(o, pos) == object[o].desc.grantors[pos]

\* Type invariant; a section is there for every handle, and no other is.
TypeOK ==
    /\ \A n \in Names :
         /\ section[n] # None <=> Held(n)
         /\ section[n] # None => section[n].gen = generation[n]
         /\ generation[n] \in 0..MaxGeneration
    /\ leaked \in [Procs -> SUBSET Names]
    /\ DOMAIN object = Objects /\ DOMAIN description = Descriptions
    /\ \A o \in Objects : object[o] # None =>
         /\ object[o].proc \in Procs
         /\ object[o].gen # 0 => object[o].gen = section[NameOf(o)].gen
    /\ reused \subseteq Names

\* Whatever section a name stands for when a stale description or a second
\* constructor opens it, a valid queue touches only bytes it has mapped and
\* that the section has.
ViewsInSection ==
    \A o \in ValidObjects :
        /\ section[NameOf(o)] # None
        /\ \A pos \in DOMAIN object[o].maps :
             /\ Covers(object[o].maps[pos], GrantorOf(o, pos))
             /\ GrantorOf(o, pos).offset + GrantorOf(o, pos).extent
                   <= section[NameOf(o)].size

\* A description of a valid queue stays good as long as the process that made it
\* runs, even when the queue is destroyed: its name stands for the same section.
\* (The handles that mmap duplicates keep it; nothing else does.)
DescriptionsStayGood ==
    \A d \in Descriptions :
        description[d] # None /\ description[d].by # NoProc /\ description[d].gen # 0 =>
            LET name == description[d].desc.name
            IN  section[name] # None /\ section[name].gen = description[d].gen

\* Two valid queues of a name that was not given twice are the same queue, part
\* for part, in whatever processes and however late they were attached.
PeersAgree ==
    \A o, other \in ValidObjects :
        NameOf(o) = NameOf(other) /\ NameOf(o) \notin reused =>
            /\ object[o].gen = object[other].gen
            /\ object[o].desc = object[other].desc
=============================================================================
