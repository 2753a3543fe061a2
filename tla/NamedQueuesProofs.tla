--------------------------- MODULE NamedQueuesProofs ---------------------------
(***************************************************************************)
(* Theorems about NamedQueues for every number of processes, objects,      *)
(* descriptions and names, and every size and width that LayoutAssumption  *)
(* allows: a name given again, a stale description and a process that is   *)
(* gone never let a valid queue touch memory that is not there, nor mix up *)
(* two queues.                                                             *)
(***************************************************************************)
EXTENDS NamedQueues, QueueLayoutProofs

\* A descriptor that the constructor made, or that was read from such a string.
Plain(desc) ==
    /\ desc # None /\ desc.name \in Names
    /\ \A pos \in DOMAIN desc.grantors : Short(desc.grantors[pos])

\* A section is whole pages, counted by its name's generation, and there as
\* long as it is held.
GoodSection(s, gen) ==
    /\ s.gen = gen /\ gen # 0
    /\ s.size \in Nat /\ RoundUp(s.size, PageSize) = s.size

SectionsInv ==
    /\ section = [n \in Names |-> section[n]]
    /\ generation = [n \in Names |-> generation[n]]
    /\ \A n \in Names :
         /\ section[n] # None <=> Held(n)
         /\ section[n] # None => GoodSection(section[n], generation[n])
         /\ generation[n] \in 0..MaxGeneration

\* A mapped queue mapped what the section of its name has, and its process
\* keeps a handle on that section.
Mapped(x) ==
    /\ x.maps = Maps(x.desc)
    /\ MapsAll(x.desc, section[x.desc.name].size)
    /\ x.gen # 0 /\ x.desc.name \in leaked[x.proc]

GoodObject(x) ==
    /\ x.proc \in Procs
    /\ x.desc = None => x.gen = 0 /\ x.maps = <<>>
    /\ x.desc # None => Plain(x.desc)
    /\ x.gen # 0 => x.gen = section[x.desc.name].gen
    /\ x.maps = <<>> \/ Mapped(x)

ObjectsInv ==
    /\ object = [o \in Objects |-> object[o]]
    /\ \A o \in Objects : object[o] # None => GoodObject(object[o])

\* The process that described a valid queue keeps a handle on its section.
GoodDescription(x) ==
    /\ x.desc = None => x.gen = 0
    /\ x.desc # None => Plain(x.desc)
    /\ x.by # NoProc /\ x.gen # 0 =>
         /\ x.by \in Procs /\ x.desc.name \in leaked[x.by]
         /\ x.gen = section[x.desc.name].gen

DescriptionsInv ==
    /\ description = [d \in Descriptions |-> description[d]]
    /\ \A d \in Descriptions : description[d] # None => GoodDescription(description[d])

\* Whoever carries a name that was not given twice carries one descriptor.
AllCarry(n, desc) ==
    /\ \A o \in Objects : Carries(object[o], n) => object[o].desc = desc
    /\ \A d \in Descriptions : Carries(description[d], n) => description[d].desc = desc

CarriersInv == \A n \in Names \ reused : \E desc : AllCarry(n, desc)

NamedInv == /\ SectionsInv
            /\ leaked \in [Procs -> SUBSET Names]
            /\ ObjectsInv
            /\ DescriptionsInv
            /\ reused \subseteq Names
            /\ CarriersInv
-----------------------------------------------------------------------------
\* Fields.
LEMMA ObjectFields ==
    ASSUME NEW p, NEW desc, NEW gen, NEW maps
    PROVE  LET x == Object(p, desc, gen, maps)
           IN  x # None /\ x.proc = p /\ x.desc = desc /\ x.gen = gen /\ x.maps = maps
<1>1. Object(p, desc, gen, maps).kind = "object" /\ None.kind = "none"
  BY DEF Object, None
<1> QED
  BY <1>1 DEF Object

LEMMA TextFields ==
    ASSUME NEW desc, NEW by, NEW gen
    PROVE  LET x == Text(desc, by, gen)
           IN  x # None /\ x.desc = desc /\ x.by = by /\ x.gen = gen
<1>1. Text(desc, by, gen).kind = "text" /\ None.kind = "none"
  BY DEF Text, None
<1> QED
  BY <1>1 DEF Text

LEMMA ShimFields ==
    ASSUME NEW name, NEW grantors, NEW quantum
    PROVE  LET x == Shim(name, grantors, quantum)
           IN  x # None /\ x.name = name /\ x.grantors = grantors /\ x.quantum = quantum
<1>1. Shim(name, grantors, quantum).kind = "shim" /\ None.kind = "none"
  BY DEF Shim, None
<1> QED
  BY <1>1 DEF Shim

LEMMA SectionFields ==
    ASSUME NEW size, NEW gen
    PROVE  LET x == Section(size, gen) IN x # None /\ x.size = size /\ x.gen = gen
<1>1. Section(size, gen).kind = "section" /\ None.kind = "none"
  BY DEF Section, None
<1> QED
  BY <1>1 DEF Section

\* Without memory nothing is mapped: a usable descriptor has grantors.
LEMMA UsableNeedsMemory ==
    ASSUME NEW desc, Plain(desc), NEW size, ~Unusable(desc, size), NEW bytes,
           MapsAll(desc, bytes)
    PROVE  bytes # 0
<1>1. READPTRPOS \in DOMAIN desc.grantors
  BY DEF Unusable, kMinGrantorCount, DATAPTRPOS, READPTRPOS
<1>2. Short(desc.grantors[READPTRPOS]) /\ Mappable(desc.grantors[READPTRPOS], bytes)
  BY <1>1 DEF Plain, MapsAll
<1> QED
  BY <1>2, NothingMapped

LEMMA HoldersKnow ==
    ASSUME NamedInv
    PROVE  /\ \A n \in Names : \A p \in Procs : n \in leaked[p] => section[n] # None
           /\ \A o \in Objects : object[o] # None /\ object[o].gen # 0 =>
                /\ object[o].desc # None /\ NameOf(o) \in Names
                /\ section[NameOf(o)] # None
  BY DEF NamedInv, SectionsInv, Held, HasOpen, ObjectsInv, GoodObject, Plain, NameOf
-----------------------------------------------------------------------------
\* Sections that go with their last handle.
LEMMA SectionsGo ==
    ASSUME NamedInv, Remain(section), UNCHANGED generation,
           \A n \in Names : Held(n)' => Held(n)
    PROVE  /\ SectionsInv'
           /\ \A n \in Names :
                /\ \A q \in Procs : n \in leaked'[q] => section'[n] = section[n]
                /\ \A o \in Objects :
                     object'[o] # None /\ object'[o].gen # 0 /\ object'[o].desc.name = n
                         => section'[n] = section[n]
<1>1. \A n \in Names : section'[n] = IF Held(n)' THEN section[n] ELSE None
  BY DEF Remain
<1>2. section' = [n \in Names |-> section'[n]]
  BY DEF Remain
<1>3. SectionsInv'
  BY <1>1, <1>2 DEF NamedInv, SectionsInv
<1> QED
  BY <1>1, <1>3 DEF Held, HasOpen

LEMMA ExitKeeps ==
    ASSUME NamedInv, NEW p \in Procs, Exit(p)
    PROVE  NamedInv'
<1>1. /\ leaked' = [leaked EXCEPT ![p] = {}]
      /\ object' = [o \in Objects |->
                      IF object[o] # None /\ object[o].proc = p THEN None ELSE object[o]]
      /\ description' = [d \in Descriptions |->
                      IF description[d] # None /\ description[d].by = p
                      THEN Text(description[d].desc, NoProc, description[d].gen)
                      ELSE description[d]]
      /\ Remain(section) /\ generation' = generation /\ reused' = reused
  BY DEF Exit
<1>2. leaked' \in [Procs -> SUBSET Names] /\ \A q \in Procs : leaked'[q] \subseteq leaked[q]
  BY <1>1 DEF NamedInv
<1>3. \A o \in Objects : object'[o] # None => object'[o] = object[o] /\ object[o].proc # p
  BY <1>1
<1>4. \A n \in Names : Held(n)' => Held(n)
  BY <1>2, <1>3 DEF Held, HasOpen
<1>5. /\ SectionsInv'
      /\ \A n \in Names :
           /\ \A q \in Procs : n \in leaked'[q] => section'[n] = section[n]
           /\ \A o \in Objects :
                object'[o] # None /\ object'[o].gen # 0 /\ object'[o].desc.name = n
                    => section'[n] = section[n]
  BY <1>1, <1>4, SectionsGo
<1>6. \A q \in Procs \ {p} : leaked'[q] = leaked[q]
  BY <1>1 DEF NamedInv
<1>7. ASSUME NEW o \in Objects, object'[o] # None PROVE GoodObject(object[o])'
  <2>1. object'[o] = object[o] /\ object[o].proc # p /\ GoodObject(object[o])
    BY <1>3, <1>7 DEF NamedInv, ObjectsInv
  <2>2. object[o].gen # 0 => section'[object[o].desc.name] = section[object[o].desc.name]
    <3>1. object[o].gen # 0 => object[o].desc.name \in Names
      BY <1>7, <2>1, HoldersKnow DEF NameOf
    <3> QED
      BY <1>5, <1>7, <2>1, <3>1
  <2>3. object[o].proc \in Procs
    BY <2>1 DEF GoodObject
  <2> QED
    BY <1>6, <2>1, <2>2, <2>3 DEF GoodObject, Mapped, Plain
<1>8. ASSUME NEW d \in Descriptions, description'[d] # None PROVE GoodDescription(description[d])'
  <2>1. description[d] # None
    BY <1>1, <1>8
  <2>2. GoodDescription(description[d])
    BY <2>1 DEF NamedInv, DescriptionsInv
  <2>3. CASE description[d].by = p
    <3>1. description'[d] = Text(description[d].desc, NoProc, description[d].gen)
      BY <1>1, <2>1, <2>3
    <3>2. /\ description'[d].desc = description[d].desc /\ description'[d].by = NoProc
          /\ description'[d].gen = description[d].gen
      BY <3>1, TextFields
    <3> QED
      BY <2>2, <3>2 DEF GoodDescription, Plain
  <2>4. CASE description[d].by # p
    <3>1. description'[d] = description[d]
      BY <1>1, <2>4
    <3>2. ASSUME description[d].by # NoProc, description[d].gen # 0
          PROVE  /\ description[d].by \in Procs
                 /\ description[d].desc.name \in leaked'[description[d].by]
                 /\ description[d].gen = section'[description[d].desc.name].gen
      <4>1. /\ description[d].by \in Procs \ {p}
            /\ description[d].desc.name \in leaked'[description[d].by]
            /\ description[d].gen = section[description[d].desc.name].gen
            /\ description[d].desc.name \in Names
        BY <1>6, <2>2, <2>4, <3>2 DEF GoodDescription, Plain
      <4> QED
        BY <1>5, <4>1
    <3> QED
      BY <2>2, <3>1, <3>2 DEF GoodDescription, Plain
  <2> QED
    BY <2>3, <2>4
<1>9. ASSUME NEW n \in Names, NEW desc, AllCarry(n, desc) PROVE AllCarry(n, desc)'
  <2>1. \A d \in Descriptions : Carries(description[d], n)' =>
            Carries(description[d], n) /\ description'[d].desc = description[d].desc
    <3>1. ASSUME NEW d \in Descriptions
          PROVE  Carries(description[d], n)' =>
                     Carries(description[d], n) /\ description'[d].desc = description[d].desc
      <4>1. CASE description[d] # None /\ description[d].by = p
        <5>1. description'[d] = Text(description[d].desc, NoProc, description[d].gen)
          BY <1>1, <4>1
        <5>2. description'[d].desc = description[d].desc
          BY <5>1, TextFields
        <5> QED
          BY <4>1, <5>2 DEF Carries
      <4>2. CASE ~(description[d] # None /\ description[d].by = p)
        BY <1>1, <4>2 DEF Carries
      <4> QED
        BY <4>1, <4>2
    <3> QED
      BY <3>1
  <2>2. \A o \in Objects : Carries(object[o], n)' =>
            Carries(object[o], n) /\ object'[o].desc = object[o].desc
    BY <1>3 DEF Carries
  <2> QED
    BY <1>9, <2>1, <2>2 DEF AllCarry
<1>10. CarriersInv'
  BY <1>1, <1>9 DEF NamedInv, CarriersInv
<1>11. ObjectsInv' /\ DescriptionsInv'
  BY <1>1, <1>7, <1>8 DEF ObjectsInv, DescriptionsInv
<1> QED
  BY <1>1, <1>2, <1>5, <1>10, <1>11 DEF NamedInv

LEMMA DestroyKeeps ==
    ASSUME NamedInv, NEW o \in Objects, Destroy(o)
    PROVE  NamedInv'
<1>1. /\ object[o] # None /\ object' = [object EXCEPT ![o] = None]
      /\ UNCHANGED <<leaked, description, generation, reused>> /\ Remain(section)
  BY DEF Destroy
<1>2. object'[o] = None /\ \A x \in Objects \ {o} : object'[x] = object[x]
  BY <1>1 DEF NamedInv, ObjectsInv
<1>3. \A n \in Names : Held(n)' => Held(n)
  BY <1>1, <1>2 DEF Held, HasOpen
<1>4. /\ SectionsInv'
      /\ \A n \in Names :
           /\ \A q \in Procs : n \in leaked'[q] => section'[n] = section[n]
           /\ \A x \in Objects :
                object'[x] # None /\ object'[x].gen # 0 /\ object'[x].desc.name = n
                    => section'[n] = section[n]
  BY <1>1, <1>3, SectionsGo
<1>5. ASSUME NEW x \in Objects, object'[x] # None PROVE GoodObject(object[x])'
  <2>1. object'[x] = object[x] /\ GoodObject(object[x])
    BY <1>2, <1>5 DEF NamedInv, ObjectsInv
  <2>2. object[x].gen # 0 => section'[object[x].desc.name] = section[object[x].desc.name]
    <3>1. object[x].gen # 0 => object[x].desc.name \in Names
      BY <1>5, <2>1, HoldersKnow DEF NameOf
    <3> QED
      BY <1>4, <1>5, <2>1, <3>1
  <2> QED
    BY <1>1, <2>1, <2>2 DEF GoodObject, Mapped, Plain
<1>6. ASSUME NEW d \in Descriptions, description'[d] # None
      PROVE  GoodDescription(description[d])'
  <2>1. GoodDescription(description[d])
    BY <1>1, <1>6 DEF NamedInv, DescriptionsInv
  <2>2. description[d].by # NoProc /\ description[d].gen # 0 =>
            section'[description[d].desc.name] = section[description[d].desc.name]
    BY <1>1, <1>4, <2>1 DEF GoodDescription, Plain
  <2> QED
    BY <1>1, <2>1, <2>2 DEF GoodDescription, Plain
<1>7. CarriersInv'
  <2>1. ASSUME NEW n \in Names, NEW desc, AllCarry(n, desc) PROVE AllCarry(n, desc)'
    BY <1>1, <1>2, <2>1 DEF AllCarry, Carries
  <2> QED
    BY <1>1, <2>1 DEF NamedInv, CarriersInv
<1>8. ObjectsInv' /\ DescriptionsInv'
  BY <1>1, <1>5, <1>6 DEF NamedInv, ObjectsInv, DescriptionsInv
<1> QED
  BY <1>1, <1>4, <1>7, <1>8 DEF NamedInv

\* A step that leaves the sections, the handles and the objects alone.
LEMMA DescriptionsChange ==
    ASSUME NamedInv, UNCHANGED <<section, leaked, object, generation, reused>>,
           DescriptionsInv', CarriersInv'
    PROVE  NamedInv'
<1>1. SectionsInv'
  BY DEF NamedInv, SectionsInv, Held, HasOpen
<1>2. ObjectsInv'
  BY DEF NamedInv, ObjectsInv, GoodObject, Mapped, Plain
<1> QED
  BY <1>1, <1>2 DEF NamedInv

LEMMA DropDescriptionKeeps ==
    ASSUME NamedInv, NEW d \in Descriptions, DropDescription(d)
    PROVE  NamedInv'
<1>1. description' = [description EXCEPT ![d] = None]
      /\ UNCHANGED <<section, leaked, object, generation, reused>>
  BY DEF DropDescription
<1>2. description'[d] = None /\ \A x \in Descriptions \ {d} : description'[x] = description[x]
  BY <1>1 DEF NamedInv, DescriptionsInv
<1>3. DescriptionsInv'
  BY <1>1, <1>2 DEF NamedInv, DescriptionsInv, GoodDescription, Plain
<1>4. CarriersInv'
  <2>1. ASSUME NEW n \in Names, NEW desc, AllCarry(n, desc) PROVE AllCarry(n, desc)'
    BY <1>1, <1>2, <2>1 DEF AllCarry, Carries
  <2> QED
    BY <1>1, <2>1 DEF NamedInv, CarriersInv
<1> QED
  BY <1>1, <1>3, <1>4, DescriptionsChange

LEMMA DescribeKeeps ==
    ASSUME NamedInv, NEW o \in Objects, NEW d \in Descriptions, Describe(o, d)
    PROVE  NamedInv'
<1> DEFINE desc == object[o].desc
           gen == IF desc = None THEN 0 ELSE IF Valid(o) THEN object[o].gen ELSE 0
<1>1. /\ object[o] # None /\ description[d] = None
      /\ description' = [description EXCEPT ![d] = Text(desc, object[o].proc, gen)]
      /\ UNCHANGED <<section, leaked, object, generation, reused>>
  BY DEF Describe, Written
<1>2. /\ description'[d] = Text(desc, object[o].proc, gen)
      /\ \A x \in Descriptions \ {d} : description'[x] = description[x]
  BY <1>1 DEF NamedInv, DescriptionsInv
<1>3. description'[d] # None /\ description'[d].desc = desc
      /\ description'[d].by = object[o].proc /\ description'[d].gen = gen
  BY <1>2, TextFields
<1>4. GoodObject(object[o])
  BY <1>1 DEF NamedInv, ObjectsInv
<1>5. gen # 0 => Mapped(object[o]) /\ gen = object[o].gen
  <2>1. Valid(o) => object[o].maps # <<>>
    BY DEF Valid, DATAPTRPOS
  <2> QED
    BY <1>4, <2>1 DEF GoodObject
<1>6. /\ desc = None => gen = 0
      /\ desc # None => Plain(desc)
      /\ gen # 0 => /\ object[o].proc \in Procs /\ desc.name \in leaked[object[o].proc]
                    /\ gen = section[desc.name].gen
  BY <1>4, <1>5 DEF GoodObject, Mapped
<1> HIDE DEF desc, gen
<1>7. GoodDescription(description[d])'
  BY <1>1, <1>3, <1>6 DEF GoodDescription, Plain
<1>8. DescriptionsInv'
  BY <1>1, <1>2, <1>7 DEF NamedInv, DescriptionsInv, GoodDescription, Plain
<1>9. CarriersInv'
  <2>1. ASSUME NEW n \in Names, NEW e, AllCarry(n, e) PROVE AllCarry(n, e)'
    <3>1. Carries(description[d], n)' => desc = e
      BY <1>1, <1>3, <2>1 DEF AllCarry, Carries, desc
    <3> QED
      BY <1>1, <1>2, <1>3, <2>1, <3>1 DEF AllCarry, Carries
  <2> QED
    BY <1>1, <2>1 DEF NamedInv, CarriersInv
<1> QED
  BY <1>1, <1>8, <1>9, DescriptionsChange

-----------------------------------------------------------------------------
\* New objects.
LEMMA RefusedKeeps ==
    ASSUME NamedInv, NEW o \in Objects, NEW p \in Procs, NEW n, NEW size,
           ConstructRefused(o, p, n, size)
    PROVE  NamedInv'
<1>1. /\ object[o] = None /\ object' = [object EXCEPT ![o] = Object(p, None, 0, <<>>)]
      /\ UNCHANGED <<section, leaked, description, generation, reused>>
  BY DEF ConstructRefused
<1>2. /\ object'[o] = Object(p, None, 0, <<>>)
      /\ \A x \in Objects \ {o} : object'[x] = object[x]
  BY <1>1 DEF NamedInv, ObjectsInv
<1>3. /\ object'[o] # None /\ object'[o].proc = p /\ object'[o].desc = None
      /\ object'[o].gen = 0 /\ object'[o].maps = <<>>
  BY <1>2, ObjectFields
<1>4. \A m \in Names : Held(m)' <=> Held(m)
  <2>1. \A m, x : x \in Objects => (HasOpen(x, m)' <=> HasOpen(x, m))
    BY <1>1, <1>2, <1>3 DEF HasOpen
  <2> QED
    BY <1>1, <2>1 DEF Held
<1>5. SectionsInv'
  BY <1>1, <1>4 DEF NamedInv, SectionsInv
<1>6. ObjectsInv'
  <2>1. GoodObject(object[o])'
    BY <1>3 DEF GoodObject
  <2>2. \A x \in Objects \ {o} : object'[x] # None => GoodObject(object[x])'
    BY <1>1, <1>2 DEF NamedInv, ObjectsInv, GoodObject, Mapped, Plain
  <2> QED
    BY <1>1, <2>1, <2>2 DEF NamedInv, ObjectsInv
<1>7. DescriptionsInv'
  BY <1>1 DEF NamedInv, DescriptionsInv, GoodDescription, Plain
<1>8. CarriersInv'
  <2>1. ASSUME NEW m \in Names, NEW e, AllCarry(m, e) PROVE AllCarry(m, e)'
    BY <1>1, <1>2, <1>3, <2>1 DEF AllCarry, Carries
  <2> QED
    BY <1>1, <2>1 DEF NamedInv, CarriersInv
<1> QED
  BY <1>1, <1>5, <1>6, <1>7, <1>8 DEF NamedInv

\* What initMemory leaves behind when the section of desc's name is s[name]: the
\* old one, or a new one where there was none.
LEMMA InitMemoryKeeps ==
    ASSUME NamedInv, NEW o \in Objects, NEW p \in Procs, object[o] = None,
           NEW desc, Plain(desc), NEW size, NEW s,
           \A n \in Names \ {desc.name} : s[n] = section[n] /\ generation'[n] = generation[n],
           \/ s[desc.name] = section[desc.name] /\ generation'[desc.name] = generation[desc.name]
           \/ /\ section[desc.name] = None /\ s[desc.name] # None
              /\ GoodSection(s[desc.name], generation'[desc.name])
              /\ generation'[desc.name] \in 0..MaxGeneration,
           generation' = [n \in Names |-> generation'[n]],
           InitMemory(o, p, desc, size, IF s[desc.name] = None THEN 0 ELSE s[desc.name].size,
                      IF s[desc.name] = None THEN 0 ELSE s[desc.name].gen),
           Remain(s), UNCHANGED description
    PROVE  /\ SectionsInv' /\ ObjectsInv' /\ DescriptionsInv'
           /\ leaked' \in [Procs -> SUBSET Names]
           /\ object'[o] # None /\ object'[o].desc = desc
           /\ \A x \in Objects \ {o} : object'[x] = object[x]
<1> DEFINE name == desc.name
           bytes == IF s[desc.name] = None THEN 0 ELSE s[desc.name].size
           gen == IF s[desc.name] = None THEN 0 ELSE s[desc.name].gen
           maps == object'[o].maps
<1>n. name \in Names
  BY DEF Plain
<1>1. \/ /\ object' = [object EXCEPT ![o] = Object(p, desc, gen, <<>>)]
         /\ leaked' = leaked
      \/ /\ ~Unusable(desc, size) /\ MapsAll(desc, bytes)
         /\ object' = [object EXCEPT ![o] = Object(p, desc, gen, Maps(desc))]
         /\ leaked' = [leaked EXCEPT ![p] = @ \cup {name}]
  BY DEF InitMemory
<1>2. /\ object'[o] = Object(p, desc, gen, <<>>) \/ object'[o] = Object(p, desc, gen, Maps(desc))
      /\ \A x \in Objects \ {o} : object'[x] = object[x]
      /\ object' = [x \in Objects |-> object'[x]]
  BY <1>1 DEF NamedInv, ObjectsInv
<1>3. object'[o] # None /\ object'[o].proc = p /\ object'[o].desc = desc
      /\ object'[o].gen = gen
  BY <1>2, ObjectFields
<1>4. /\ leaked' \in [Procs -> SUBSET Names]
      /\ \A q \in Procs : leaked[q] \subseteq leaked'[q] /\ leaked'[q] \subseteq leaked[q] \cup {name}
  BY <1>1, <1>n DEF NamedInv
<1>5. gen # 0 <=> s[name] # None
  <2>1. section[name] # None => section[name].gen # 0
    BY <1>n DEF NamedInv, SectionsInv, GoodSection
  <2> QED
    BY <2>1 DEF GoodSection
<1>6. \/ maps = <<>> /\ leaked' = leaked
      \/ /\ maps = Maps(desc) /\ MapsAll(desc, s[name].size) /\ s[name] # None
         /\ name \in leaked'[p]
  <2>1. CASE object' = [object EXCEPT ![o] = Object(p, desc, gen, <<>>)] /\ leaked' = leaked
    <3>1. object'[o] = Object(p, desc, gen, <<>>)
      BY <2>1 DEF NamedInv, ObjectsInv
    <3> QED
      BY <2>1, <3>1, ObjectFields
  <2>2. CASE /\ ~Unusable(desc, size) /\ MapsAll(desc, bytes)
             /\ object' = [object EXCEPT ![o] = Object(p, desc, gen, Maps(desc))]
             /\ leaked' = [leaked EXCEPT ![p] = @ \cup {name}]
    <3>1. object'[o] = Object(p, desc, gen, Maps(desc))
      BY <2>2 DEF NamedInv, ObjectsInv
    <3>2. maps = Maps(desc)
      BY <3>1, ObjectFields
    <3>3. bytes # 0
      BY <2>2, UsableNeedsMemory
    <3>4. s[name] # None /\ bytes = s[name].size
      BY <3>3
    <3>5. name \in leaked'[p]
      BY <2>2 DEF NamedInv
    <3> QED
      BY <2>2, <3>2, <3>4, <3>5
  <2> QED
    BY <1>1, <2>1, <2>2
<1> HIDE DEF maps, gen
<1>7. \A n \in Names : Held(n)' <=> s[n] # None
  <2>1. ASSUME NEW n \in Names, n # name PROVE Held(n)' <=> Held(n)
    <3>1. \A x \in Objects : HasOpen(x, n)' <=> HasOpen(x, n)
      BY <1>2, <1>3, <2>1 DEF HasOpen
    <3>2. \A q \in Procs : n \in leaked'[q] <=> n \in leaked[q]
      BY <1>4, <2>1
    <3> QED
      BY <3>1, <3>2 DEF Held
  <2>2. ASSUME NEW n \in Names, n = name PROVE Held(n)' <=> s[n] # None
    <3>1. s[n] # None => HasOpen(o, n)'
      BY <1>3, <1>5, <2>2 DEF HasOpen
    <3>2. Held(n) => s[n] # None
      BY <2>2 DEF NamedInv, SectionsInv
    <3>3. Held(n)' => Held(n) \/ s[n] # None
      BY <1>2, <1>3, <1>5, <1>6, <2>2 DEF Held, HasOpen
    <3> QED
      BY <3>1, <3>2, <3>3 DEF Held
  <2>3. \A n \in Names : Held(n) <=> section[n] # None
    BY DEF NamedInv, SectionsInv
  <2> QED
    BY <2>1, <2>2, <2>3
<1>8. \A n \in Names : /\ section'[n] = s[n]
                       /\ section[n] # None => section'[n] = section[n]
  <2>1. \A n \in Names : section'[n] = IF Held(n)' THEN s[n] ELSE None
    BY DEF Remain
  <2>2. \A n \in Names : section'[n] = s[n]
    BY <1>7, <2>1
  <2> QED
    BY <2>2
<1>9. SectionsInv'
  <2>1. \A n \in Names : /\ section'[n] # None => GoodSection(section'[n], generation'[n])
                         /\ generation'[n] \in 0..MaxGeneration
    BY <1>8 DEF NamedInv, SectionsInv
  <2>2. section' = [n \in Names |-> section'[n]]
    BY DEF Remain
  <2> QED
    BY <1>7, <1>8, <2>1, <2>2 DEF SectionsInv, GoodSection
<1>10. GoodObject(object[o])'
  <2>1. gen # 0 => gen = section'[name].gen
    BY <1>5, <1>8, <1>n DEF gen
  <2>2. maps = <<>> \/ Mapped(object[o])'
    BY <1>3, <1>5, <1>6, <1>8, <1>n DEF Mapped, maps
  <2> QED
    BY <1>3, <2>1, <2>2 DEF GoodObject, maps, Plain
<1>11. ASSUME NEW x \in Objects \ {o}, object'[x] # None PROVE GoodObject(object[x])'
  <2>1. object'[x] = object[x] /\ GoodObject(object[x])
    BY <1>2, <1>11 DEF NamedInv, ObjectsInv
  <2>2. object[x].gen # 0 => section'[object[x].desc.name] = section[object[x].desc.name]
    BY <1>8, <1>11, <2>1, HoldersKnow DEF NameOf
  <2>3. object[x].proc \in Procs
    BY <2>1 DEF GoodObject
  <2> QED
    BY <1>4, <2>1, <2>2, <2>3 DEF GoodObject, Mapped, Plain
<1>12. ASSUME NEW d \in Descriptions, description[d] # None
       PROVE  GoodDescription(description[d])'
  <2>1. GoodDescription(description[d])
    BY <1>12 DEF NamedInv, DescriptionsInv
  <2>2. description[d].by # NoProc /\ description[d].gen # 0 =>
            /\ description[d].by \in Procs
            /\ section'[description[d].desc.name] = section[description[d].desc.name]
    BY <1>8, <2>1, HoldersKnow DEF GoodDescription, Plain
  <2> QED
    BY <1>4, <2>1, <2>2 DEF GoodDescription, Plain
<1>13. ObjectsInv' /\ DescriptionsInv'
  BY <1>2, <1>10, <1>11, <1>12 DEF NamedInv, ObjectsInv, DescriptionsInv
<1> QED
  BY <1>2, <1>3, <1>4, <1>9, <1>13

LEMMA AttachKeeps ==
    ASSUME NamedInv, NEW o \in Objects, NEW p \in Procs, NEW d \in Descriptions, NEW size,
           Attach(o, p, d, size)
    PROVE  NamedInv'
<1> DEFINE desc == description[d].desc
<1>1. /\ object[o] = None /\ description[d] # None /\ desc # None
      /\ InitMemory(o, p, desc, size, OpenSize(desc.name), OpenGen(desc.name))
      /\ Remain(section) /\ UNCHANGED <<description, generation, reused>>
  BY DEF Attach
<1>2. Plain(desc)
  BY <1>1 DEF NamedInv, DescriptionsInv, GoodDescription
<1>3. generation' = [n \in Names |-> generation'[n]]
  BY <1>1 DEF NamedInv, SectionsInv
<1>4. InitMemory(o, p, desc, size,
                 IF section[desc.name] = None THEN 0 ELSE section[desc.name].size,
                 IF section[desc.name] = None THEN 0 ELSE section[desc.name].gen)
  BY <1>1 DEF OpenSize, OpenGen
<1> HIDE DEF desc
<1>5. /\ SectionsInv' /\ ObjectsInv' /\ DescriptionsInv'
      /\ leaked' \in [Procs -> SUBSET Names]
      /\ object'[o] # None /\ object'[o].desc = desc
      /\ \A x \in Objects \ {o} : object'[x] = object[x]
  <2>1. UNCHANGED description /\ \A n : generation'[n] = generation[n]
    BY <1>1
  <2> QED
    BY <1>1, <1>2, <1>3, <1>4, <2>1, InitMemoryKeeps
<1>6. CarriersInv'
  <2>1. ASSUME NEW n \in Names, NEW e, AllCarry(n, e) PROVE AllCarry(n, e)'
    <3>1. Carries(object[o], n)' => desc = e
      BY <1>1, <1>5, <2>1 DEF AllCarry, Carries, desc
    <3> QED
      BY <1>1, <1>5, <2>1, <3>1 DEF AllCarry, Carries
  <2> QED
    BY <1>1, <2>1 DEF NamedInv, CarriersInv
<1> QED
  BY <1>1, <1>5, <1>6 DEF NamedInv

\* The constructor's descriptor is short, whatever it was asked for.
LEMMA NewShimPlain ==
    ASSUME NEW name \in Names, NEW n \in Elements, NEW size \in MessageSizes,
           NEW eventFlag \in BOOLEAN, ~Refused(n, size)
    PROVE  /\ Plain(NewShim(name, n * size, size, eventFlag))
           /\ NewShim(name, n * size, size, eventFlag).name = name
           /\ n * size \in Nat
<1> DEFINE bytes == n * size
<1>1. n \in Nat /\ size \in Nat \ {0} /\ SizeMod \in Nat \ {0} /\ IntMax \in Int
  BY NamedAssumption, Parameters
<1>2. bytes \in 0..(SizeMod - 1)
  <2>1. n <= (SizeMod - 1) \div size
    BY <1>1 DEF Refused
  <2> QED
    BY <1>1, <2>1, CountFits
<1> HIDE DEF bytes
<1>3. /\ NewShim(name, bytes, size, eventFlag) # None
      /\ NewShim(name, bytes, size, eventFlag).name = name
      /\ NewShim(name, bytes, size, eventFlag).grantors =
             IF TooLarge(bytes, size) THEN <<>> ELSE OwnRegion(bytes, eventFlag)
  BY ShimFields DEF NewShim
<1>4. \A pos \in DOMAIN NewShim(name, bytes, size, eventFlag).grantors :
          Short(NewShim(name, bytes, size, eventFlag).grantors[pos])
  <2>1. CASE TooLarge(bytes, size)
    BY <1>3, <2>1
  <2>2. CASE ~TooLarge(bytes, size)
    BY <1>1, <1>2, <1>3, <2>2, OwnRegionShort
  <2> QED
    BY <2>1, <2>2
<1>5. bytes \in Nat
  BY <1>1, <1>2
<1> QED
  BY <1>3, <1>4, <1>5 DEF Plain, bytes

LEMMA ConstructKeeps ==
    ASSUME NamedInv, NEW o \in Objects, NEW p \in Procs, NEW name \in Names,
           NEW n \in Elements, NEW size \in MessageSizes, NEW eventFlag \in BOOLEAN,
           Construct(o, p, name, n, size, eventFlag)
    PROVE  NamedInv'
<1> DEFINE bytes == n * size
           region == Region(name, bytes, eventFlag)
           desc == NewShim(name, bytes, size, eventFlag)
           s == [section EXCEPT ![name] = region]
<1>1. /\ object[o] = None /\ ~Refused(n, size) /\ region.gen <= MaxGeneration
      /\ InitMemory(o, p, desc, size, region.size, region.gen)
      /\ Remain(s) /\ UNCHANGED description
      /\ generation' = [generation EXCEPT ![name] = region.gen]
      /\ reused' = IF section[name] # None \/ Remembered(name)
                   THEN reused \cup {name} ELSE reused
  BY DEF Construct
<1>2. Plain(desc) /\ desc.name = name /\ bytes \in Nat
  BY <1>1, NewShimPlain
<1>3. /\ generation'[name] = region.gen /\ \A m \in Names \ {name} : generation'[m] = generation[m]
      /\ generation' = [m \in Names |-> generation'[m]]
  BY <1>1 DEF NamedInv, SectionsInv
<1>4. s[name] = region /\ \A m \in Names \ {name} : s[m] = section[m]
  <2> HIDE DEF region
  <2> QED
    BY DEF NamedInv, SectionsInv
<1>5. \/ region = section[name] /\ generation'[name] = generation[name] /\ region # None
      \/ /\ section[name] = None /\ region # None
         /\ GoodSection(region, generation'[name])
         /\ generation'[name] \in 0..MaxGeneration
  <2>1. CASE section[name] # None
    <3>1. region = section[name]
      BY <2>1 DEF Region
    <3> QED
      BY <1>3, <2>1, <3>1 DEF NamedInv, SectionsInv, GoodSection
  <2>2. CASE section[name] = None
    <3> DEFINE sz == AshmemSize(bytes, eventFlag, FALSE)
               g == generation[name] + 1
    <3>1. region = Section(sz, g)
      BY <2>2 DEF Region
    <3>2. sz \in 0..(SizeMod - 1) /\ RoundUp(sz, PageSize) = sz
      BY <1>2, WholePages
    <3>3. generation[name] \in Nat /\ MaxGeneration \in Nat /\ SizeMod \in Nat
      BY NamedAssumption, Parameters DEF NamedInv, SectionsInv
    <3> HIDE DEF sz, g, region
    <3>4. region # None /\ region.size = sz /\ region.gen = g
      BY <3>1, SectionFields
    <3>5. g \in Nat /\ g # 0 /\ sz \in Nat
      BY <3>2, <3>3 DEF g
    <3>6. g \in 0..MaxGeneration
      BY <1>1, <3>3, <3>4, <3>5
    <3> QED
      BY <1>3, <2>2, <3>2, <3>4, <3>5, <3>6 DEF GoodSection
  <2> QED
    BY <2>1, <2>2
<1> HIDE DEF region, desc, s
<1>6. InitMemory(o, p, desc, size, IF s[desc.name] = None THEN 0 ELSE s[desc.name].size,
                 IF s[desc.name] = None THEN 0 ELSE s[desc.name].gen)
  <2>1. s[desc.name] = region /\ region # None
    BY <1>2, <1>4, <1>5
  <2> QED
    BY <1>1, <2>1
<1>7. /\ SectionsInv' /\ ObjectsInv' /\ DescriptionsInv'
      /\ leaked' \in [Procs -> SUBSET Names]
      /\ object'[o] # None /\ object'[o].desc = desc
      /\ \A x \in Objects \ {o} : object'[x] = object[x]
  <2>1. \A m \in Names \ {desc.name} : s[m] = section[m] /\ generation'[m] = generation[m]
    BY <1>2, <1>3, <1>4
  <2>2. \/ s[desc.name] = section[desc.name] /\ generation'[desc.name] = generation[desc.name]
        \/ /\ section[desc.name] = None /\ s[desc.name] # None
           /\ GoodSection(s[desc.name], generation'[desc.name])
           /\ generation'[desc.name] \in 0..MaxGeneration
    BY <1>2, <1>4, <1>5
  <2> QED
    BY <1>1, <1>2, <1>3, <1>6, <2>1, <2>2, InitMemoryKeeps
<1>8. CarriersInv'
  <2>1. ASSUME NEW m \in Names, m # name, NEW e, AllCarry(m, e) PROVE AllCarry(m, e)'
    <3>1. ~Carries(object[o], m)'
      BY <1>2, <1>7, <2>1 DEF Carries
    <3> QED
      BY <1>1, <1>7, <2>1, <3>1 DEF AllCarry, Carries
  <2>2. ASSUME name \notin reused' PROVE AllCarry(name, desc)'
    <3>1. ~Remembered(name)
      BY <1>1, <2>2
    <3>2. AllCarry(name, desc)'
      <4>1. \A x \in Objects : Carries(object[x], name)' => object'[x].desc = desc
        BY <1>7, <3>1 DEF Remembered, Carries
      <4>2. \A d \in Descriptions : ~Carries(description[d], name)'
        BY <1>1, <3>1 DEF Remembered, Carries
      <4>3. desc' = desc
        BY DEF desc, NewShim, Shim, OwnRegion
      <4> QED
        BY <4>1, <4>2, <4>3 DEF AllCarry
    <3> QED
      BY <3>2
  <2>3. reused \subseteq reused'
    BY <1>1
  <2> QED
    BY <2>1, <2>2, <2>3 DEF NamedInv, CarriersInv
<1>9. reused' \subseteq Names
  BY <1>1 DEF NamedInv
<1> QED
  BY <1>7, <1>8, <1>9 DEF NamedInv
-----------------------------------------------------------------------------
LEMMA NamedInit == Init => NamedInv
<1> SUFFICES ASSUME Init PROVE NamedInv
  OBVIOUS
<1>1. /\ section = [n \in Names |-> None] /\ generation = [n \in Names |-> 0]
      /\ leaked = [p \in Procs |-> {}] /\ object = [o \in Objects |-> None]
      /\ description = [d \in Descriptions |-> None] /\ reused = {}
  BY DEF Init
<1>2. \A n \in Names : ~Held(n)
  BY <1>1 DEF Held, HasOpen
<1>3. SectionsInv
  BY <1>1, <1>2, NamedAssumption DEF SectionsInv
<1>4. ObjectsInv /\ DescriptionsInv
  BY <1>1 DEF ObjectsInv, DescriptionsInv
<1>5. CarriersInv
  BY <1>1 DEF CarriersInv, AllCarry, Carries
<1>6. leaked \in [Procs -> SUBSET Names] /\ reused \subseteq Names
  BY <1>1
<1> QED
  BY <1>3, <1>4, <1>5, <1>6 DEF NamedInv

LEMMA StutterKeeps == NamedInv /\ UNCHANGED vars => NamedInv'
<1> SUFFICES ASSUME NamedInv, UNCHANGED vars PROVE NamedInv'
  OBVIOUS
<1>1. UNCHANGED <<section, leaked, object, description, generation, reused>>
  BY DEF vars
<1>2. DescriptionsInv'
  BY <1>1 DEF NamedInv, DescriptionsInv, GoodDescription, Plain
<1>3. CarriersInv'
  <2>1. ASSUME NEW n \in Names, NEW desc, AllCarry(n, desc) PROVE AllCarry(n, desc)'
    BY <1>1, <2>1 DEF AllCarry, Carries
  <2> QED
    BY <1>1, <2>1 DEF NamedInv, CarriersInv
<1> QED
  BY <1>1, <1>2, <1>3, DescriptionsChange

LEMMA NamedNext == NamedInv /\ [Next]_vars => NamedInv'
<1> SUFFICES ASSUME NamedInv, [Next]_vars PROVE NamedInv'
  OBVIOUS
<1>1. ASSUME NEW o \in Objects, NEW p \in Procs, NEW size \in MessageSizes, NEW n \in Elements,
             ConstructRefused(o, p, n, size)
      PROVE  NamedInv'
  BY <1>1, RefusedKeeps
<1>2. ASSUME NEW o \in Objects, NEW p \in Procs, NEW size \in MessageSizes, NEW n \in Elements,
             NEW name \in Names, NEW eventFlag \in BOOLEAN,
             Construct(o, p, name, n, size, eventFlag)
      PROVE  NamedInv'
  BY <1>2, ConstructKeeps
<1>3. ASSUME NEW o \in Objects, NEW p \in Procs, NEW size \in MessageSizes, NEW n \in Elements,
             NEW name \in Names, NEW eventFlag \in BOOLEAN,
             ConstructAborts(o, p, name, n, size, eventFlag)
      PROVE  NamedInv'
  BY <1>3, ExitKeeps DEF ConstructAborts
<1>4. ASSUME NEW o \in Objects, NEW p \in Procs, NEW size \in MessageSizes,
             NEW d \in Descriptions, Attach(o, p, d, size)
      PROVE  NamedInv'
  BY <1>4, AttachKeeps
<1>5. ASSUME NEW o \in Objects, NEW p \in Procs, NEW size \in MessageSizes,
             NEW d \in Descriptions, AttachAborts(o, p, d, size)
      PROVE  NamedInv'
  BY <1>5, ExitKeeps DEF AttachAborts
<1>6. ASSUME NEW o \in Objects, Destroy(o) PROVE NamedInv'
  BY <1>6, DestroyKeeps
<1>7. ASSUME NEW o \in Objects, NEW d \in Descriptions, Describe(o, d) PROVE NamedInv'
  BY <1>7, DescribeKeeps
<1>8. ASSUME NEW d \in Descriptions, DropDescription(d) PROVE NamedInv'
  BY <1>8, DropDescriptionKeeps
<1>9. ASSUME NEW p \in Procs, Exit(p) PROVE NamedInv'
  BY <1>9, ExitKeeps
<1> QED
  BY <1>1, <1>2, <1>3, <1>4, <1>5, <1>6, <1>7, <1>8, <1>9, StutterKeeps DEF Next

\* The inductive invariant: a section is there exactly as long as somebody
\* holds it, a queue that is valid mapped what that section has, and the process
\* that mapped or described it keeps the handles that mmap duplicated.
THEOREM NamedInvariant == Spec => []NamedInv
<1> QED
  BY NamedInit, NamedNext, PTL DEF Spec
-----------------------------------------------------------------------------
\* Names stand for the section that their last region was given, as long as a
\* handle on it is open, and for nothing afterwards (ashmem_create_region and
\* the kernel's counting of handles).
THEOREM NamedTypeCorrect == Spec => []TypeOK
<1>1. ASSUME NamedInv PROVE TypeOK
  <2>1. \A n \in Names : /\ section[n] # None <=> Held(n)
                         /\ section[n] # None => section[n].gen = generation[n]
                         /\ generation[n] \in 0..MaxGeneration
    BY <1>1 DEF NamedInv, SectionsInv, GoodSection
  <2>2. DOMAIN object = Objects /\ DOMAIN description = Descriptions
    BY <1>1 DEF NamedInv, ObjectsInv, DescriptionsInv
  <2>3. \A o \in Objects : object[o] # None =>
          /\ object[o].proc \in Procs
          /\ object[o].gen # 0 => object[o].gen = section[NameOf(o)].gen
    BY <1>1 DEF NamedInv, ObjectsInv, GoodObject, NameOf
  <2> QED
    BY <1>1, <2>1, <2>2, <2>3 DEF NamedInv, TypeOK
<1> QED
  BY <1>1, NamedInvariant, PTL

\* A valid queue has a descriptor, mapped from the section of its name.
LEMMA ValidIsMapped ==
    ASSUME NamedInv, NEW o \in ValidObjects
    PROVE  /\ o \in Objects /\ object[o] # None /\ GoodObject(object[o])
           /\ object[o].desc # None /\ Plain(object[o].desc) /\ NameOf(o) \in Names
           /\ Mapped(object[o]) /\ section[NameOf(o)] # None
<1>1. o \in Objects /\ object[o] # None /\ DATAPTRPOS \in DOMAIN object[o].maps
  BY DEF ValidObjects, Valid
<1>2. GoodObject(object[o])
  BY <1>1 DEF NamedInv, ObjectsInv
<1>3. object[o].maps # <<>>
  BY <1>1 DEF DATAPTRPOS
<1>4. Mapped(object[o]) /\ object[o].desc # None /\ Plain(object[o].desc)
  BY <1>2, <1>3 DEF GoodObject
<1> QED
  BY <1>1, <1>2, <1>4, HoldersKnow DEF Mapped, Plain, NameOf

\* Whatever section a name stands for when initMemory opens it, a valid queue
\* touches only bytes that it has mapped and that the section has.
THEOREM ViewsStayInSection == Spec => []ViewsInSection
<1>1. ASSUME NamedInv, NEW o \in ValidObjects
      PROVE  /\ section[NameOf(o)] # None
             /\ \A pos \in DOMAIN object[o].maps :
                  /\ Covers(object[o].maps[pos], GrantorOf(o, pos))
                  /\ GrantorOf(o, pos).offset + GrantorOf(o, pos).extent
                        <= section[NameOf(o)].size
  <2> DEFINE desc == object[o].desc
             bytes == section[desc.name].size
  <2>1. /\ Plain(desc) /\ NameOf(o) \in Names /\ Mapped(object[o])
        /\ section[NameOf(o)] # None
    BY <1>1, ValidIsMapped
  <2>2. bytes \in Nat /\ RoundUp(bytes, PageSize) = bytes
    BY <1>1, <2>1 DEF NamedInv, SectionsInv, GoodSection, NameOf
  <2>3. object[o].maps = [pos \in DOMAIN desc.grantors |-> Pages(desc.grantors[pos])]
        /\ \A pos \in DOMAIN desc.grantors : Mappable(desc.grantors[pos], bytes)
    BY <2>1 DEF Mapped, Maps, MapsAll
  <2>4. ASSUME NEW pos \in DOMAIN object[o].maps
        PROVE  /\ Covers(object[o].maps[pos], GrantorOf(o, pos))
               /\ GrantorOf(o, pos).offset + GrantorOf(o, pos).extent
                     <= section[NameOf(o)].size
    <3>1. pos \in DOMAIN desc.grantors /\ object[o].maps[pos] = Pages(desc.grantors[pos])
      BY <2>3
    <3>2. Short(desc.grantors[pos]) /\ Mappable(desc.grantors[pos], bytes)
      BY <2>1, <2>3, <3>1 DEF Plain
    <3>3. /\ Covers(Pages(desc.grantors[pos]), desc.grantors[pos])
          /\ desc.grantors[pos].offset + desc.grantors[pos].extent <= RoundUp(bytes, PageSize)
      <4> HIDE DEF bytes, desc
      <4> QED
        BY <2>2, <3>2, MappedIsCovered
    <3> QED
      BY <2>2, <3>1, <3>3 DEF GrantorOf, NameOf
  <2> QED
    BY <2>1, <2>4
<1>2. NamedInv => ViewsInSection
  BY <1>1 DEF ViewsInSection
<1> QED
  BY <1>2, NamedInvariant, PTL

\* A description of a valid queue stays good as long as the process that made it
\* runs, even when the queue is destroyed: munmap leaves the handles that
\* system_porting_mmap duplicated.
THEOREM DescriptionsHold == Spec => []DescriptionsStayGood
<1>1. ASSUME NamedInv, NEW d \in Descriptions, description[d] # None,
             description[d].by # NoProc, description[d].gen # 0
      PROVE  /\ section[description[d].desc.name] # None
             /\ section[description[d].desc.name].gen = description[d].gen
  <2>1. GoodDescription(description[d])
    BY <1>1 DEF NamedInv, DescriptionsInv
  <2>2. /\ description[d].by \in Procs
        /\ description[d].desc.name \in leaked[description[d].by]
        /\ description[d].gen = section[description[d].desc.name].gen
        /\ description[d].desc.name \in Names
    BY <1>1, <2>1 DEF GoodDescription, Plain
  <2> QED
    BY <1>1, <2>2, HoldersKnow
<1>2. NamedInv => DescriptionsStayGood
  BY <1>1 DEF DescriptionsStayGood
<1> QED
  BY <1>2, NamedInvariant, PTL

\* Two valid queues of a name that was not given twice are the same queue, part
\* for part, in whatever processes and however late they were attached.
THEOREM NamesMeanOneQueue == Spec => []PeersAgree
<1>1. ASSUME NamedInv, NEW o \in ValidObjects, NEW other \in ValidObjects,
             NameOf(o) = NameOf(other), NameOf(o) \notin reused
      PROVE  object[o].gen = object[other].gen /\ object[o].desc = object[other].desc
  <2>1. ASSUME NEW x \in ValidObjects
        PROVE  /\ x \in Objects /\ Carries(object[x], NameOf(x)) /\ NameOf(x) \in Names
               /\ object[x].gen = section[NameOf(x)].gen
    BY <1>1, <2>1, ValidIsMapped DEF Carries, NameOf, GoodObject, Mapped
  <2>2. PICK desc : AllCarry(NameOf(o), desc)
    BY <1>1, <2>1 DEF NamedInv, CarriersInv
  <2>3. object[o].desc = desc /\ object[other].desc = desc
    BY <1>1, <2>1, <2>2 DEF AllCarry
  <2>4. object[o].gen = object[other].gen
    BY <1>1, <2>1
  <2> QED
    BY <2>3, <2>4
<1>2. NamedInv => PeersAgree
  BY <1>1 DEF PeersAgree
<1> QED
  BY <1>2, NamedInvariant, PTL
=============================================================================
