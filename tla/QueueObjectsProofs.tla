------------------------- MODULE QueueObjectsProofs -------------------------
(***************************************************************************)
(* Queue objects and parcels, for any number of them, of descriptors and   *)
(* of files, and every size, page size, word size and integer width that   *)
(* LayoutAssumption allows: the parts of a queue stay apart, each file     *)
(* descriptor has one owner, descriptions with descriptors describe a      *)
(* whole queue, and the maps of an object are what its description says.   *)
(***************************************************************************)
EXTENDS QueueObjects, QueueLayoutProofs, WellFoundedInduction

-----------------------------------------------------------------------------
\* The inductive invariant: every descriptor, in an object or in a parcel, is
\* laid out.
ObjectsLaidOut ==
    /\ object = [o \in Objects |-> object[o]]
    /\ \A o \in Objects : object[o] # None =>
          /\ object[o].desc # None => LaidOut(object[o].desc.grantors)
          /\ object[o].desc = None => object[o].maps = <<>>
ParcelsLaidOut ==
    /\ parcel = [p \in Parcels |-> parcel[p]]
    /\ \A p \in Parcels : parcel[p] # None => LaidOut(parcel[p].grantors)
PartsInv == ObjectsLaidOut /\ ParcelsLaidOut

\* A descriptor is not the missing one.
LEMMA ShimIsSome ==
    ASSUME NEW grantors, NEW quantum, NEW fds
    PROVE  /\ Shim(grantors, quantum, fds) # None
           /\ Shim(grantors, quantum, fds).grantors = grantors
<1>1. Shim(grantors, quantum, fds).kind = "shim" /\ None.kind = "none"
  BY DEF Shim, None
<1> QED
  BY <1>1 DEF Shim

\* Without grantors nothing can overlap.
LEMMA NothingLaidOut == LaidOut(<<>>)
  BY DEF LaidOut

\* What the constructor describes is laid out, when it is not refused.
LEMMA NewGrantorsLaidOut ==
    ASSUME NEW n \in Elements, NEW size \in MessageSizes,
           NEW buffer \in BufferSizes \cup {NoBuffer}, NEW eventFlag \in BOOLEAN,
           ~Refused(n, size, buffer)
    PROVE  LaidOut(NewGrantors(n * size, size, eventFlag, buffer))
<1>1. n \in Nat /\ size \in Nat \ {0} /\ n * size \in Nat
  BY ObjectsAssumption, Parameters
<1>2. n * size \in 0..(SizeMod - 1)
  <2>1. n <= (SizeMod - 1) \div size
    BY <1>1, Parameters DEF Refused
  <2> QED
    BY <1>1, <2>1, CountFits
<1>3. CASE buffer # NoBuffer
  BY <1>1, <1>3, SuppliedRegionLaidOut DEF NewGrantors
<1>4. CASE buffer = NoBuffer /\ TooLarge(n * size, size)
  BY <1>4, NothingLaidOut DEF NewGrantors
<1>5. CASE buffer = NoBuffer /\ ~TooLarge(n * size, size)
  BY <1>1, <1>2, <1>5, OwnRegionLaidOut DEF NewGrantors
<1> QED
  BY <1>3, <1>4, <1>5

\* dupeDesc's casts change nothing in a descriptor that is laid out.
LEMMA ParcelKeepsLayout ==
    ASSUME NEW grantors, LaidOut(grantors)
    PROVE  LaidOut([pos \in DOMAIN grantors |-> Parceled(grantors[pos])])
<1> DEFINE copy == [pos \in DOMAIN grantors |-> Parceled(grantors[pos])]
<1>1. ASSUME NEW pos \in DOMAIN grantors
      PROVE  /\ copy[pos].offset = grantors[pos].offset
             /\ copy[pos].fdIndex = grantors[pos].fdIndex
             /\ copy[pos].extent = grantors[pos].extent
  <2>1. grantors[pos].offset \in 0..IntMax /\ grantors[pos].fdIndex \in 0..1
    BY DEF LaidOut
  <2>2. 0..1 \subseteq 0..IntMax
    BY Parameters
  <2>3. Int32(grantors[pos].offset) = grantors[pos].offset
        /\ Int32(grantors[pos].fdIndex) = grantors[pos].fdIndex
    BY <2>1, <2>2, ShortOffset
  <2> QED
    BY <2>3 DEF Parceled, Grantor
<1>2. DOMAIN copy = DOMAIN grantors
  OBVIOUS
<1> HIDE DEF copy
<1>3. LaidOut(copy)
  BY <1>1, <1>2 DEF LaidOut, Apart
<1> QED
  BY <1>3 DEF copy

\* A conversion leaves a part of a descriptor that is laid out, or of one whose
\* other grantors do not fit.
LEMMA PushedKeepsLayout ==
    ASSUME NEW grantors, LaidOut(grantors), NEW hidl, DOMAIN hidl = DOMAIN grantors,
           \A pos \in DOMAIN hidl : Fits(hidl[pos]) => hidl[pos] = grantors[pos]
    PROVE  LaidOut(Pushed(hidl))
<1> DEFINE copy == [pos \in DOMAIN grantors |-> Parceled(grantors[pos])]
           part == Pushed(hidl)
<1>1. LaidOut(copy)
  BY ParcelKeepsLayout
<1>2. \A pos \in DOMAIN part : pos \in DOMAIN copy /\ part[pos] = copy[pos]
  BY DEF Pushed
<1> HIDE DEF copy, part
<1>3. LaidOut(part)
  BY <1>1, <1>2 DEF LaidOut
<1> QED
  BY <1>3 DEF part

\* The spoiled grantor of a HIDL descriptor is one that does not fit.
LEMMA SpoiledDoesNotFit ==
    ASSUME NEW o \in Objects, NEW wide
    PROVE  LET hidl == HidlGrantors(o, wide)
           IN  /\ DOMAIN hidl = DOMAIN object[o].desc.grantors
               /\ \A pos \in DOMAIN hidl :
                     Fits(hidl[pos]) => hidl[pos] = object[o].desc.grantors[pos]
<1>1. Int32(IntMax + 1) \in Int /\ ~(Int32(IntMax + 1) >= 0)
  <2>1. IntMod \div 2 \in Int /\ IntMod = 2 * (IntMod \div 2) /\ IntMod \in Nat \ {0}
    <3>1. IntMod \in Nat \ {0} /\ IntMod % 2 = 0
      BY LayoutAssumption
    <3> QED
      BY <3>1
  <2>2. IntMax + 1 = IntMod \div 2 /\ (IntMod \div 2) % IntMod = IntMod \div 2
    BY <2>1 DEF IntMax
  <2> QED
    BY <2>1, <2>2 DEF Int32, Uint32
<1>2. ASSUME NEW g PROVE ~Fits(Wide(g))
  <2>1. Wide(g).offset = IntMax + 1
    BY DEF Wide, Grantor
  <2>2. ~(Int32(Wide(g).offset) >= 0)
    BY <1>1, <2>1
  <2> QED
    BY <2>2 DEF Fits
<1> QED
  BY <1>2 DEF HidlGrantors

\* An object that initMemory leaves has the descriptor it was given.
LEMMA InitMemoryKeepsParts ==
    ASSUME PartsInv, NEW o \in Objects, NEW desc, NEW size, NEW t, NEW after, NEW m,
           desc # None, LaidOut(desc.grantors), InitMemory(o, desc, size, t, after, m)
    PROVE  PartsInv'
<1>1. PICK new : /\ new.desc = desc
                 /\ object' = [object EXCEPT ![o] = new]
                 /\ UNCHANGED parcel
  BY DEF InitMemory, Object
<1>2. ObjectsLaidOut'
  BY <1>1 DEF PartsInv, ObjectsLaidOut
<1>3. ParcelsLaidOut'
  BY <1>1 DEF PartsInv, ParcelsLaidOut
<1> QED
  BY <1>2, <1>3 DEF PartsInv

\* The process that follows an aborted one has no queues.
LEMMA AbortClears == ASSUME Abort PROVE PartsInv'
  BY DEF Abort, PartsInv, ObjectsLaidOut, ParcelsLaidOut

\* PartsInv holds at first, and every step keeps it.
LEMMA PartsInit == Init => PartsInv
  BY DEF Init, PartsInv, ObjectsLaidOut, ParcelsLaidOut

LEMMA PartsNext == PartsInv /\ [Next]_vars => PartsInv'
<1> SUFFICES ASSUME PartsInv, [Next]_vars PROVE PartsInv'
  OBVIOUS
<1>1. ASSUME NEW o \in Objects, GivesUp(o) PROVE PartsInv'
  BY <1>1 DEF GivesUp, Empty, Object, PartsInv, ObjectsLaidOut, ParcelsLaidOut
<1>2. ASSUME NEW o \in Objects, NEW n, NEW size, NEW buffer,
             ConstructRefused(o, n, size, buffer)
      PROVE  PartsInv'
  BY <1>1, <1>2 DEF ConstructRefused
<1>3. ASSUME NEW o \in Objects, NEW n, NEW size, NEW buffer,
             ConstructAborts(o, n, size, buffer)
      PROVE  PartsInv'
  BY <1>3, AbortClears DEF ConstructAborts
<1>4. ASSUME NEW o \in Objects, NEW n \in Elements, NEW size \in MessageSizes,
             NEW buffer \in BufferSizes \cup {NoBuffer}, NEW eventFlag \in BOOLEAN,
             Construct(o, n, size, eventFlag, buffer)
      PROVE  PartsInv'
  <2> DEFINE handle == NewHandle(table, buffer)
             m == WithFiles(AshmemSize(n * size, eventFlag, buffer # NoBuffer), buffer)
             grantors == NewGrantors(n * size, size, eventFlag, buffer)
             desc == Shim(grantors, Uint32(size), handle.fds)
  <2>1. /\ ~Refused(n, size, buffer)
        /\ \/ InitMemory(o, desc, size, handle.table, handle.table, m)
           \/ InitMemoryAborts(desc, size, handle.table, m)
    BY <1>4 DEF Construct
  <2>2. LaidOut(grantors)
    BY <2>1, NewGrantorsLaidOut
  <2>3. desc # None /\ desc.grantors = grantors
    BY ShimIsSome
  <2> HIDE DEF handle, m, grantors, desc
  <2>4. CASE InitMemory(o, desc, size, handle.table, handle.table, m)
    BY <2>2, <2>3, <2>4, InitMemoryKeepsParts
  <2>5. CASE InitMemoryAborts(desc, size, handle.table, m)
    BY <2>5, AbortClears DEF InitMemoryAborts
  <2> QED
    BY <2>1, <2>4, <2>5
<1>5. ASSUME NEW o \in Objects, NEW p \in Parcels, NEW size, Attach(o, p, size)
      PROVE  PartsInv'
  <2>1. parcel[p] # None /\ LaidOut(parcel[p].grantors)
    BY <1>5 DEF Attach, PartsInv, ParcelsLaidOut
  <2>2. CASE Negative(p)
    <3>1. /\ object' = [object EXCEPT ![o] = Object(Malformed, 0, <<>>)]
          /\ UNCHANGED parcel
      BY <1>5, <2>2 DEF Attach
    <3>2. Object(Malformed, 0, <<>>).desc # None
          /\ Object(Malformed, 0, <<>>).desc.grantors = <<>>
      <4>1. Object(Malformed, 0, <<>>).desc.kind = "shim" /\ None.kind = "none"
        BY DEF Object, Malformed, None
      <4> QED
        BY <4>1 DEF Object, Malformed
    <3>3. LaidOut(Object(Malformed, 0, <<>>).desc.grantors)
      BY <3>2, NothingLaidOut
    <3> QED
      BY <3>1, <3>2, <3>3 DEF PartsInv, ObjectsLaidOut, ParcelsLaidOut
  <2>3. CASE ~Negative(p)
    <3> DEFINE temporary == DupAll(table, parcel[p].fds)
               copy == DupAll(temporary.table, temporary.fds)
               desc == Shim(parcel[p].grantors, parcel[p].quantum, copy.fds)
    <3>1. \/ InitMemory(o, desc, size, copy.table,
                        CloseAll(copy.table, temporary.fds), memory)
          \/ InitMemoryAborts(desc, size, copy.table, memory)
      BY <1>5, <2>3 DEF Attach
    <3>2. desc # None /\ LaidOut(desc.grantors)
      BY <2>1, ShimIsSome
    <3> HIDE DEF temporary, copy, desc
    <3>3. CASE InitMemory(o, desc, size, copy.table,
                          CloseAll(copy.table, temporary.fds), memory)
      BY <3>2, <3>3, InitMemoryKeepsParts
    <3>4. CASE InitMemoryAborts(desc, size, copy.table, memory)
      BY <3>4, AbortClears DEF InitMemoryAborts
    <3> QED
      BY <3>1, <3>3, <3>4
  <2> QED
    BY <2>2, <2>3
<1>6. ASSUME NEW o \in Objects, NEW p \in Parcels, DupeDesc(o, p) PROVE PartsInv'
  <2>1. CASE /\ parcel' = [parcel EXCEPT ![p] = Parcel(<<>>, 0, <<>>)]
             /\ UNCHANGED object
    <3>1. LaidOut(Parcel(<<>>, 0, <<>>).grantors)
      BY NothingLaidOut DEF Parcel
    <3> QED
      BY <2>1, <3>1 DEF PartsInv, ObjectsLaidOut, ParcelsLaidOut
  <2>2. ASSUME object[o] # None, object[o].desc # None, UNCHANGED object,
               NEW quantum, NEW fds,
               parcel' = [parcel EXCEPT ![p] =
                  Parcel([pos \in DOMAIN object[o].desc.grantors |->
                             Parceled(object[o].desc.grantors[pos])], quantum, fds)]
        PROVE  PartsInv'
    <3> DEFINE copy == [pos \in DOMAIN object[o].desc.grantors |->
                           Parceled(object[o].desc.grantors[pos])]
    <3>1. LaidOut(copy)
      BY <2>2, ParcelKeepsLayout DEF PartsInv, ObjectsLaidOut
    <3>2. Parcel(copy, quantum, fds).grantors = copy
      BY DEF Parcel
    <3>3. parcel' = [parcel EXCEPT ![p] = Parcel(copy, quantum, fds)]
      BY <2>2
    <3> HIDE DEF copy
    <3> QED
      BY <2>2, <3>1, <3>2, <3>3 DEF PartsInv, ObjectsLaidOut, ParcelsLaidOut
  <2>3. CASE Abort
    BY <2>3, AbortClears
  <2> QED
    BY <1>6, <2>1, <2>2, <2>3 DEF DupeDesc
<1>7. ASSUME NEW p \in Parcels, NEW quantum, EditQuantum(p, quantum) PROVE PartsInv'
  <2>1. /\ parcel[p] # None /\ UNCHANGED object
        /\ parcel' = [parcel EXCEPT ![p] =
                         Parcel(parcel[p].grantors, quantum, parcel[p].fds)]
    BY <1>7 DEF EditQuantum, PartsInv, ParcelsLaidOut
  <2>2. Parcel(parcel[p].grantors, quantum, parcel[p].fds).grantors = parcel[p].grantors
    BY DEF Parcel
  <2> QED
    BY <2>1, <2>2 DEF PartsInv, ObjectsLaidOut, ParcelsLaidOut
<1>8. ASSUME NEW p \in Parcels, DropParcel(p) PROVE PartsInv'
  BY <1>8 DEF DropParcel, PartsInv, ObjectsLaidOut, ParcelsLaidOut
<1>9. ASSUME NEW o \in Objects, Destroy(o) PROVE PartsInv'
  BY <1>9 DEF Destroy, PartsInv, ObjectsLaidOut, ParcelsLaidOut
<1>10. CASE UNCHANGED vars
  BY <1>10 DEF vars, PartsInv, ObjectsLaidOut, ParcelsLaidOut
<1>11. ASSUME NEW o \in Objects, NEW p \in Parcels, ConvertRefused(o, p) PROVE PartsInv'
  BY <1>10, <1>11 DEF ConvertRefused
<1>12. ASSUME NEW p \in Parcels, NEW grantors, NEW quantum, NEW fds, LaidOut(grantors),
              parcel' = [parcel EXCEPT ![p] = Parcel(grantors, quantum, fds)],
              UNCHANGED object
       PROVE  PartsInv'
  <2>1. Parcel(grantors, quantum, fds).grantors = grantors
    BY DEF Parcel
  <2> QED
    BY <1>12, <2>1 DEF PartsInv, ObjectsLaidOut, ParcelsLaidOut
<1>13. ASSUME NEW o \in Objects, NEW p \in Parcels, NEW wide, ConvertGivesUp(o, p, wide)
       PROVE  PartsInv'
  <2> DEFINE hidl == HidlGrantors(o, wide)
  <2>1. /\ object[o] # None /\ object[o].desc # None /\ UNCHANGED object
        /\ parcel' = [parcel EXCEPT ![p] = Parcel(Pushed(hidl), 0, <<>>)]
    BY <1>13 DEF ConvertGivesUp
  <2>2. LaidOut(object[o].desc.grantors)
    BY <2>1 DEF PartsInv, ObjectsLaidOut
  <2>3. /\ DOMAIN hidl = DOMAIN object[o].desc.grantors
        /\ \A pos \in DOMAIN hidl :
              Fits(hidl[pos]) => hidl[pos] = object[o].desc.grantors[pos]
    BY SpoiledDoesNotFit
  <2> HIDE DEF hidl
  <2>4. LaidOut(Pushed(hidl))
    BY <2>2, <2>3, PushedKeepsLayout
  <2> QED
    BY <1>12, <2>1, <2>4
<1>14. ASSUME NEW o \in Objects, NEW p \in Parcels, NEW flagsFit, Convert(o, p, flagsFit)
       PROVE  PartsInv'
  <2>1. PICK quantum, fds :
          parcel' = [parcel EXCEPT ![p] =
                        Parcel(Pushed(object[o].desc.grantors), quantum, fds)]
    BY <1>14 DEF Convert
  <2>2. object[o] # None /\ object[o].desc # None /\ UNCHANGED object
    BY <1>14 DEF Convert
  <2>3. LaidOut(object[o].desc.grantors)
    BY <2>2 DEF PartsInv, ObjectsLaidOut
  <2>4. LaidOut(Pushed(object[o].desc.grantors))
    BY <2>3, PushedKeepsLayout
  <2> QED
    BY <1>12, <2>1, <2>2, <2>4
<1> QED
  BY <1>1, <1>2, <1>3, <1>4, <1>5, <1>6, <1>7, <1>8, <1>9, <1>10, <1>11, <1>13, <1>14
     DEF Next

-----------------------------------------------------------------------------
\* The counters, the ring and the EventFlag word never share a byte (property
\* PartsAreApart), in any object created, attached or described in any order:
\* the constructor's two layouts and the casts of dupeDesc keep them apart.
THEOREM PartsStayApart == Spec => []PartsAreApart
<1>1. PartsInv => PartsAreApart
  <2> SUFFICES ASSUME PartsInv, NEW o \in ValidObjects
               PROVE  LaidOut(object[o].desc.grantors)
    BY DEF PartsAreApart, LaidOut, GrantorOf
  <2>1. o \in Objects /\ object[o] # None /\ DATAPTRPOS \in DOMAIN object[o].maps
    BY DEF ValidObjects, IsValid
  <2>2. object[o].maps # <<>>
    BY <2>1 DEF DATAPTRPOS
  <2> QED
    BY <2>1, <2>2 DEF PartsInv, ObjectsLaidOut
<1> QED
  BY PartsInit, PartsNext, <1>1, PTL DEF Spec

-----------------------------------------------------------------------------
\* The kernel's descriptors.

Tables == [FDs -> Files \cup {Closed}]
Ends == FDs \cup {NoFd}

\* A handle has at most two ends, which differ unless dup failed.
HandleShape(h) ==
    \/ h = <<>>
    \/ \E a \in Ends : h = <<a>>
    \/ \E a, b \in Ends : h = <<a, b>> /\ (a = b => a = NoFd)

OpenIn(t, h) == \A i \in DOMAIN h : h[i] # NoFd => t[h[i]] # Closed

LEMMA LeastIsLeast ==
    ASSUME NEW S, S \subseteq Nat, S # {}
    PROVE  Least(S) \in S /\ \A y \in S : Least(S) <= y
<1>1. IsWellFoundedOn(OpToRel(<, Nat), Nat)
  BY NatLessThanWellFounded
<1>2. PICK x \in S : \A y \in S : <<y, x>> \notin OpToRel(<, Nat)
  BY <1>1, WFMin
<1>3. \A y \in S : ~(y < x)
  BY <1>2 DEF OpToRel
<1>4. \A y \in S : x <= y
  BY <1>3
<1> QED
  BY <1>4 DEF Least

LEMMA Numbers == FDs \subseteq Nat /\ Files \subseteq Nat /\ NoFd \notin FDs /\ Closed \notin Files
  BY ObjectsAssumption DEF FDs, Files, NoFd, Closed

\* dup and open hand out a descriptor that was closed, or none.
LEMMA FreeFdIsFree ==
    ASSUME NEW t
    PROVE  FreeFd(t) \in Ends /\ (FreeFd(t) # NoFd => FreeFd(t) \in FDs /\ t[FreeFd(t)] = Closed)
<1> DEFINE free == {d \in FDs : d < limit /\ t[d] = Closed}
<1>1. FreeFd(t) = IF free = {} THEN NoFd ELSE Least(free)
  BY DEF FreeFd
<1>2. free # {} => Least(free) \in free
  BY Numbers, LeastIsLeast
<1> QED
  BY <1>1, <1>2 DEF Ends

LEMMA DupOpens ==
    ASSUME NEW t \in Tables, NEW d \in Ends
    PROVE  LET r == Dup(t, d)
           IN  /\ r.table \in Tables /\ r.fd \in Ends
               /\ r.fd # NoFd => /\ r.fd \in FDs /\ t[r.fd] = Closed
                                 /\ r.table[r.fd] = FileOf(t, d) /\ FileOf(t, d) # Closed
               /\ \A e \in FDs : e # r.fd => r.table[e] = t[e]
<1> DEFINE r == Dup(t, d)
           new == IF FileOf(t, d) = Closed THEN NoFd ELSE FreeFd(t)
<1>1. r.table = Opened(t, new, FileOf(t, d)) /\ r.fd = new
  BY DEF Dup
<1>2. FileOf(t, d) \in Files \cup {Closed}
  BY DEF FileOf, Tables, Ends
<1>3. new \in Ends /\ (new # NoFd => new \in FDs /\ t[new] = Closed /\ FileOf(t, d) # Closed)
  BY FreeFdIsFree DEF Ends
<1> HIDE DEF new
<1>4. Opened(t, new, FileOf(t, d)) \in Tables
  BY <1>2, <1>3 DEF Opened, Tables
<1>5. /\ new # NoFd => Opened(t, new, FileOf(t, d))[new] = FileOf(t, d)
      /\ \A e \in FDs : e # new => Opened(t, new, FileOf(t, d))[e] = t[e]
  BY <1>3 DEF Opened, Tables
<1> QED
  BY <1>1, <1>3, <1>4, <1>5

\* What the copy of a handle is: new descriptors, each of the same file as the
\* one it is a duplicate of, or none.
Copies(t, h, r) ==
    /\ r.table \in Tables /\ HandleShape(r.fds) /\ DOMAIN r.fds = DOMAIN h
    /\ \A e \in FDs : e \notin Held(r.fds) => r.table[e] = t[e]
    /\ \A e \in Held(r.fds) : e \in FDs /\ t[e] = Closed /\ r.table[e] # Closed
    /\ \A i \in DOMAIN h : FileOf(r.table, r.fds[i]) \in {FileOf(t, h[i]), Closed}
    /\ OpenIn(r.table, r.fds)

LEMMA DupAllCopies ==
    ASSUME NEW t \in Tables, NEW h, HandleShape(h), OpenIn(t, h)
    PROVE  Copies(t, h, DupAll(t, h))
<1> DEFINE r == DupAll(t, h)
           first == Dup(t, h[1])
           second == Dup(first.table, h[2])
<1>1. ASSUME h = <<>> PROVE Copies(t, h, r)
  <2>1. Len(h) = 0 /\ DOMAIN h = {}
    BY <1>1
  <2>2. r = [table |-> t, fds |-> <<>>]
    BY <2>1 DEF DupAll
  <2>3. r.table = t /\ r.fds = <<>> /\ DOMAIN r.fds = {}
    BY <2>2
  <2> HIDE DEF r
  <2>4. Held(r.fds) = {}
    BY <2>3 DEF Held
  <2> QED
    <3>1. HandleShape(r.fds) /\ OpenIn(r.table, r.fds) /\ DOMAIN r.fds = DOMAIN h
      BY <2>1, <2>3 DEF HandleShape, OpenIn
    <3>2. r.table \in Tables /\ \A e \in FDs : r.table[e] = t[e]
      BY <2>3
    <3>3. \A i \in DOMAIN h : FileOf(r.table, r.fds[i]) \in {FileOf(t, h[i]), Closed}
      BY <2>1
    <3> QED
      BY <2>4, <3>1, <3>2, <3>3 DEF Copies
<1>2. ASSUME NEW a \in Ends, h = <<a>> PROVE Copies(t, h, r)
  <2>1. Len(h) = 1 /\ DOMAIN h = {1} /\ h[1] = a
    BY <1>2
  <2>2. r = [table |-> first.table, fds |-> <<first.fd>>]
    BY <2>1 DEF DupAll
  <2>3. r.table = first.table /\ r.fds = <<first.fd>> /\ DOMAIN r.fds = {1}
        /\ r.fds[1] = first.fd
    BY <2>2
  <2>4. /\ first.table \in Tables /\ first.fd \in Ends
        /\ first.fd # NoFd => /\ first.fd \in FDs /\ t[first.fd] = Closed
                              /\ first.table[first.fd] = FileOf(t, a) /\ FileOf(t, a) # Closed
        /\ \A e \in FDs : e # first.fd => first.table[e] = t[e]
    BY <2>1, DupOpens
  <2> HIDE DEF r, first
  <2>5. Held(r.fds) = {first.fd} \ {NoFd}
    BY <2>3 DEF Held
  <2>6. HandleShape(r.fds)
    BY <2>3, <2>4 DEF HandleShape
  <2>7. FileOf(r.table, r.fds[1]) \in {FileOf(t, h[1]), Closed}
    BY <2>1, <2>3, <2>4 DEF FileOf
  <2>8. OpenIn(r.table, r.fds)
    BY <2>3, <2>4 DEF OpenIn
  <2> QED
    <3>1. \A e \in FDs : e \notin Held(r.fds) => r.table[e] = t[e]
      BY <2>3, <2>4, <2>5, Numbers
    <3>2. \A e \in Held(r.fds) : e \in FDs /\ t[e] = Closed /\ r.table[e] # Closed
      BY <2>3, <2>4, <2>5
    <3>3. \A i \in DOMAIN h : FileOf(r.table, r.fds[i]) \in {FileOf(t, h[i]), Closed}
      BY <2>1, <2>7
    <3> QED
      BY <2>1, <2>3, <2>4, <2>6, <2>8, <3>1, <3>2, <3>3 DEF Copies
<1>3. ASSUME NEW a \in Ends, NEW b \in Ends, h = <<a, b>>, a = b => a = NoFd
      PROVE  Copies(t, h, r)
  <2>1. Len(h) = 2 /\ DOMAIN h = {1, 2} /\ h[1] = a /\ h[2] = b
    BY <1>3
  <2>2. r = [table |-> second.table, fds |-> <<first.fd, second.fd>>]
    BY <2>1 DEF DupAll
  <2>3. r.table = second.table /\ r.fds = <<first.fd, second.fd>> /\ DOMAIN r.fds = {1, 2}
        /\ r.fds[1] = first.fd /\ r.fds[2] = second.fd
    BY <2>2
  <2>4. /\ first.table \in Tables /\ first.fd \in Ends
        /\ first.fd # NoFd => /\ first.fd \in FDs /\ t[first.fd] = Closed
                              /\ first.table[first.fd] = FileOf(t, a) /\ FileOf(t, a) # Closed
        /\ \A e \in FDs : e # first.fd => first.table[e] = t[e]
    BY <2>1, DupOpens
  <2>5. /\ second.table \in Tables /\ second.fd \in Ends
        /\ second.fd # NoFd => /\ second.fd \in FDs /\ first.table[second.fd] = Closed
                               /\ second.table[second.fd] = FileOf(first.table, b)
                               /\ FileOf(first.table, b) # Closed
        /\ \A e \in FDs : e # second.fd => second.table[e] = first.table[e]
    BY <2>1, <2>4, DupOpens
  <2> HIDE DEF r, first, second
  <2>6. b # NoFd => b \in FDs /\ t[b] # Closed
    BY <2>1 DEF OpenIn, Ends
  <2>7. FileOf(first.table, b) = FileOf(t, b)
    BY <2>4, <2>6 DEF FileOf
  <2>8. second.fd # NoFd => second.fd # first.fd /\ t[second.fd] = Closed
    BY <2>4, <2>5
  <2>9. first.fd # NoFd => second.table[first.fd] = FileOf(t, a)
    BY <2>4, <2>5, <2>8
  <2>10. Held(r.fds) = {first.fd, second.fd} \ {NoFd}
    BY <2>3 DEF Held
  <2>11. HandleShape(r.fds)
    BY <2>3, <2>4, <2>5, <2>8 DEF HandleShape
  <2>12. \A i \in DOMAIN h : FileOf(r.table, r.fds[i]) \in {FileOf(t, h[i]), Closed}
    <3>1. FileOf(r.table, r.fds[1]) \in {FileOf(t, h[1]), Closed}
      BY <2>1, <2>3, <2>9 DEF FileOf
    <3>2. FileOf(r.table, r.fds[2]) \in {FileOf(t, h[2]), Closed}
      BY <2>1, <2>3, <2>5, <2>7 DEF FileOf
    <3> QED
      BY <2>1, <3>1, <3>2
  <2>13. \A e \in Held(r.fds) : e \in FDs /\ t[e] = Closed /\ r.table[e] # Closed
    BY <2>3, <2>4, <2>5, <2>7, <2>8, <2>9, <2>10, Numbers
  <2>14. \A e \in FDs : e \notin Held(r.fds) => r.table[e] = t[e]
    BY <2>3, <2>4, <2>5, <2>10, Numbers
  <2>15. OpenIn(r.table, r.fds)
    BY <2>10, <2>13 DEF OpenIn, Held
  <2> QED
    BY <2>1, <2>3, <2>5, <2>11, <2>12, <2>13, <2>14, <2>15 DEF Copies
<1> QED
  BY <1>1, <1>2, <1>3 DEF HandleShape

-----------------------------------------------------------------------------
\* Who owns which descriptors: the queue objects and the parcels.

Carriers == Objects \cup Parcels
FdsOf(x) == IF x \in Objects THEN HandleOf(x) ELSE ParcelFds(x)

\* The files that the ends of a carrier's handle are open on.
FilesOf(x) == [i \in DOMAIN FdsOf(x) |-> FileOf(table, FdsOf(x)[i])]

OwnersInv ==
    /\ table \in Tables
    /\ \A x \in Carriers : HandleShape(FdsOf(x))
    /\ \A x, y \in Carriers : x # y => Held(FdsOf(x)) \cap Held(FdsOf(y)) = {}
    /\ \A d \in FDs : table[d] # Closed <=> \E x \in Carriers : d \in Held(FdsOf(x))

LEMMA ShapeFacts ==
    ASSUME NEW h, HandleShape(h)
    PROVE  /\ Held(h) \subseteq FDs
           /\ \A i \in DOMAIN h : h[i] \in Ends /\ (h[i] # NoFd => h[i] \in Held(h))
           /\ \A i, j \in DOMAIN h : i # j /\ h[i] # NoFd => h[i] # h[j]
<1>1. CASE h = <<>>
  BY <1>1 DEF Held
<1>2. ASSUME NEW a \in Ends, h = <<a>>
      PROVE  /\ Held(h) \subseteq FDs
             /\ \A i \in DOMAIN h : h[i] \in Ends /\ (h[i] # NoFd => h[i] \in Held(h))
             /\ \A i, j \in DOMAIN h : i # j /\ h[i] # NoFd => h[i] # h[j]
  <2>1. DOMAIN h = {1} /\ h[1] = a
    BY <1>2
  <2> QED
    BY <2>1 DEF Held, Ends
<1>3. ASSUME NEW a \in Ends, NEW b \in Ends, h = <<a, b>>, a = b => a = NoFd
      PROVE  /\ Held(h) \subseteq FDs
             /\ \A i \in DOMAIN h : h[i] \in Ends /\ (h[i] # NoFd => h[i] \in Held(h))
             /\ \A i, j \in DOMAIN h : i # j /\ h[i] # NoFd => h[i] # h[j]
  <2>1. DOMAIN h = {1, 2} /\ h[1] = a /\ h[2] = b
    BY <1>3
  <2> QED
    BY <1>3, <2>1 DEF Held, Ends
<1> QED
  BY <1>1, <1>2, <1>3 DEF HandleShape

LEMMA NobodyHolds == HandleShape(<<>>) /\ Held(<<>>) = {} /\ DOMAIN <<>> = {}
  BY DEF HandleShape, Held

\* What a carrier holds is open, and on files.
LEMMA OwnersOpen ==
    ASSUME OwnersInv, NEW x \in Carriers
    PROVE  /\ OpenIn(table, FdsOf(x)) /\ HandleShape(FdsOf(x))
           /\ DOMAIN FilesOf(x) = DOMAIN FdsOf(x)
           /\ \A i \in DOMAIN FilesOf(x) :
                /\ FilesOf(x)[i] = FileOf(table, FdsOf(x)[i])
                /\ FilesOf(x)[i] \in Files \cup {Closed}
                /\ FilesOf(x)[i] # Closed => \E d \in FDs : table[d] = FilesOf(x)[i]
<1>1. HandleShape(FdsOf(x)) /\ table \in Tables
  BY DEF OwnersInv
<1>2. /\ Held(FdsOf(x)) \subseteq FDs
      /\ \A i \in DOMAIN FdsOf(x) :
            FdsOf(x)[i] \in Ends /\ (FdsOf(x)[i] # NoFd => FdsOf(x)[i] \in Held(FdsOf(x)))
  BY <1>1, ShapeFacts
<1>3. OpenIn(table, FdsOf(x))
  BY <1>2 DEF OpenIn, OwnersInv
<1>4. DOMAIN FilesOf(x) = DOMAIN FdsOf(x)
      /\ \A i \in DOMAIN FilesOf(x) : FilesOf(x)[i] = FileOf(table, FdsOf(x)[i])
  BY DEF FilesOf
<1>5. ASSUME NEW i \in DOMAIN FilesOf(x)
      PROVE  /\ FilesOf(x)[i] \in Files \cup {Closed}
             /\ FilesOf(x)[i] # Closed => \E d \in FDs : table[d] = FilesOf(x)[i]
  BY <1>1, <1>2, <1>4 DEF FileOf, Tables, Ends
<1> QED
  BY <1>1, <1>3, <1>4, <1>5

\* A step in which one carrier's handle changes: it gives up what it held, gets
\* descriptors that were closed, and nobody else's are touched.
LEMMA OwnersStep ==
    ASSUME OwnersInv, NEW x \in Carriers, NEW h, HandleShape(h), FdsOf(x)' = h,
           table' \in Tables,
           \A y \in Carriers \ {x} : FdsOf(y)' = FdsOf(y),
           \A d \in Held(h) : d \in Held(FdsOf(x)) \/ table[d] = Closed,
           \A d \in FDs : table'[d] # Closed <=>
               d \in Held(h) \/ (table[d] # Closed /\ d \notin Held(FdsOf(x))),
           \A d \in FDs : table[d] # Closed /\ d \notin Held(FdsOf(x)) => table'[d] = table[d]
    PROVE  /\ OwnersInv'
           /\ \A y \in Carriers \ {x} : FilesOf(y)' = FilesOf(y)
<1>1. \A y \in Carriers : HandleShape(FdsOf(y))'
  <2>1. HandleShape(FdsOf(x))'
    BY DEF HandleShape, Ends, FDs, NoFd
  <2>2. ASSUME NEW y \in Carriers \ {x} PROVE HandleShape(FdsOf(y))'
    <3>1. HandleShape(FdsOf(y)) /\ FdsOf(y)' = FdsOf(y)
      BY DEF OwnersInv
    <3> QED
      BY <3>1 DEF HandleShape, Ends, FDs, NoFd
  <2> QED
    BY <2>1, <2>2
<1>2. \A y \in Carriers : Held(FdsOf(y))' = IF y = x THEN Held(h) ELSE Held(FdsOf(y))
  BY DEF Held, NoFd
<1>3. Held(h) \subseteq FDs /\ \A y \in Carriers : Held(FdsOf(y)) \subseteq FDs
  BY ShapeFacts DEF OwnersInv
<1>4. ASSUME NEW y \in Carriers \ {x} PROVE Held(h) \cap Held(FdsOf(y)) = {}
  <2>1. ASSUME NEW d, d \in Held(h), d \in Held(FdsOf(y)) PROVE FALSE
    <3>1. d \in FDs /\ table[d] # Closed
      BY <1>3, <2>1 DEF OwnersInv
    <3>2. d \in Held(FdsOf(x))
      BY <2>1, <3>1
    <3> QED
      BY <2>1, <3>2 DEF OwnersInv
  <2> QED
    BY <2>1
<1>5. \A y, z \in Carriers : y # z => Held(FdsOf(y))' \cap Held(FdsOf(z))' = {}
  BY <1>2, <1>4 DEF OwnersInv
<1>6. ASSUME NEW d \in FDs
      PROVE  table'[d] # Closed <=> \E y \in Carriers : d \in Held(FdsOf(y))'
  <2>1. table[d] # Closed /\ d \notin Held(FdsOf(x))
            <=> \E y \in Carriers \ {x} : d \in Held(FdsOf(y))
    BY DEF OwnersInv
  <2> QED
    BY <1>2, <2>1
<1>7. OwnersInv'
  BY <1>1, <1>5, <1>6 DEF OwnersInv, Tables, FDs, Files, Closed, Carriers
<1>8. ASSUME NEW y \in Carriers \ {x} PROVE FilesOf(y)' = FilesOf(y)
  <2>1. \A i \in DOMAIN FdsOf(y) :
            FdsOf(y)[i] \in Ends /\ (FdsOf(y)[i] # NoFd => FdsOf(y)[i] \in Held(FdsOf(y)))
    BY ShapeFacts DEF OwnersInv
  <2>2. \A d \in Held(FdsOf(y)) : d \in FDs /\ table'[d] = table[d]
    BY <1>3 DEF OwnersInv
  <2>3. \A i \in DOMAIN FdsOf(y) : FileOf(table', FdsOf(y)[i]) = FileOf(table, FdsOf(y)[i])
    BY <2>1, <2>2 DEF FileOf
  <2>4. FdsOf(y)' = FdsOf(y)
    OBVIOUS
  <2> QED
    BY <2>3, <2>4 DEF FilesOf, FileOf
<1> QED
  BY <1>7, <1>8

-----------------------------------------------------------------------------
\* What the carriers' descriptors describe.

DescOf(o) == IF object[o] = None THEN None ELSE object[o].desc
GrantorsOf(x) ==
    IF x \in Objects THEN IF DescOf(x) = None THEN <<>> ELSE DescOf(x).grantors
    ELSE IF parcel[x] = None THEN <<>> ELSE parcel[x].grantors
QuantumOf(x) ==
    IF x \in Objects THEN IF DescOf(x) = None THEN 0 ELSE DescOf(x).quantum
    ELSE IF parcel[x] = None THEN 0 ELSE parcel[x].quantum

\* Grantors as the conversions make them.
Shaped(g) ==
    /\ g = [pos \in DOMAIN g |-> g[pos]]
    /\ \A pos \in DOMAIN g :
         /\ g[pos] = Grantor(g[pos].fdIndex, g[pos].offset, g[pos].extent)
         /\ g[pos].extent \in Nat

\* Grantors g, with a quantum q and ends open on files v, in memory m: a
\* description that some queue could be attached to is complete and holds whole
\* messages, and every grantor lies inside the file it is in.
Sound(m, g, q, v) ==
    /\ q \in Int /\ q < IntMod /\ Shaped(g)
    /\ \A pos \in DOMAIN g :
         /\ q \in MessageSizes => /\ g[pos].fdIndex + 1 \in DOMAIN v
                                  /\ pos = DATAPTRPOS => g[pos].extent % q = 0
         /\ g[pos].fdIndex + 1 \in DOMAIN v /\ v[g[pos].fdIndex + 1] # Closed =>
               g[pos].offset + g[pos].extent <= m[v[g[pos].fdIndex + 1]]

\* Two descriptions that share a file are of one queue: they say the same of it,
\* and none of their files differ.
Kin(g1, v1, g2, v2) ==
    \A i \in DOMAIN v1, j \in DOMAIN v2 :
        v1[i] = v2[j] /\ v1[i] # Closed =>
            /\ i = j /\ g1 = g2
            /\ \A k \in DOMAIN v1 \cap DOMAIN v2 :
                  v1[k] = v2[k] \/ v1[k] = Closed \/ v2[k] = Closed

DesignsInv ==
    /\ memory \in [Files -> 0..(SizeMod - 1)]
    /\ \A x \in Carriers : Sound(memory, GrantorsOf(x), QuantumOf(x), FilesOf(x))
    /\ \A x, y \in Carriers : Kin(GrantorsOf(x), FilesOf(x), GrantorsOf(y), FilesOf(y))

\* A queue object val with ends open on files v has mapped what its descriptor
\* says, or nothing.
Mapped(val, v) ==
    LET g == val.desc.grantors
    IN  /\ val.desc # None /\ val.desc.quantum = val.size /\ val.size \in MessageSizes
        /\ DOMAIN val.maps = MappedPositions(val.desc)
        /\ \A pos \in DOMAIN val.maps :
             /\ g[pos].fdIndex + 1 \in DOMAIN v
             /\ val.maps[pos].file = v[g[pos].fdIndex + 1]
             /\ val.maps[pos].file \in Files
             /\ g[pos].offset + g[pos].extent < IntMod =>
                   Covers(val.maps[pos].pages, g[pos])

GoodObject(val, v) ==
    /\ val.kind = "object" /\ val.size \in MessageSizes \cup {0}
    /\ val.desc # None => val.desc.quantum \in 0..(IntMod - 1)
    /\ val.maps = <<>> \/ Mapped(val, v)

MappedInv ==
    /\ \A o \in Objects : object[o] # None => GoodObject(object[o], FilesOf(o))
    /\ \A p \in Parcels : parcel[p] # None => parcel[p].kind = "parcel"

LimitInv == limit \in Limits

ObjectsInv == LimitInv /\ PartsInv /\ OwnersInv /\ DesignsInv /\ MappedInv

-----------------------------------------------------------------------------
\* One carrier changes and the others stay.

OthersKeep(x) ==
    /\ \A y \in Carriers \ {x} : /\ FdsOf(y)' = FdsOf(y)
                                 /\ GrantorsOf(y)' = GrantorsOf(y)
                                 /\ QuantumOf(y)' = QuantumOf(y)
    /\ \A o \in Objects \ {x} : object'[o] = object[o]
    /\ \A p \in Parcels \ {x} : parcel'[p] = parcel[p]

\* The carrier x has these grantors, this quantum and this handle afterwards.
Becomes(x, g, q, h) == FdsOf(x)' = h /\ GrantorsOf(x)' = g /\ QuantumOf(x)' = q

LEMMA ObjectAlone ==
    ASSUME PartsInv, NEW o \in Objects, NEW val,
           object' = [object EXCEPT ![o] = val], UNCHANGED parcel
    PROVE  /\ OthersKeep(o) /\ object'[o] = val
           /\ val = None \/ val.desc = None => Becomes(o, <<>>, 0, <<>>)
           /\ val # None /\ val.desc # None =>
                 Becomes(o, val.desc.grantors, val.desc.quantum, val.desc.fds)
<1>1. object'[o] = val /\ \A y \in Objects \ {o} : object'[y] = object[y]
  BY DEF PartsInv, ObjectsLaidOut
<1>2. parcel' = parcel
  OBVIOUS
<1>3. ASSUME NEW y \in Carriers \ {o}
      PROVE  /\ FdsOf(y)' = FdsOf(y) /\ GrantorsOf(y)' = GrantorsOf(y)
             /\ QuantumOf(y)' = QuantumOf(y)
  <2>1. y \in Objects => object'[y] = object[y]
    BY <1>1
  <2> QED
    BY <1>2, <2>1 DEF FdsOf, HandleOf, ParcelFds, GrantorsOf, QuantumOf, DescOf, None
<1>4. OthersKeep(o)
  BY <1>1, <1>2, <1>3 DEF OthersKeep
<1>5. ASSUME val = None \/ val.desc = None PROVE Becomes(o, <<>>, 0, <<>>)
  BY <1>1, <1>5 DEF Becomes, FdsOf, HandleOf, GrantorsOf, QuantumOf, DescOf, None
<1>6. ASSUME val # None, val.desc # None
      PROVE  Becomes(o, val.desc.grantors, val.desc.quantum, val.desc.fds)
  BY <1>1, <1>6 DEF Becomes, FdsOf, HandleOf, GrantorsOf, QuantumOf, DescOf, None
<1> QED
  BY <1>1, <1>4, <1>5, <1>6

LEMMA ParcelAlone ==
    ASSUME PartsInv, NEW p \in Parcels, NEW val,
           parcel' = [parcel EXCEPT ![p] = val], UNCHANGED object
    PROVE  /\ OthersKeep(p) /\ parcel'[p] = val
           /\ val = None => Becomes(p, <<>>, 0, <<>>)
           /\ val # None => Becomes(p, val.grantors, val.quantum, val.fds)
<1>1. parcel'[p] = val /\ \A y \in Parcels \ {p} : parcel'[y] = parcel[y]
  BY DEF PartsInv, ParcelsLaidOut
<1>2. object' = object /\ p \notin Objects
  BY ObjectsAssumption
<1>3. ASSUME NEW y \in Carriers \ {p}
      PROVE  /\ FdsOf(y)' = FdsOf(y) /\ GrantorsOf(y)' = GrantorsOf(y)
             /\ QuantumOf(y)' = QuantumOf(y)
  <2>1. y \notin Objects => y \in Parcels /\ parcel'[y] = parcel[y]
    BY <1>1 DEF Carriers
  <2> QED
    BY <1>2, <2>1 DEF FdsOf, HandleOf, ParcelFds, GrantorsOf, QuantumOf, DescOf, None
<1>4. OthersKeep(p)
  BY <1>1, <1>2, <1>3 DEF OthersKeep
<1>5. ASSUME val = None PROVE Becomes(p, <<>>, 0, <<>>)
  BY <1>1, <1>2, <1>5 DEF Becomes, FdsOf, ParcelFds, GrantorsOf, QuantumOf, None
<1>6. ASSUME val # None PROVE Becomes(p, val.grantors, val.quantum, val.fds)
  BY <1>1, <1>2, <1>6 DEF Becomes, FdsOf, ParcelFds, GrantorsOf, QuantumOf, None
<1> QED
  BY <1>1, <1>4, <1>5, <1>6

-----------------------------------------------------------------------------
\* Kinship.

\* It is mutual.
LEMMA KinIsMutual ==
    ASSUME NEW g1, NEW v1, NEW g2, NEW v2, Kin(g1, v1, g2, v2)
    PROVE  Kin(g2, v2, g1, v1)
  BY DEF Kin

\* A description without ends is everybody's kin.
LEMMA KinOfNone ==
    ASSUME NEW g1, NEW v1, NEW g2, NEW v2,
           \A i \in DOMAIN v1, j \in DOMAIN v2 : v1[i] # v2[j] \/ v1[i] = Closed
    PROVE  Kin(g1, v1, g2, v2)
  BY DEF Kin

\* What is not open on more than its original is kin of the original's kin.
LEMMA CopyIsKin ==
    ASSUME NEW g, NEW v, NEW g2, NEW v2, NEW copy, Kin(g, v, g2, v2),
           DOMAIN copy = DOMAIN v, \A i \in DOMAIN v : copy[i] \in {v[i], Closed}
    PROVE  Kin(g, copy, g2, v2)
<1> SUFFICES ASSUME NEW i \in DOMAIN copy, NEW j \in DOMAIN v2,
                    copy[i] = v2[j], copy[i] # Closed
             PROVE  /\ i = j /\ g = g2
                    /\ \A k \in DOMAIN copy \cap DOMAIN v2 :
                          copy[k] = v2[k] \/ copy[k] = Closed \/ v2[k] = Closed
  BY DEF Kin
<1>1. i \in DOMAIN v /\ v[i] = v2[j] /\ v[i] # Closed
  OBVIOUS
<1>2. /\ i = j /\ g = g2
      /\ \A k \in DOMAIN v \cap DOMAIN v2 : v[k] = v2[k] \/ v[k] = Closed \/ v2[k] = Closed
  BY <1>1 DEF Kin
<1> QED
  BY <1>2

\* A copy may lose its quantum.
Requoted(copy, q) == copy = q \/ (copy \in Int /\ copy < IntMod /\ copy \notin MessageSizes)

\* A copy is sound, and stays so when its quantum becomes one that no queue has.
LEMMA SoundCopy ==
    ASSUME NEW m, NEW g, NEW q, NEW v, NEW copy, NEW q2, Sound(m, g, q, v),
           DOMAIN copy = DOMAIN v, \A i \in DOMAIN v : copy[i] \in {v[i], Closed},
           Requoted(q2, q)
    PROVE  Sound(m, g, q2, copy)
<1>1. q2 \in Int /\ q2 < IntMod /\ Shaped(g)
  BY DEF Requoted, Sound
<1>2. ASSUME NEW pos \in DOMAIN g
      PROVE  /\ q2 \in MessageSizes => /\ g[pos].fdIndex + 1 \in DOMAIN copy
                                       /\ pos = DATAPTRPOS => g[pos].extent % q2 = 0
             /\ g[pos].fdIndex + 1 \in DOMAIN copy /\ copy[g[pos].fdIndex + 1] # Closed =>
                   g[pos].offset + g[pos].extent <= m[copy[g[pos].fdIndex + 1]]
  <2>1. /\ q \in MessageSizes => /\ g[pos].fdIndex + 1 \in DOMAIN v
                                 /\ pos = DATAPTRPOS => g[pos].extent % q = 0
        /\ g[pos].fdIndex + 1 \in DOMAIN v /\ v[g[pos].fdIndex + 1] # Closed =>
              g[pos].offset + g[pos].extent <= m[v[g[pos].fdIndex + 1]]
    BY DEF Sound
  <2>2. q2 \in MessageSizes => q2 = q
    BY DEF Requoted
  <2> DEFINE end == g[pos].offset + g[pos].extent
             k == g[pos].fdIndex + 1
  <2>3. k \in DOMAIN copy /\ copy[k] # Closed => end <= m[copy[k]]
    <3>1. k \in DOMAIN v /\ v[k] # Closed => end <= m[v[k]]
      BY <2>1
    <3> HIDE DEF k, end
    <3> QED
      BY <3>1
  <2> QED
    BY <2>1, <2>2, <2>3
<1> QED
  BY <1>1, <1>2 DEF Sound
-----------------------------------------------------------------------------
\* Steps in which one carrier changes.

\* The designs stay good when the new one is sound and nobody's kin but its own.
LEMMA DesignsStep ==
    ASSUME OwnersInv, DesignsInv, NEW x \in Carriers, OthersKeep(x),
           NEW g, NEW q, NEW v,
           GrantorsOf(x)' = g, QuantumOf(x)' = q, FilesOf(x)' = v,
           \A y \in Carriers \ {x} : FilesOf(y)' = FilesOf(y),
           memory' \in [Files -> 0..(SizeMod - 1)],
           \A y \in Carriers \ {x} : \A i \in DOMAIN FilesOf(y) :
               FilesOf(y)[i] # Closed => memory'[FilesOf(y)[i]] = memory[FilesOf(y)[i]],
           Sound(memory', g, q, v), Kin(g, v, g, v),
           \A y \in Carriers \ {x} : Kin(g, v, GrantorsOf(y), FilesOf(y))
    PROVE  DesignsInv'
<1>1. ASSUME NEW y \in Carriers
      PROVE  Sound(memory', GrantorsOf(y)', QuantumOf(y)', FilesOf(y)')
  <2>1. CASE y = x
    BY <2>1
  <2>2. CASE y # x
    <3> DEFINE gy == GrantorsOf(y)
               qy == QuantumOf(y)
               vy == FilesOf(y)
    <3>1. /\ Sound(memory, gy, qy, vy)
          /\ GrantorsOf(y)' = gy /\ QuantumOf(y)' = qy /\ FilesOf(y)' = vy
          /\ \A i \in DOMAIN vy : vy[i] # Closed => memory'[vy[i]] = memory[vy[i]]
      BY <2>2 DEF DesignsInv, OthersKeep
    <3>2. Sound(memory', gy, qy, vy)
      <4> HIDE DEF gy, qy, vy
      <4>1. ASSUME NEW pos \in DOMAIN gy,
                   gy[pos].fdIndex + 1 \in DOMAIN vy, vy[gy[pos].fdIndex + 1] # Closed
            PROVE  gy[pos].offset + gy[pos].extent <= memory'[vy[gy[pos].fdIndex + 1]]
        <5>1. gy[pos].offset + gy[pos].extent <= memory[vy[gy[pos].fdIndex + 1]]
          BY <3>1, <4>1 DEF Sound
        <5>2. memory'[vy[gy[pos].fdIndex + 1]] = memory[vy[gy[pos].fdIndex + 1]]
          BY <3>1, <4>1
        <5> QED
          BY <5>1, <5>2
      <4> QED
        BY <3>1, <4>1 DEF Sound
    <3> QED
      BY <3>1, <3>2
  <2> QED
    BY <2>1, <2>2
<1>2. ASSUME NEW y \in Carriers, NEW z \in Carriers
      PROVE  Kin(GrantorsOf(y)', FilesOf(y)', GrantorsOf(z)', FilesOf(z)')
  <2>1. CASE y = x /\ z = x
    BY <2>1
  <2>2. CASE y = x /\ z # x
    <3>1. Kin(g, v, GrantorsOf(z), FilesOf(z))
          /\ GrantorsOf(z)' = GrantorsOf(z) /\ FilesOf(z)' = FilesOf(z)
      BY <2>2 DEF OthersKeep
    <3> QED
      BY <2>2, <3>1
  <2>3. CASE y # x /\ z = x
    <3>1. Kin(g, v, GrantorsOf(y), FilesOf(y))
          /\ GrantorsOf(y)' = GrantorsOf(y) /\ FilesOf(y)' = FilesOf(y)
      BY <2>3 DEF OthersKeep
    <3>2. Kin(GrantorsOf(y), FilesOf(y), g, v)
      BY <3>1, KinIsMutual
    <3> QED
      BY <2>3, <3>1, <3>2
  <2>4. CASE y # x /\ z # x
    <3>1. /\ GrantorsOf(y)' = GrantorsOf(y) /\ FilesOf(y)' = FilesOf(y)
          /\ GrantorsOf(z)' = GrantorsOf(z) /\ FilesOf(z)' = FilesOf(z)
          /\ Kin(GrantorsOf(y), FilesOf(y), GrantorsOf(z), FilesOf(z))
      BY <2>4 DEF OthersKeep, DesignsInv
    <3> QED
      BY <3>1
  <2> QED
    BY <2>1, <2>2, <2>3, <2>4
<1> QED
  BY <1>1, <1>2 DEF DesignsInv, Carriers, Files

\* A carrier without descriptors becomes a copy of another: by dupeDesc, by a
\* conversion, by an attach.
LEMMA CopyStep ==
    ASSUME OwnersInv, DesignsInv, NEW x \in Carriers, NEW y \in Carriers, x # y,
           OthersKeep(x), FdsOf(x) = <<>>, NEW r, Copies(table, FdsOf(y), r),
           table' = r.table, memory' = memory, NEW q,
           Becomes(x, GrantorsOf(y), q, r.fds),
           Requoted(q, QuantumOf(y))
    PROVE  /\ OwnersInv' /\ DesignsInv'
           /\ \A z \in Carriers \ {x} : FilesOf(z)' = FilesOf(z)
<1>1. FdsOf(x)' = r.fds /\ GrantorsOf(x)' = GrantorsOf(y) /\ QuantumOf(x)' = q
  BY DEF Becomes
<1>2. /\ r.table \in Tables /\ HandleShape(r.fds) /\ DOMAIN r.fds = DOMAIN FdsOf(y)
      /\ \A e \in FDs : e \notin Held(r.fds) => r.table[e] = table[e]
      /\ \A e \in Held(r.fds) : e \in FDs /\ table[e] = Closed /\ r.table[e] # Closed
      /\ \A i \in DOMAIN FdsOf(y) :
            FileOf(r.table, r.fds[i]) \in {FileOf(table, FdsOf(y)[i]), Closed}
  BY DEF Copies
<1>3. Held(FdsOf(x)) = {}
  BY NobodyHolds
<1>4. /\ OwnersInv'
      /\ \A z \in Carriers \ {x} : FilesOf(z)' = FilesOf(z)
  <2>1. \A z \in Carriers \ {x} : FdsOf(z)' = FdsOf(z)
    BY DEF OthersKeep
  <2>2. \A d \in Held(r.fds) : d \in Held(FdsOf(x)) \/ table[d] = Closed
    BY <1>2
  <2>3. \A d \in FDs : table'[d] # Closed <=>
            d \in Held(r.fds) \/ (table[d] # Closed /\ d \notin Held(FdsOf(x)))
    BY <1>2, <1>3
  <2>4. \A d \in FDs : table[d] # Closed /\ d \notin Held(FdsOf(x)) => table'[d] = table[d]
    BY <1>2
  <2>5. table' \in Tables
    BY <1>2
  <2> QED
    BY <1>1, <1>2, <2>1, <2>2, <2>3, <2>4, <2>5, OwnersStep
<1> DEFINE v == FilesOf(y)
           copy == [i \in DOMAIN r.fds |-> FileOf(r.table, r.fds[i])]
<1>5. FilesOf(x)' = copy
  BY <1>1 DEF FilesOf, FileOf, NoFd, Closed
<1>6. DOMAIN copy = DOMAIN v /\ \A i \in DOMAIN v : copy[i] \in {v[i], Closed}
  BY <1>2 DEF FilesOf
<1> HIDE DEF copy, v
<1>7. /\ Sound(memory, GrantorsOf(y), QuantumOf(y), v)
      /\ \A z \in Carriers : Kin(GrantorsOf(y), v, GrantorsOf(z), FilesOf(z))
      /\ Kin(GrantorsOf(y), v, GrantorsOf(y), v)
  BY DEF DesignsInv, v
<1>8. Sound(memory', GrantorsOf(y), q, copy)
  BY <1>6, <1>7, SoundCopy
<1>9. \A z \in Carriers : Kin(GrantorsOf(y), copy, GrantorsOf(z), FilesOf(z))
  BY <1>6, <1>7, CopyIsKin
<1>10. Kin(GrantorsOf(y), copy, GrantorsOf(y), copy)
  <2>1. Kin(GrantorsOf(y), v, GrantorsOf(y), copy)
    BY <1>6, <1>7, CopyIsKin, KinIsMutual
  <2> QED
    BY <1>6, <2>1, CopyIsKin
<1>11. DesignsInv'
  <2>1. memory' \in [Files -> 0..(SizeMod - 1)]
    BY DEF DesignsInv
  <2> QED
    BY <1>1, <1>4, <1>5, <1>8, <1>9, <1>10, <2>1, DesignsStep
<1> QED
  BY <1>4, <1>11
\* A carrier gives up its descriptors, if it has any, and describes nothing that
\* a queue could be attached to.
LEMMA ClearStep ==
    ASSUME OwnersInv, DesignsInv, NEW x \in Carriers, OthersKeep(x),
           NEW g, NEW q, Becomes(x, g, q, <<>>),
           Shaped(g), q \in Int, q < IntMod, q \notin MessageSizes,
           \A d \in FDs : table'[d] = IF d \in Held(FdsOf(x)) THEN Closed ELSE table[d],
           table' \in Tables, memory' \in [Files -> 0..(SizeMod - 1)],
           \A d \in FDs : table'[d] # Closed => memory'[table'[d]] = memory[table'[d]]
    PROVE  /\ OwnersInv' /\ DesignsInv'
           /\ \A z \in Carriers \ {x} : FilesOf(z)' = FilesOf(z)
<1>1. FdsOf(x)' = <<>> /\ GrantorsOf(x)' = g /\ QuantumOf(x)' = q
  BY DEF Becomes
<1>2. HandleShape(<<>>) /\ Held(<<>>) = {} /\ DOMAIN <<>> = {}
  BY NobodyHolds
<1>3. \A z \in Carriers \ {x} : FdsOf(z)' = FdsOf(z)
  BY DEF OthersKeep
<1>4. /\ OwnersInv'
      /\ \A z \in Carriers \ {x} : FilesOf(z)' = FilesOf(z)
  <2>1. \A d \in Held(<<>>) : d \in Held(FdsOf(x)) \/ table[d] = Closed
    BY <1>2
  <2>2. \A d \in FDs : table'[d] # Closed <=>
            d \in Held(<<>>) \/ (table[d] # Closed /\ d \notin Held(FdsOf(x)))
    BY <1>2
  <2>3. \A d \in FDs : table[d] # Closed /\ d \notin Held(FdsOf(x)) => table'[d] = table[d]
    OBVIOUS
  <2> QED
    BY <1>1, <1>2, <1>3, <2>1, <2>2, <2>3, OwnersStep
<1>5. ASSUME NEW y \in Carriers \ {x}, NEW i \in DOMAIN FilesOf(y), FilesOf(y)[i] # Closed
      PROVE  memory'[FilesOf(y)[i]] = memory[FilesOf(y)[i]]
  <2> DEFINE d == FdsOf(y)[i]
  <2>1. HandleShape(FdsOf(y)) /\ i \in DOMAIN FdsOf(y) /\ FilesOf(y)[i] = FileOf(table, d)
    BY OwnersOpen
  <2>2. d \in Ends /\ (d # NoFd => d \in Held(FdsOf(y))) /\ Held(FdsOf(y)) \subseteq FDs
    BY <2>1, ShapeFacts
  <2> HIDE DEF d
  <2>3. d # NoFd /\ FilesOf(y)[i] = table[d] /\ d \in FDs
    BY <1>5, <2>1, <2>2 DEF FileOf
  <2>4. d \notin Held(FdsOf(x))
    BY <2>2, <2>3 DEF OwnersInv
  <2>5. table'[d] = table[d]
    BY <2>3, <2>4
  <2> QED
    BY <1>5, <2>3, <2>5
<1> DEFINE v == [i \in DOMAIN <<>> |-> FileOf(table', <<>>[i])]
<1>6. FilesOf(x)' = v
  BY <1>1 DEF FilesOf, FileOf, NoFd, Closed
<1>7. DOMAIN v = {}
  BY <1>2
<1> HIDE DEF v
<1>8. Sound(memory', g, q, v)
  BY <1>7 DEF Sound
<1>9. Kin(g, v, g, v) /\ \A y \in Carriers : Kin(g, v, GrantorsOf(y), FilesOf(y))
  BY <1>7, KinOfNone
<1>10. DesignsInv'
  BY <1>1, <1>4, <1>5, <1>6, <1>8, <1>9, DesignsStep
<1> QED
  BY <1>4, <1>10

\* A carrier keeps its descriptors and gets a quantum that no queue has.
LEMMA EditStep ==
    ASSUME OwnersInv, DesignsInv, NEW x \in Carriers, OthersKeep(x), NEW q,
           Becomes(x, GrantorsOf(x), q, FdsOf(x)),
           q \in Int, q < IntMod, q \notin MessageSizes,
           UNCHANGED <<table, memory>>
    PROVE  /\ OwnersInv' /\ DesignsInv'
           /\ \A z \in Carriers \ {x} : FilesOf(z)' = FilesOf(z)
<1>1. FdsOf(x)' = FdsOf(x) /\ GrantorsOf(x)' = GrantorsOf(x) /\ QuantumOf(x)' = q
  BY DEF Becomes
<1>2. \A z \in Carriers \ {x} : FdsOf(z)' = FdsOf(z)
  BY DEF OthersKeep
<1>3. /\ OwnersInv'
      /\ \A z \in Carriers \ {x} : FilesOf(z)' = FilesOf(z)
  <2> DEFINE h == FdsOf(x)
  <2>1. HandleShape(h) /\ table' \in Tables /\ table' = table
        /\ Held(h) \subseteq FDs
    BY ShapeFacts DEF OwnersInv
  <2>2. \A d \in Held(h) : table[d] # Closed
    BY <2>1 DEF OwnersInv
  <2>3. \A d \in FDs : table'[d] # Closed <=>
            d \in Held(h) \/ (table[d] # Closed /\ d \notin Held(FdsOf(x)))
    BY <2>1, <2>2
  <2>4. /\ \A d \in Held(h) : d \in Held(FdsOf(x)) \/ table[d] = Closed
        /\ \A d \in FDs : table[d] # Closed /\ d \notin Held(FdsOf(x)) => table'[d] = table[d]
    BY <2>1
  <2> QED
    BY <1>1, <1>2, <2>1, <2>3, <2>4, OwnersStep
<1> DEFINE g == GrantorsOf(x)
           v == FilesOf(x)
<1>4. FilesOf(x)' = v
  BY <1>1 DEF FilesOf, FileOf, NoFd, Closed
<1>5. /\ Sound(memory, g, QuantumOf(x), v) /\ Kin(g, v, g, v)
      /\ \A y \in Carriers : Kin(g, v, GrantorsOf(y), FilesOf(y))
      /\ memory' \in [Files -> 0..(SizeMod - 1)] /\ memory' = memory
  BY DEF DesignsInv
<1> HIDE DEF g, v
<1>6. Sound(memory', g, q, v)
  <2>1. Requoted(q, QuantumOf(x))
    BY DEF Requoted
  <2> QED
    BY <1>5, <2>1, SoundCopy
<1>7. DesignsInv'
  BY <1>1, <1>3, <1>4, <1>5, <1>6, DesignsStep DEF g
<1> QED
  BY <1>3, <1>7
\* The memory files that a constructor takes are nobody's.
LEMMA NewFilesAreFree ==
    ASSUME table \in Tables, NEW buffer, FreeFiles # {},
           buffer # NoBuffer => FreeFiles # {OwnFile}
    PROVE  /\ OwnFile \in Files /\ \A d \in FDs : table[d] # OwnFile
           /\ buffer # NoBuffer => /\ BufferFile \in Files /\ BufferFile # OwnFile
                                   /\ \A d \in FDs : table[d] # BufferFile
<1>1. FreeFiles \subseteq Nat /\ FreeFiles \subseteq Files
      /\ \A f \in FreeFiles : \A d \in FDs : table[d] # f
  BY Numbers DEF FreeFiles, InUse
<1>2. OwnFile \in FreeFiles
  BY <1>1, LeastIsLeast DEF OwnFile
<1>3. buffer # NoBuffer => BufferFile \in FreeFiles \ {OwnFile}
  <2>1. buffer # NoBuffer => FreeFiles \ {OwnFile} # {}
    BY <1>2
  <2> QED
    BY <1>1, <2>1, LeastIsLeast DEF BufferFile
<1> QED
  BY <1>1, <1>2, <1>3

\* The handle of a new queue.
LEMMA NewHandleOpens ==
    ASSUME NEW t \in Tables, NEW buffer, OwnFile \in Files,
           buffer # NoBuffer => BufferFile \in Files /\ FreeFd(t) # NoFd
    PROVE  LET r == NewHandle(t, buffer)
           IN  /\ r.table \in Tables /\ HandleShape(r.fds)
               /\ DOMAIN r.fds = IF buffer = NoBuffer THEN {1} ELSE {1, 2}
               /\ \A e \in FDs : e \notin Held(r.fds) => r.table[e] = t[e]
               /\ \A e \in Held(r.fds) : t[e] = Closed /\ r.table[e] # Closed
               /\ FileOf(r.table, r.fds[1]) \in {OwnFile, Closed}
               /\ buffer # NoBuffer => FileOf(r.table, r.fds[2]) = BufferFile
<1> DEFINE bufferFd == FreeFd(t)
           held == IF buffer = NoBuffer THEN t ELSE Opened(t, bufferFd, BufferFile)
           ashmemFd == FreeFd(held)
           r == NewHandle(t, buffer)
<1>1. /\ r.table = Opened(held, ashmemFd, OwnFile)
      /\ r.fds = IF buffer = NoBuffer THEN <<ashmemFd>> ELSE <<ashmemFd, bufferFd>>
  BY DEF NewHandle
<1>2. /\ bufferFd \in Ends /\ (bufferFd # NoFd => bufferFd \in FDs /\ t[bufferFd] = Closed)
      /\ ashmemFd \in Ends /\ (ashmemFd # NoFd => ashmemFd \in FDs /\ held[ashmemFd] = Closed)
  BY FreeFdIsFree
<1>3. held = IF buffer = NoBuffer THEN t ELSE Opened(t, bufferFd, BufferFile)
  OBVIOUS
<1> HIDE DEF r, held, ashmemFd, bufferFd
<1>4. buffer # NoBuffer => bufferFd # NoFd /\ BufferFile \in Files
  BY DEF bufferFd
<1>5. /\ held \in Tables
      /\ buffer = NoBuffer => held = t
      /\ buffer # NoBuffer => /\ held[bufferFd] = BufferFile
                              /\ \A e \in FDs : e # bufferFd => held[e] = t[e]
  BY <1>2, <1>3, <1>4 DEF Opened, Tables
<1>6. /\ r.table \in Tables
      /\ ashmemFd # NoFd => r.table[ashmemFd] = OwnFile
      /\ \A e \in FDs : e # ashmemFd => r.table[e] = held[e]
  BY <1>1, <1>2, <1>5 DEF Opened, Tables
<1>7. OwnFile # Closed /\ (buffer # NoBuffer => BufferFile # Closed)
  BY Numbers
<1>8. buffer # NoBuffer => ashmemFd # bufferFd
  BY <1>2, <1>4, <1>5, <1>7
<1>9. CASE buffer = NoBuffer
  <2>1. r.fds = <<ashmemFd>> /\ DOMAIN r.fds = {1} /\ r.fds[1] = ashmemFd
    BY <1>1, <1>9
  <2>2. Held(r.fds) = {ashmemFd} \ {NoFd}
    BY <2>1 DEF Held
  <2>3. HandleShape(r.fds)
    BY <1>2, <2>1 DEF HandleShape
  <2>4. /\ \A e \in FDs : e \notin Held(r.fds) => r.table[e] = t[e]
        /\ \A e \in Held(r.fds) : t[e] = Closed /\ r.table[e] # Closed
    BY <1>2, <1>5, <1>6, <1>7, <1>9, <2>2, Numbers
  <2>5. FileOf(r.table, r.fds[1]) \in {OwnFile, Closed}
    BY <1>6, <2>1 DEF FileOf
  <2> QED
    BY <1>6, <1>9, <2>1, <2>3, <2>4, <2>5 DEF r
<1>10. CASE buffer # NoBuffer
  <2>1. /\ r.fds = <<ashmemFd, bufferFd>> /\ DOMAIN r.fds = {1, 2}
        /\ r.fds[1] = ashmemFd /\ r.fds[2] = bufferFd
    BY <1>1, <1>10
  <2>2. Held(r.fds) = {ashmemFd, bufferFd} \ {NoFd}
    BY <2>1 DEF Held
  <2>3. HandleShape(r.fds)
    BY <1>2, <1>8, <1>10, <2>1 DEF HandleShape
  <2>4. \A e \in FDs : e \notin Held(r.fds) => r.table[e] = t[e]
    BY <1>5, <1>6, <1>10, <2>2, Numbers
  <2>5. \A e \in Held(r.fds) : t[e] = Closed /\ r.table[e] # Closed
    BY <1>2, <1>4, <1>5, <1>6, <1>7, <1>8, <1>10, <2>2
  <2>6. FileOf(r.table, r.fds[1]) \in {OwnFile, Closed}
        /\ FileOf(r.table, r.fds[2]) = BufferFile
    BY <1>2, <1>4, <1>5, <1>6, <1>8, <1>10, <2>1 DEF FileOf
  <2> QED
    BY <1>6, <1>10, <2>1, <2>3, <2>4, <2>5, <2>6 DEF r
<1> QED
  BY <1>9, <1>10

\* A whole number of messages.
LEMMA WholeMessages ==
    ASSUME NEW n \in Nat, NEW size \in Nat \ {0}
    PROVE  (n * size) % size = 0
<1> DEFINE x == n * size
           r == x % size
           k == x \div size
<1>1. x \in Int /\ r \in 0..(size - 1) /\ k \in Int /\ x = size * k + r
  <2>1. x \in Int
    OBVIOUS
  <2> HIDE DEF x
  <2> QED
    BY <2>1, DivMod
<1>2. k = n
  <2>1. n \in Int /\ 0 \in 0..(size - 1) /\ x = size * n + 0
    OBVIOUS
  <2> HIDE DEF x
  <2> QED
    BY <1>1, <2>1, DivUnique
<1>3. size * k = x
  BY <1>2
<1> HIDE DEF x, k, r
<1>4. r = 0
  <2>1. size * k \in Int
    BY <1>1, <1>3
  <2> QED
    BY <1>1, <1>3, <2>1
<1> QED
  BY <1>4 DEF r, x

\* What the constructor describes lies in the memory it describes.
LEMMA NewGrantorsFit ==
    ASSUME NEW n \in Elements, NEW size \in MessageSizes,
           NEW buffer \in BufferSizes \cup {NoBuffer}, NEW eventFlag \in BOOLEAN,
           ~Refused(n, size, buffer)
    PROVE  LET g == NewGrantors(n * size, size, eventFlag, buffer)
               own == AshmemSize(n * size, eventFlag, buffer # NoBuffer)
           IN  /\ Shaped(g) /\ own \in 0..(SizeMod - 1)
               /\ \A pos \in DOMAIN g :
                    /\ g[pos].fdIndex \in IF buffer = NoBuffer THEN {0} ELSE 0..1
                    /\ pos = DATAPTRPOS => g[pos].extent % size = 0
                    /\ g[pos].fdIndex = 0 => g[pos].offset + g[pos].extent <= own
                    /\ g[pos].fdIndex = 1 => g[pos].offset + g[pos].extent <= buffer
<1> DEFINE bytes == n * size
           g == NewGrantors(bytes, size, eventFlag, buffer)
           own == AshmemSize(bytes, eventFlag, buffer # NoBuffer)
<1>1. n \in Nat /\ size \in Nat \ {0} /\ bytes \in Nat
  BY ObjectsAssumption, Parameters
<1>2. bytes \in 0..(SizeMod - 1)
  <2>1. n <= (SizeMod - 1) \div size
    BY <1>1, Parameters DEF Refused
  <2> QED
    BY <1>1, <2>1, CountFits
<1>3. bytes % size = 0
  BY <1>1, WholeMessages
<1>4. buffer # NoBuffer => bytes <= buffer
  <2>1. ~(buffer # NoBuffer /\ bytes > buffer)
    BY DEF Refused
  <2>2. buffer # NoBuffer => buffer \in Nat
    BY ObjectsAssumption
  <2> HIDE DEF bytes
  <2> QED
    BY <1>1, <2>1, <2>2
<1>5. own \in 0..(SizeMod - 1)
  BY <1>1, WholePages
<1>6. g = IF buffer # NoBuffer THEN SuppliedRegion(bytes, eventFlag)
          ELSE IF TooLarge(bytes, size) THEN <<>> ELSE OwnRegion(bytes, eventFlag)
  BY DEF NewGrantors
<1>7. own = AshmemSize(bytes, eventFlag, buffer # NoBuffer)
  OBVIOUS
<1> HIDE DEF bytes, g, own
<1>8. CASE buffer # NoBuffer
  <2>1. g = SuppliedRegion(bytes, eventFlag) /\ own = AshmemSize(bytes, eventFlag, TRUE)
    BY <1>6, <1>7, <1>8
  <2>2. FitsMemory(g, own, bytes)
    BY <1>1, <2>1, SuppliedRegionFits
  <2>3. g = [pos \in DOMAIN g |-> g[pos]]
    BY <2>1 DEF SuppliedRegion
  <2>4. Shaped(g)
    BY <2>2, <2>3 DEF FitsMemory, Shaped
  <2>5. ASSUME NEW pos \in DOMAIN g, g[pos].fdIndex = 1
        PROVE  g[pos].offset + g[pos].extent <= buffer
    BY <1>4, <1>8, <2>2, <2>5 DEF FitsMemory
  <2>6. \A pos \in DOMAIN g :
          /\ g[pos].fdIndex \in 0..1 /\ (pos = DATAPTRPOS => g[pos].extent % size = 0)
          /\ g[pos].fdIndex = 0 => g[pos].offset + g[pos].extent <= own
    BY <1>3, <2>2 DEF FitsMemory
  <2> QED
    BY <1>5, <1>8, <2>4, <2>5, <2>6 DEF g, own, bytes
<1>9. CASE buffer = NoBuffer /\ TooLarge(bytes, size)
  <2>1. g = <<>> /\ DOMAIN g = {}
    BY <1>6, <1>9
  <2>2. Shaped(g)
    BY <2>1 DEF Shaped
  <2> QED
    BY <1>5, <2>1, <2>2 DEF g, own, bytes
<1>10. CASE buffer = NoBuffer /\ ~TooLarge(bytes, size)
  <2>1. g = OwnRegion(bytes, eventFlag) /\ own = AshmemSize(bytes, eventFlag, FALSE)
    BY <1>6, <1>7, <1>10
  <2>2. size \in Nat
    BY <1>1
  <2>3. FitsMemory(g, own, bytes) /\ \A pos \in DOMAIN g : g[pos].fdIndex = 0
    BY <1>2, <1>10, <2>1, <2>2, OwnRegionShape
  <2>4. g = [pos \in DOMAIN g |-> g[pos]]
    BY <2>1 DEF OwnRegion
  <2>5. Shaped(g)
    BY <2>3, <2>4 DEF FitsMemory, Shaped
  <2>6. \A pos \in DOMAIN g :
          /\ g[pos].fdIndex \in {0} /\ (pos = DATAPTRPOS => g[pos].extent % size = 0)
          /\ g[pos].offset + g[pos].extent <= own /\ g[pos].fdIndex # 1
    BY <1>3, <2>3 DEF FitsMemory
  <2> QED
    BY <1>5, <1>10, <2>5, <2>6 DEF g, own, bytes
<1> QED
  BY <1>8, <1>9, <1>10
\* A carrier without descriptors becomes a new queue, in memory nobody has.
LEMMA NewStep ==
    ASSUME OwnersInv, DesignsInv, NEW x \in Carriers, OthersKeep(x), FdsOf(x) = <<>>,
           NEW n \in Elements, NEW size \in MessageSizes, NEW eventFlag \in BOOLEAN,
           NEW buffer \in BufferSizes \cup {NoBuffer}, ~Refused(n, size, buffer),
           FreeFiles # {},
           buffer # NoBuffer => FreeFd(table) # NoFd /\ FreeFiles # {OwnFile},
           NEW r, r = NewHandle(table, buffer), table' = r.table,
           memory' = WithFiles(AshmemSize(n * size, eventFlag, buffer # NoBuffer), buffer),
           Becomes(x, NewGrantors(n * size, size, eventFlag, buffer), size, r.fds)
    PROVE  /\ OwnersInv' /\ DesignsInv'
           /\ \A z \in Carriers \ {x} : FilesOf(z)' = FilesOf(z)
<1> DEFINE g == NewGrantors(n * size, size, eventFlag, buffer)
           own == AshmemSize(n * size, eventFlag, buffer # NoBuffer)
           v == [i \in DOMAIN r.fds |-> FileOf(r.table, r.fds[i])]
<1>1. FdsOf(x)' = r.fds /\ GrantorsOf(x)' = g /\ QuantumOf(x)' = size
  BY DEF Becomes
<1>2. table \in Tables
  BY DEF OwnersInv
<1>3. /\ OwnFile \in Files /\ \A d \in FDs : table[d] # OwnFile
      /\ buffer # NoBuffer => /\ BufferFile \in Files /\ BufferFile # OwnFile
                              /\ \A d \in FDs : table[d] # BufferFile
  BY <1>2, NewFilesAreFree
<1>4. /\ r.table \in Tables /\ HandleShape(r.fds)
      /\ DOMAIN r.fds = IF buffer = NoBuffer THEN {1} ELSE {1, 2}
      /\ \A e \in FDs : e \notin Held(r.fds) => r.table[e] = table[e]
      /\ \A e \in Held(r.fds) : table[e] = Closed /\ r.table[e] # Closed
      /\ FileOf(r.table, r.fds[1]) \in {OwnFile, Closed}
      /\ buffer # NoBuffer => FileOf(r.table, r.fds[2]) = BufferFile
  BY <1>2, <1>3, NewHandleOpens
<1>5. Held(FdsOf(x)) = {}
  BY NobodyHolds
<1>6. /\ OwnersInv'
      /\ \A z \in Carriers \ {x} : FilesOf(z)' = FilesOf(z)
  <2>1. \A z \in Carriers \ {x} : FdsOf(z)' = FdsOf(z)
    BY DEF OthersKeep
  <2>2. \A d \in Held(r.fds) : d \in Held(FdsOf(x)) \/ table[d] = Closed
    BY <1>4
  <2>3. \A d \in FDs : table'[d] # Closed <=>
            d \in Held(r.fds) \/ (table[d] # Closed /\ d \notin Held(FdsOf(x)))
    BY <1>4, <1>5
  <2>4. \A d \in FDs : table[d] # Closed /\ d \notin Held(FdsOf(x)) => table'[d] = table[d]
    BY <1>4
  <2>5. table' \in Tables
    BY <1>4
  <2> QED
    BY <1>1, <1>4, <2>1, <2>2, <2>3, <2>4, <2>5, OwnersStep
<1>7. FilesOf(x)' = v
  BY <1>1 DEF FilesOf, FileOf, NoFd, Closed
<1>8. /\ DOMAIN v = IF buffer = NoBuffer THEN {1} ELSE {1, 2}
      /\ v[1] \in {OwnFile, Closed} /\ (buffer # NoBuffer => v[2] = BufferFile)
  BY <1>4
<1>9. /\ Shaped(g) /\ own \in 0..(SizeMod - 1)
      /\ \A pos \in DOMAIN g :
           /\ g[pos].fdIndex \in IF buffer = NoBuffer THEN {0} ELSE 0..1
           /\ pos = DATAPTRPOS => g[pos].extent % size = 0
           /\ g[pos].fdIndex = 0 => g[pos].offset + g[pos].extent <= own
           /\ g[pos].fdIndex = 1 => g[pos].offset + g[pos].extent <= buffer
  BY NewGrantorsFit
<1>10. memory' = WithFiles(own, buffer)
  OBVIOUS
<1> HIDE DEF g, own, v
<1>11. /\ memory'[OwnFile] = own
       /\ buffer # NoBuffer => memory'[BufferFile] = buffer
       /\ \A f \in Files : f # OwnFile /\ (buffer # NoBuffer => f # BufferFile) =>
             memory'[f] = memory[f]
  BY <1>3, <1>10 DEF WithFiles
<1>12. memory' \in [Files -> 0..(SizeMod - 1)]
  <2>1. memory \in [Files -> 0..(SizeMod - 1)]
    BY DEF DesignsInv
  <2>2. buffer # NoBuffer => buffer \in 0..(SizeMod - 1)
    BY ObjectsAssumption
  <2> QED
    BY <1>9, <1>10, <2>1, <2>2 DEF WithFiles
<1>13. ASSUME NEW y \in Carriers, NEW i \in DOMAIN FilesOf(y), FilesOf(y)[i] # Closed
       PROVE  /\ FilesOf(y)[i] \in Files /\ FilesOf(y)[i] # OwnFile
              /\ buffer # NoBuffer => FilesOf(y)[i] # BufferFile
  <2>1. FilesOf(y)[i] \in Files /\ \E d \in FDs : table[d] = FilesOf(y)[i]
    BY <1>13, OwnersOpen
  <2> QED
    BY <1>3, <2>1
<1>14. Sound(memory', g, size, v)
  <2>1. size \in Int /\ size < IntMod
    BY ObjectsAssumption, Parameters
  <2>2. ASSUME NEW pos \in DOMAIN g
        PROVE  /\ g[pos].fdIndex + 1 \in DOMAIN v
               /\ v[g[pos].fdIndex + 1] # Closed =>
                     g[pos].offset + g[pos].extent <= memory'[v[g[pos].fdIndex + 1]]
    <3>1. CASE g[pos].fdIndex = 0
      <4>1. g[pos].fdIndex + 1 = 1
        BY <3>1
      <4>2. v[1] # Closed => memory'[v[1]] = own
        BY <1>8, <1>11
      <4> QED
        BY <1>8, <1>9, <3>1, <4>1, <4>2
    <3>2. CASE g[pos].fdIndex = 1
      <4>1. g[pos].fdIndex + 1 = 2 /\ buffer # NoBuffer
        BY <1>9, <3>2
      <4>2. memory'[v[2]] = buffer
        BY <1>8, <1>11, <4>1
      <4> QED
        BY <1>8, <1>9, <3>2, <4>1, <4>2
    <3> QED
      BY <1>9, <3>1, <3>2
  <2> QED
    BY <1>9, <2>1, <2>2 DEF Sound
<1>15. Kin(g, v, g, v)
  BY <1>3, <1>8 DEF Kin
<1>16. ASSUME NEW y \in Carriers PROVE Kin(g, v, GrantorsOf(y), FilesOf(y))
  <2>1. \A i \in DOMAIN v, j \in DOMAIN FilesOf(y) : v[i] # FilesOf(y)[j] \/ v[i] = Closed
    BY <1>8, <1>13
  <2> QED
    BY <2>1, KinOfNone
<1>17. \A y \in Carriers \ {x} : \A i \in DOMAIN FilesOf(y) :
          FilesOf(y)[i] # Closed => memory'[FilesOf(y)[i]] = memory[FilesOf(y)[i]]
  BY <1>11, <1>13
<1>18. DesignsInv'
  BY <1>1, <1>6, <1>7, <1>12, <1>14, <1>15, <1>16, <1>17, DesignsStep
<1> QED
  BY <1>6, <1>18

-----------------------------------------------------------------------------
\* A new process, also the one that follows an aborted one.

LEMMA ObjectsInit == Init => ObjectsInv
<1> SUFFICES ASSUME Init PROVE ObjectsInv
  OBVIOUS
<1>1. /\ table = [d \in FDs |-> Closed] /\ memory = [f \in Files |-> 0]
      /\ object = [o \in Objects |-> None] /\ parcel = [p \in Parcels |-> None]
  BY DEF Init
<1>2. ASSUME NEW x \in Carriers
      PROVE  FdsOf(x) = <<>> /\ GrantorsOf(x) = <<>> /\ QuantumOf(x) = 0
  BY <1>1 DEF Carriers, FdsOf, HandleOf, ParcelFds, GrantorsOf, QuantumOf, DescOf
<1>3. HandleShape(<<>>) /\ Held(<<>>) = {} /\ DOMAIN <<>> = {}
  BY NobodyHolds
<1>4. OwnersInv
  BY <1>1, <1>2, <1>3 DEF OwnersInv, Tables
<1>5. Shaped(<<>>)
  BY DEF Shaped
<1>6. ASSUME NEW x \in Carriers PROVE DOMAIN FilesOf(x) = {}
  BY <1>2, <1>3 DEF FilesOf
<1>7. 0 \in Int /\ 0 < IntMod
  BY Parameters
<1>8. \A x \in Carriers : Sound(memory, GrantorsOf(x), QuantumOf(x), FilesOf(x))
  BY <1>2, <1>3, <1>5, <1>6, <1>7 DEF Sound
<1>9. \A x, y \in Carriers : Kin(GrantorsOf(x), FilesOf(x), GrantorsOf(y), FilesOf(y))
  BY <1>6 DEF Kin
<1>10. memory \in [Files -> 0..(SizeMod - 1)]
  BY <1>1, Parameters
<1>11. MappedInv
  BY <1>1 DEF MappedInv
<1>12. LimitInv
  BY DEF Init, LimitInv
<1> QED
  BY <1>4, <1>8, <1>9, <1>10, <1>11, <1>12, PartsInit DEF ObjectsInv, DesignsInv

LEMMA ObjectsAbort == Abort => ObjectsInv'
<1>1. Abort => Init'
  BY DEF Abort, Init, None, FDs, Files, Closed
<1>2. (Init => ObjectsInv)'
  BY ObjectsInit, PTL
<1> QED
  BY <1>1, <1>2
-----------------------------------------------------------------------------
\* What the constructors leave behind.

LEMMA ShimFields ==
    ASSUME NEW g, NEW q, NEW h
    PROVE  LET desc == Shim(g, q, h)
           IN  /\ desc # None /\ desc.grantors = g /\ desc.quantum = q /\ desc.fds = h
<1>1. Shim(g, q, h).kind = "shim" /\ None.kind = "none"
  BY DEF Shim, None
<1> QED
  BY <1>1 DEF Shim

LEMMA ObjectFields ==
    ASSUME NEW desc, NEW size, NEW maps
    PROVE  LET val == Object(desc, size, maps)
           IN  /\ val # None /\ val.kind = "object"
               /\ val.desc = desc /\ val.size = size /\ val.maps = maps
<1>1. Object(desc, size, maps).kind = "object" /\ None.kind = "none"
  BY DEF Object, None
<1> QED
  BY <1>1 DEF Object

LEMMA ParcelFields ==
    ASSUME NEW g, NEW q, NEW h
    PROVE  LET val == Parcel(g, q, h)
           IN  /\ val # None /\ val.kind = "parcel"
               /\ val.grantors = g /\ val.quantum = q /\ val.fds = h
<1>1. Parcel(g, q, h).kind = "parcel" /\ None.kind = "none"
  BY DEF Parcel, None
<1> QED
  BY <1>1 DEF Parcel

\* What is mapped for a queue covers what its descriptor describes.
LEMMA MapsAreGood ==
    ASSUME NEW g, NEW q \in MessageSizes, NEW h, NEW t \in Tables, NEW m \in [Files -> Nat],
           HandleShape(h), LaidOut(g), Shaped(g),
           \A pos \in DOMAIN g : g[pos].fdIndex + 1 \in DOMAIN h,
           MapsAll(t, m, Shim(g, q, h))
    PROVE  Mapped(Object(Shim(g, q, h), q, Maps(t, Shim(g, q, h))),
                  [i \in DOMAIN h |-> FileOf(t, h[i])])
<1> DEFINE desc == Shim(g, q, h)
           maps == Maps(t, desc)
           val == Object(desc, q, maps)
           v == [i \in DOMAIN h |-> FileOf(t, h[i])]
<1>1. desc # None /\ desc.grantors = g /\ desc.quantum = q /\ desc.fds = h
  BY ShimFields
<1>2. val.desc = desc /\ val.size = q /\ val.maps = maps
  BY ObjectFields
<1>3. \A pos \in MappedPositions(desc) :
         File(t, desc, pos) # Closed /\ Mappable(g[pos], m[File(t, desc, pos)])
  BY <1>1 DEF MapsAll
<1>4. maps = [pos \in MappedPositions(desc) |->
                 [file |-> File(t, desc, pos), pages |-> Pages(g[pos])]]
  BY <1>1 DEF Maps
<1>5. MappedPositions(desc) \subseteq DOMAIN g
  BY <1>1 DEF MappedPositions
<1>6. \A pos \in DOMAIN g : File(t, desc, pos) = FileOf(t, h[g[pos].fdIndex + 1])
  BY <1>1 DEF File
<1> HIDE DEF desc, maps, val
<1>7. ASSUME NEW pos \in MappedPositions(desc)
      PROVE  /\ g[pos].fdIndex + 1 \in DOMAIN v
             /\ maps[pos].file = v[g[pos].fdIndex + 1] /\ maps[pos].file \in Files
             /\ g[pos].offset + g[pos].extent < IntMod => Covers(maps[pos].pages, g[pos])
  <2> DEFINE i == g[pos].fdIndex + 1
             f == FileOf(t, h[i])
  <2>1. pos \in DOMAIN g /\ i \in DOMAIN h
    BY <1>5
  <2>2. File(t, desc, pos) = f /\ maps[pos].file = f /\ maps[pos].pages = Pages(g[pos])
    BY <1>4, <1>6, <2>1
  <2>3. i \in DOMAIN v /\ v[i] = f
    BY <2>1
  <2>4. h[i] \in Ends
    BY <2>1, ShapeFacts
  <2>5. f \in Files /\ Mappable(g[pos], m[f])
    <3>1. f # Closed /\ Mappable(g[pos], m[f])
      BY <1>3, <2>2
    <3> HIDE DEF i
    <3> QED
      BY <2>4, <3>1 DEF FileOf, Tables, Ends
  <2> HIDE DEF f
  <2>6. ASSUME g[pos].offset + g[pos].extent < IntMod PROVE Covers(Pages(g[pos]), g[pos])
    <3>1. Short(g[pos])
      BY <2>1, <2>6 DEF Short, LaidOut, Shaped
    <3>2. m[f] \in Nat
      BY <2>5
    <3> QED
      BY <2>5, <3>1, <3>2, MappedIsCovered
  <2> QED
    BY <2>2, <2>3, <2>5, <2>6
<1>8. DOMAIN maps = MappedPositions(desc)
  BY <1>4
<1> HIDE DEF v
<1>9. Mapped(val, v)
  BY <1>1, <1>2, <1>7, <1>8 DEF Mapped
<1> QED
  BY <1>9 DEF val, maps, desc, v

LEMMA InitMemoryStep ==
    ASSUME PartsInv, NEW o \in Objects, NEW g, NEW q \in 0..(IntMod - 1), NEW h,
           NEW size \in MessageSizes, NEW t \in Tables, NEW after,
           NEW m \in [Files -> Nat], HandleShape(h), LaidOut(g), Shaped(g),
           q \in MessageSizes => \A pos \in DOMAIN g : g[pos].fdIndex + 1 \in DOMAIN h,
           \A i \in DOMAIN h : FileOf(after, h[i]) = FileOf(t, h[i]),
           InitMemory(o, Shim(g, q, h), size, t, after, m)
    PROVE  /\ OthersKeep(o) /\ Becomes(o, g, q, h) /\ table' = after /\ memory' = m
           /\ GoodObject(object'[o], [i \in DOMAIN h |-> FileOf(after, h[i])])
<1> DEFINE desc == Shim(g, q, h)
           v == [i \in DOMAIN h |-> FileOf(t, h[i])]
<1>1. desc # None /\ desc.grantors = g /\ desc.quantum = q /\ desc.fds = h
  BY ShimFields
<1>2. v = [i \in DOMAIN h |-> FileOf(after, h[i])]
  OBVIOUS
<1>3. table' = after /\ memory' = m
  BY DEF InitMemory
<1>4. ASSUME NEW val, val # None, val.desc = desc,
             object' = [object EXCEPT ![o] = val], UNCHANGED parcel
      PROVE  OthersKeep(o) /\ Becomes(o, g, q, h) /\ object'[o] = val
  <2> HIDE DEF desc, v
  <2>1. val.desc # None
    BY <1>1, <1>4
  <2>2. OthersKeep(o) /\ object'[o] = val
        /\ Becomes(o, val.desc.grantors, val.desc.quantum, val.desc.fds)
    BY <1>4, <2>1, ObjectAlone
  <2>3. val.desc.grantors = g /\ val.desc.quantum = q /\ val.desc.fds = h
    BY <1>1, <1>4
  <2> QED
    BY <2>2, <2>3
<1>5. CASE /\ object' = [object EXCEPT ![o] = Object(desc, 0, <<>>)]
           /\ UNCHANGED parcel
  <2> DEFINE val == Object(desc, 0, <<>>)
  <2>1. val # None /\ val.kind = "object" /\ val.desc = desc /\ val.size = 0
        /\ val.maps = <<>>
    BY ObjectFields
  <2>2. object' = [object EXCEPT ![o] = val] /\ UNCHANGED parcel
    BY <1>5
  <2> HIDE DEF val, desc, v
  <2>3. OthersKeep(o) /\ Becomes(o, g, q, h) /\ object'[o] = val
    BY <1>4, <2>1, <2>2
  <2>4. GoodObject(val, v)
    BY <1>1, <2>1 DEF GoodObject
  <2>5. GoodObject(object'[o], v)
    BY <2>3, <2>4
  <2> QED
    BY <1>2, <1>3, <2>3, <2>5
<1>6. CASE /\ ~Unusable(desc, size) /\ MapsAll(t, m, desc)
           /\ object' = [object EXCEPT ![o] = Object(desc, size, Maps(t, desc))]
           /\ UNCHANGED parcel
  <2> DEFINE val == Object(desc, size, Maps(t, desc))
  <2>1. q = size
    BY <1>1, <1>6 DEF Unusable
  <2>2. val # None /\ val.kind = "object" /\ val.desc = desc /\ val.size = size
    BY ObjectFields
  <2>3. object' = [object EXCEPT ![o] = val] /\ UNCHANGED parcel
    BY <1>6
  <2>4. Mapped(val, v)
    BY <1>6, <2>1, MapsAreGood
  <2> HIDE DEF val, desc, v
  <2>5. OthersKeep(o) /\ Becomes(o, g, q, h) /\ object'[o] = val
    BY <1>4, <2>2, <2>3
  <2>6. GoodObject(val, v)
    BY <1>1, <2>2, <2>4 DEF GoodObject
  <2>7. GoodObject(object'[o], v)
    BY <2>5, <2>6
  <2> QED
    BY <1>2, <1>3, <2>5, <2>7
<1> QED
  BY <1>5, <1>6 DEF InitMemory

\* The other objects and parcels stay good.
LEMMA MappedStep ==
    ASSUME MappedInv, NEW x \in Carriers, OthersKeep(x),
           \A z \in Carriers \ {x} : FilesOf(z)' = FilesOf(z),
           x \in Objects => object'[x] = None \/ GoodObject(object'[x], FilesOf(x)'),
           x \in Parcels => parcel'[x] = None \/ parcel'[x].kind = "parcel"
    PROVE  MappedInv'
<1>1. ASSUME NEW o \in Objects, object'[o] # None PROVE GoodObject(object'[o], FilesOf(o)')
  <2>1. CASE o = x
    BY <1>1, <2>1
  <2>2. CASE o # x
    <3>1. object'[o] = object[o] /\ FilesOf(o)' = FilesOf(o)
      BY <2>2 DEF OthersKeep, Carriers
    <3>2. GoodObject(object[o], FilesOf(o))
      BY <1>1, <3>1 DEF MappedInv
    <3> QED
      BY <3>1, <3>2
  <2> QED
    BY <2>1, <2>2
<1>2. ASSUME NEW p \in Parcels, parcel'[p] # None PROVE parcel'[p].kind = "parcel"
  <2>1. CASE p = x
    BY <1>2, <2>1
  <2>2. CASE p # x
    BY <1>2, <2>2 DEF OthersKeep, MappedInv
  <2> QED
    BY <2>1, <2>2
<1>3. \A o \in Objects : (object[o] # None)' => GoodObject(object'[o], FilesOf(o)')
  BY <1>1 DEF None
<1>4. \A p \in Parcels : (parcel[p] # None)' => parcel'[p].kind = "parcel"
  BY <1>2 DEF None
<1> QED
  BY <1>3, <1>4 DEF MappedInv
-----------------------------------------------------------------------------
\* The actions.

\* What closes all descriptors of a handle closes those it holds.
LEMMA CloseAllCloses ==
    ASSUME NEW t \in Tables, NEW h
    PROVE  /\ CloseAll(t, h) \in Tables
           /\ \A d \in FDs : CloseAll(t, h)[d] = IF d \in Held(h) THEN Closed ELSE t[d]
<1>1. \A d \in FDs : (\E i \in DOMAIN h : h[i] = d) <=> d \in Held(h)
  BY Numbers DEF Held
<1> QED
  BY <1>1 DEF CloseAll, Tables

\* The descriptors of the temporary are closed again: an attach ends with copies
\* of what the parcel has, and no others.
LEMMA AttachCopies ==
    ASSUME NEW t \in Tables, NEW h, HandleShape(h), OpenIn(t, h),
           NEW temporary, temporary = DupAll(t, h),
           NEW copy, copy = DupAll(temporary.table, temporary.fds),
           NEW after, after = CloseAll(copy.table, temporary.fds)
    PROVE  /\ copy.table \in Tables
           /\ Copies(t, h, [table |-> after, fds |-> copy.fds])
           /\ \A i \in DOMAIN copy.fds :
                 FileOf(after, copy.fds[i]) = FileOf(copy.table, copy.fds[i])
<1>1. Copies(t, h, temporary)
  BY DupAllCopies
<1>2. /\ temporary.table \in Tables /\ HandleShape(temporary.fds)
      /\ OpenIn(temporary.table, temporary.fds)
  BY <1>1 DEF Copies
<1>3. Copies(temporary.table, temporary.fds, copy)
  BY <1>2, DupAllCopies
<1>4. copy.table \in Tables /\ HandleShape(copy.fds)
  BY <1>3 DEF Copies
<1>5. /\ after \in Tables
      /\ \A d \in FDs : after[d] = IF d \in Held(temporary.fds) THEN Closed
                                   ELSE copy.table[d]
  BY <1>4, CloseAllCloses
<1>6. \A i \in DOMAIN copy.fds : copy.fds[i] \in Ends /\
          (copy.fds[i] # NoFd => copy.fds[i] \in Held(copy.fds))
  BY <1>4, ShapeFacts
<1>7. ASSUME NEW e \in Held(copy.fds)
      PROVE  e \in FDs /\ t[e] = Closed /\ after[e] = copy.table[e] /\ after[e] # Closed
  <2>1. e \in FDs /\ temporary.table[e] = Closed /\ copy.table[e] # Closed
    BY <1>3 DEF Copies
  <2>2. e \notin Held(temporary.fds)
    BY <1>1, <2>1 DEF Copies
  <2>3. t[e] = Closed
    BY <1>1, <2>1, <2>2 DEF Copies
  <2> QED
    BY <1>5, <2>1, <2>2, <2>3
<1>8. ASSUME NEW e \in FDs, e \notin Held(copy.fds) PROVE after[e] = t[e]
  <2>1. copy.table[e] = temporary.table[e]
    BY <1>3, <1>8 DEF Copies
  <2>2. e \in Held(temporary.fds) => t[e] = Closed
    BY <1>1 DEF Copies
  <2>3. e \notin Held(temporary.fds) => temporary.table[e] = t[e]
    BY <1>1 DEF Copies
  <2> QED
    BY <1>5, <2>1, <2>2, <2>3
<1>9. \A i \in DOMAIN copy.fds :
          FileOf(after, copy.fds[i]) = FileOf(copy.table, copy.fds[i])
  BY <1>6, <1>7 DEF FileOf
<1>10. /\ DOMAIN copy.fds = DOMAIN h
       /\ \A i \in DOMAIN h : FileOf(after, copy.fds[i]) \in {FileOf(t, h[i]), Closed}
  <2>1. DOMAIN temporary.fds = DOMAIN h /\ DOMAIN copy.fds = DOMAIN temporary.fds
    BY <1>1, <1>3 DEF Copies
  <2>2. ASSUME NEW i \in DOMAIN h
        PROVE  FileOf(after, copy.fds[i]) \in {FileOf(t, h[i]), Closed}
    <3>1. FileOf(temporary.table, temporary.fds[i]) \in {FileOf(t, h[i]), Closed}
      BY <1>1 DEF Copies
    <3>2. FileOf(copy.table, copy.fds[i])
             \in {FileOf(temporary.table, temporary.fds[i]), Closed}
      BY <1>3, <2>1 DEF Copies
    <3> QED
      BY <1>9, <2>1, <3>1, <3>2
  <2> QED
    BY <2>1, <2>2
<1>11. OpenIn(after, copy.fds)
  BY <1>6, <1>7 DEF OpenIn
<1> DEFINE r == [table |-> after, fds |-> copy.fds]
<1>12. r.table = after /\ r.fds = copy.fds
  OBVIOUS
<1> HIDE DEF r
<1>13. Copies(t, h, r)
  BY <1>4, <1>5, <1>7, <1>8, <1>10, <1>11, <1>12 DEF Copies
<1> QED
  BY <1>4, <1>9, <1>13 DEF r

\* What each action has to show; PartsNext and LimitNext show the rest.
Kept == OwnersInv' /\ DesignsInv' /\ MappedInv'

\* A carrier without object, or with an empty parcel, has no descriptors.
LEMMA EmptyHanded ==
    /\ \A o \in Objects : object[o] = None => FdsOf(o) = <<>>
    /\ \A p \in Parcels : parcel[p] \in {None, NewParcel} => FdsOf(p) = <<>>
<1>1. \A o \in Objects : object[o] = None => FdsOf(o) = <<>>
  BY DEF FdsOf, HandleOf
<1>2. NewParcel.fds = <<>>
  BY ParcelFields DEF NewParcel
<1>3. \A p \in Parcels : p \notin Objects
  BY ObjectsAssumption
<1> QED
  BY <1>1, <1>2, <1>3 DEF FdsOf, ParcelFds

LEMMA AbortKeeps == Abort => Kept
  BY ObjectsAbort DEF Kept, ObjectsInv

\* Nothing can be attached to what has no quantum and no grantors.
LEMMA NoDesign ==
    /\ Shaped(<<>>) /\ 0 \in Int /\ 0 < IntMod /\ 0 \notin MessageSizes
    /\ 0 \in 0..(IntMod - 1)
<1>1. Shaped(<<>>)
  BY DEF Shaped
<1>2. 0 \in Int /\ 0 < IntMod /\ 0 \notin MessageSizes /\ 0 \in 0..(IntMod - 1)
  BY ObjectsAssumption, Parameters
<1> QED
  BY <1>1, <1>2

\* A carrier without descriptors that gets none leaves the table as it is.
LEMMA TableKept ==
    ASSUME OwnersInv, DesignsInv, NEW x \in Carriers, FdsOf(x) = <<>>,
           UNCHANGED <<table, memory>>
    PROVE  /\ \A d \in FDs : table'[d] = IF d \in Held(FdsOf(x)) THEN Closed ELSE table[d]
           /\ table' \in Tables /\ memory' \in [Files -> 0..(SizeMod - 1)]
           /\ \A d \in FDs : table'[d] # Closed => memory'[table'[d]] = memory[table'[d]]
  BY NobodyHolds DEF OwnersInv, DesignsInv

LEMMA GivesUpKeeps ==
    ASSUME ObjectsInv, NEW o \in Objects, GivesUp(o)
    PROVE  Kept
<1>1. PartsInv /\ OwnersInv /\ DesignsInv /\ MappedInv /\ o \in Carriers
  BY DEF ObjectsInv, Carriers
<1>2. object[o] = None /\ object' = [object EXCEPT ![o] = Empty]
      /\ UNCHANGED <<table, memory, parcel>>
  BY DEF GivesUp
<1>3. /\ Empty # None /\ Empty.kind = "object" /\ Empty.desc = None /\ Empty.size = 0
      /\ Empty.maps = <<>>
  BY ObjectFields DEF Empty
<1>4. OthersKeep(o) /\ object'[o] = Empty /\ Becomes(o, <<>>, 0, <<>>)
  BY <1>1, <1>2, <1>3, ObjectAlone
<1>5. /\ OwnersInv' /\ DesignsInv'
      /\ \A z \in Carriers \ {o} : FilesOf(z)' = FilesOf(z)
  BY <1>1, <1>2, <1>4, EmptyHanded, NoDesign, TableKept, ClearStep
<1>6. GoodObject(object'[o], FilesOf(o)')
  BY <1>3, <1>4 DEF GoodObject
<1>7. MappedInv'
  <2>1. o \notin Parcels
    BY ObjectsAssumption
  <2> QED
    BY <1>1, <1>4, <1>5, <1>6, <2>1, MappedStep
<1> QED
  BY <1>5, <1>7 DEF Kept
LEMMA ConstructKeeps ==
    ASSUME ObjectsInv, NEW o \in Objects, NEW n \in Elements, NEW size \in MessageSizes,
           NEW eventFlag \in BOOLEAN, NEW buffer \in BufferSizes \cup {NoBuffer},
           Construct(o, n, size, eventFlag, buffer)
    PROVE  Kept
<1> DEFINE r == NewHandle(table, buffer)
           m == WithFiles(AshmemSize(n * size, eventFlag, buffer # NoBuffer), buffer)
           g == NewGrantors(n * size, size, eventFlag, buffer)
           desc == Shim(g, size, r.fds)
<1>1. PartsInv /\ OwnersInv /\ DesignsInv /\ MappedInv /\ o \in Carriers
  BY DEF ObjectsInv, Carriers
<1>2. size \in Int /\ 0 < size /\ size < IntMod /\ IntMod \in Nat
  BY ObjectsAssumption, Parameters
<1>3. Uint32(size) = size
  BY <1>2 DEF Uint32
<1>4. /\ object[o] = None /\ ~Refused(n, size, buffer) /\ FreeFiles # {}
      /\ buffer # NoBuffer => FreeFd(table) # NoFd /\ FreeFiles # {OwnFile}
      /\ \/ InitMemory(o, desc, size, r.table, r.table, m)
         \/ InitMemoryAborts(desc, size, r.table, m)
  BY <1>3 DEF Construct
<1>5. CASE InitMemoryAborts(desc, size, r.table, m)
  BY <1>5, AbortKeeps DEF InitMemoryAborts
<1>6. CASE InitMemory(o, desc, size, r.table, r.table, m)
  <2>1. table \in Tables
    BY <1>1 DEF OwnersInv
  <2>2. /\ OwnFile \in Files
        /\ buffer # NoBuffer => BufferFile \in Files
    BY <1>4, <2>1, NewFilesAreFree
  <2>3. /\ r.table \in Tables /\ HandleShape(r.fds)
        /\ DOMAIN r.fds = IF buffer = NoBuffer THEN {1} ELSE {1, 2}
    BY <1>4, <2>1, <2>2, NewHandleOpens
  <2>4. LaidOut(g)
    BY <1>4, NewGrantorsLaidOut
  <2>5. /\ Shaped(g)
        /\ AshmemSize(n * size, eventFlag, buffer # NoBuffer) \in 0..(SizeMod - 1)
        /\ \A pos \in DOMAIN g : g[pos].fdIndex \in IF buffer = NoBuffer THEN {0} ELSE 0..1
    BY <1>4, NewGrantorsFit
  <2>6. m \in [Files -> Nat]
    <3>1. buffer # NoBuffer => buffer \in Nat
      BY ObjectsAssumption
    <3>2. AshmemSize(n * size, eventFlag, buffer # NoBuffer) \in Nat
      BY <2>5, Parameters
    <3>3. memory \in [Files -> Nat]
      BY <1>1, Parameters DEF DesignsInv
    <3> QED
      BY <3>1, <3>2, <3>3 DEF WithFiles
  <2>7. \A pos \in DOMAIN g : g[pos].fdIndex + 1 \in DOMAIN r.fds
    BY <2>3, <2>5
  <2>8. size \in 0..(IntMod - 1)
    BY <1>2
  <2> DEFINE v == [i \in DOMAIN r.fds |-> FileOf(r.table, r.fds[i])]
  <2>9. /\ OthersKeep(o) /\ Becomes(o, g, size, r.fds) /\ table' = r.table /\ memory' = m
        /\ GoodObject(object'[o], v)
    <3> HIDE DEF r, m, g
    <3> QED
      BY <1>1, <1>6, <2>3, <2>4, <2>5, <2>6, <2>7, <2>8, InitMemoryStep
  <2>10. FdsOf(o) = <<>>
    BY <1>4, EmptyHanded
  <2>11. /\ OwnersInv' /\ DesignsInv'
         /\ \A z \in Carriers \ {o} : FilesOf(z)' = FilesOf(z)
    BY <1>1, <1>4, <2>9, <2>10, NewStep
  <2>12. FilesOf(o)' = v
    <3> HIDE DEF r
    <3> QED
      BY <2>9 DEF Becomes, FilesOf, FileOf, NoFd, Closed
  <2>13. MappedInv'
    <3>1. o \notin Parcels
      BY ObjectsAssumption
    <3> HIDE DEF v
    <3> QED
      BY <1>1, <2>9, <2>11, <2>12, <3>1, MappedStep
  <2> QED
    BY <2>11, <2>13 DEF Kept
<1> QED
  BY <1>4, <1>5, <1>6

LEMMA AttachKeeps ==
    ASSUME ObjectsInv, NEW o \in Objects, NEW p \in Parcels, NEW size \in MessageSizes,
           Attach(o, p, size)
    PROVE  Kept
<1>1. PartsInv /\ OwnersInv /\ DesignsInv /\ MappedInv /\ o \in Carriers /\ p \in Carriers
      /\ o # p /\ o \notin Parcels /\ p \notin Objects
  BY ObjectsAssumption DEF ObjectsInv, Carriers
<1>2. object[o] = None /\ parcel[p] # None /\ FdsOf(o) = <<>>
  BY EmptyHanded DEF Attach
<1>3. CASE Negative(p)
  <2> DEFINE val == Object(Malformed, 0, <<>>)
  <2>1. object' = [object EXCEPT ![o] = val] /\ UNCHANGED <<table, memory, parcel>>
    BY <1>3 DEF Attach
  <2>2. val # None /\ val.kind = "object" /\ val.desc = Malformed /\ val.size = 0
        /\ val.maps = <<>>
    BY ObjectFields
  <2>3. /\ Malformed # None /\ Malformed.grantors = <<>>
        /\ Malformed.quantum = 0 /\ Malformed.fds = <<>>
    <3>1. Malformed.kind = "shim" /\ None.kind = "none"
      BY DEF Malformed, None
    <3> QED
      BY <3>1 DEF Malformed
  <2> HIDE DEF val
  <2>4. OthersKeep(o) /\ object'[o] = val /\ Becomes(o, <<>>, 0, <<>>)
    BY <1>1, <2>1, <2>2, <2>3, ObjectAlone
  <2>5. /\ OwnersInv' /\ DesignsInv'
        /\ \A z \in Carriers \ {o} : FilesOf(z)' = FilesOf(z)
    BY <1>1, <1>2, <2>1, <2>4, NoDesign, TableKept, ClearStep
  <2>6. GoodObject(object'[o], FilesOf(o)')
    BY <2>2, <2>3, <2>4, NoDesign DEF GoodObject
  <2>7. MappedInv'
    BY <1>1, <2>4, <2>5, <2>6, MappedStep
  <2> QED
    BY <2>5, <2>7 DEF Kept
<1>4. CASE ~Negative(p)
  <2> DEFINE h == FdsOf(p)
             g == GrantorsOf(p)
             q == QuantumOf(p)
             temporary == DupAll(table, h)
             copy == DupAll(temporary.table, temporary.fds)
             after == CloseAll(copy.table, temporary.fds)
             desc == Shim(g, q, copy.fds)
             v == [i \in DOMAIN copy.fds |-> FileOf(after, copy.fds[i])]
             r == [table |-> after, fds |-> copy.fds]
  <2>1. h = parcel[p].fds /\ g = parcel[p].grantors /\ q = parcel[p].quantum
    BY <1>1, <1>2 DEF FdsOf, ParcelFds, GrantorsOf, QuantumOf
  <2>2. \/ InitMemory(o, desc, size, copy.table, after, memory)
        \/ InitMemoryAborts(desc, size, copy.table, memory)
    BY <1>4, <2>1 DEF Attach
  <2>3. CASE InitMemoryAborts(desc, size, copy.table, memory)
    BY <2>3, AbortKeeps DEF InitMemoryAborts
  <2>4. CASE InitMemory(o, desc, size, copy.table, after, memory)
    <3>1. table \in Tables /\ HandleShape(h) /\ OpenIn(table, h)
      BY <1>1, OwnersOpen DEF OwnersInv
    <3>2. /\ copy.table \in Tables /\ Copies(table, h, r)
          /\ \A i \in DOMAIN copy.fds :
                FileOf(after, copy.fds[i]) = FileOf(copy.table, copy.fds[i])
      BY <3>1, AttachCopies
    <3>3. r.table = after /\ r.fds = copy.fds
      OBVIOUS
    <3>4. Sound(memory, g, q, FilesOf(p)) /\ DOMAIN FilesOf(p) = DOMAIN h
      BY <1>1, OwnersOpen DEF DesignsInv
    <3>5. LaidOut(g)
      BY <1>1, <1>2, <2>1 DEF PartsInv, ParcelsLaidOut
    <3>6. q \in 0..(IntMod - 1)
      <4>1. ~(q < 0)
        BY <1>4, <2>1 DEF Negative
      <4>2. q \in Int /\ q < IntMod
        BY <3>4 DEF Sound
      <4> HIDE DEF q
      <4> QED
        BY <4>1, <4>2, Parameters
    <3>7. memory \in [Files -> Nat]
      BY <1>1, Parameters DEF DesignsInv
    <3> HIDE DEF h, g, q, temporary, copy, after, r
    <3>8. HandleShape(copy.fds) /\ DOMAIN copy.fds = DOMAIN h
      BY <3>2, <3>3 DEF Copies
    <3>9. Shaped(g) /\ (q \in MessageSizes =>
              \A pos \in DOMAIN g : g[pos].fdIndex + 1 \in DOMAIN copy.fds)
      BY <3>4, <3>8 DEF Sound
    <3>10. /\ OthersKeep(o) /\ Becomes(o, g, q, copy.fds) /\ table' = after
           /\ memory' = memory /\ GoodObject(object'[o], v)
      BY <1>1, <2>4, <3>2, <3>5, <3>6, <3>7, <3>8, <3>9, InitMemoryStep
    <3>11. /\ OwnersInv' /\ DesignsInv'
           /\ \A z \in Carriers \ {o} : FilesOf(z)' = FilesOf(z)
      <4>1. /\ Copies(table, FdsOf(p), r) /\ table' = r.table /\ memory' = memory
            /\ Becomes(o, GrantorsOf(p), QuantumOf(p), r.fds)
        BY <3>2, <3>3, <3>10 DEF h, g, q
      <4>2. OwnersInv /\ DesignsInv /\ o \in Carriers /\ p \in Carriers /\ o # p
            /\ OthersKeep(o) /\ FdsOf(o) = <<>>
        BY <1>1, <1>2, <3>10
      <4>3. Requoted(QuantumOf(p), QuantumOf(p))
        BY DEF Requoted
      <4> QED
        BY <4>1, <4>2, <4>3, CopyStep
    <3>12. FilesOf(o)' = v
      BY <3>10 DEF Becomes, FilesOf, FileOf, NoFd, Closed
    <3>13. MappedInv'
      <4> HIDE DEF v
      <4> QED
        BY <1>1, <3>10, <3>11, <3>12, MappedStep
    <3> QED
      BY <3>11, <3>13 DEF Kept
  <2> QED
    BY <2>2, <2>3, <2>4
<1> QED
  BY <1>3, <1>4
\* The casts change nothing in what is laid out.
LEMMA ParceledIsSame ==
    ASSUME NEW g, LaidOut(g), Shaped(g)
    PROVE  [pos \in DOMAIN g |-> Parceled(g[pos])] = g
<1>1. ASSUME NEW pos \in DOMAIN g PROVE Parceled(g[pos]) = g[pos]
  <2>1. g[pos].offset \in 0..IntMax /\ g[pos].fdIndex \in 0..1
    BY DEF LaidOut
  <2>2. 0..1 \subseteq 0..IntMax
    BY Parameters
  <2>3. Int32(g[pos].offset) = g[pos].offset /\ Int32(g[pos].fdIndex) = g[pos].fdIndex
    BY <2>1, <2>2, ShortOffset
  <2> QED
    BY <2>3 DEF Parceled, Shaped
<1> QED
  BY <1>1 DEF Shaped

\* When every grantor fits, a conversion pushes them all.
LEMMA PushedIsSame ==
    ASSUME NEW g, LaidOut(g), Shaped(g), \A pos \in DOMAIN g : Fits(g[pos])
    PROVE  Pushed(g) = g
<1>1. {k \in DOMAIN g : Fits(g[k]) /\ \A j \in DOMAIN g : j < k => Fits(g[j])} = DOMAIN g
  OBVIOUS
<1>2. Pushed(g) = [pos \in DOMAIN g |-> Parceled(g[pos])]
  BY <1>1 DEF Pushed
<1> QED
  BY <1>2, ParceledIsSame

\* What is left of a quantum.
LEMMA QuantumSurvives ==
    ASSUME NEW q \in 0..(IntMod - 1)
    PROVE  Requoted(Int32(q), q) /\ Requoted(0, q)
<1>1. q \in Nat /\ q < IntMod /\ IntMod \in Nat \ {0}
  BY Parameters
<1>2. Int32(q) = q \/ Int32(q) < 0
  BY <1>1, IntOfUnsigned
<1>3. Int32(q) \in Int
  BY <1>1 DEF Int32, Uint32
<1>4. \A s \in MessageSizes : s \in Int /\ s > 0
  BY ObjectsAssumption, Parameters
<1>5. ASSUME Int32(q) = q PROVE Requoted(Int32(q), q)
  BY <1>5 DEF Requoted
<1>6. ASSUME Int32(q) < 0 PROVE Requoted(Int32(q), q)
  <2>1. Int32(q) < IntMod /\ Int32(q) \notin MessageSizes
    BY <1>1, <1>3, <1>4, <1>6
  <2> QED
    BY <1>3, <2>1 DEF Requoted
<1>7. Requoted(0, q)
  BY NoDesign DEF Requoted
<1> QED
  BY <1>2, <1>5, <1>6, <1>7

\* A parcel without descriptors becomes a copy of an object's.
LEMMA DescribeKeeps ==
    ASSUME ObjectsInv, NEW o \in Objects, NEW p \in Parcels,
           object[o] # None, object[o].desc # None, FdsOf(p) = <<>>,
           NEW q, Requoted(q, object[o].desc.quantum),
           NEW copy, copy = DupAll(table, object[o].desc.fds), table' = copy.table,
           parcel' = [parcel EXCEPT ![p] = Parcel(object[o].desc.grantors, q, copy.fds)],
           UNCHANGED <<memory, object>>
    PROVE  Kept
<1> DEFINE val == Parcel(object[o].desc.grantors, q, copy.fds)
<1>1. PartsInv /\ OwnersInv /\ DesignsInv /\ MappedInv /\ o \in Carriers /\ p \in Carriers
      /\ o # p /\ o \notin Parcels /\ p \notin Objects
  BY ObjectsAssumption DEF ObjectsInv, Carriers
<1>2. /\ FdsOf(o) = object[o].desc.fds /\ GrantorsOf(o) = object[o].desc.grantors
      /\ QuantumOf(o) = object[o].desc.quantum
  BY <1>1 DEF FdsOf, HandleOf, GrantorsOf, QuantumOf, DescOf
<1>3. /\ val # None /\ val.kind = "parcel"
      /\ val.grantors = GrantorsOf(o) /\ val.quantum = q /\ val.fds = copy.fds
  BY <1>2, ParcelFields
<1>4. parcel' = [parcel EXCEPT ![p] = val] /\ UNCHANGED object
  OBVIOUS
<1> HIDE DEF val
<1>5. OthersKeep(p) /\ parcel'[p] = val /\ Becomes(p, GrantorsOf(o), q, copy.fds)
  <2>1. OthersKeep(p) /\ parcel'[p] = val /\ Becomes(p, val.grantors, val.quantum, val.fds)
    BY <1>1, <1>3, <1>4, ParcelAlone
  <2> QED
    BY <1>3, <2>1
<1>6. Copies(table, FdsOf(o), copy)
  <2>1. table \in Tables /\ HandleShape(FdsOf(o)) /\ OpenIn(table, FdsOf(o))
    BY <1>1, OwnersOpen DEF OwnersInv
  <2> QED
    BY <1>2, <2>1, DupAllCopies
<1>7. /\ OwnersInv' /\ DesignsInv'
      /\ \A z \in Carriers \ {p} : FilesOf(z)' = FilesOf(z)
  <2>1. Requoted(q, QuantumOf(o)) /\ memory' = memory
    BY <1>2
  <2> QED
    BY <1>1, <1>5, <1>6, <2>1, CopyStep
<1>8. MappedInv'
  BY <1>1, <1>3, <1>5, <1>7, MappedStep
<1> QED
  BY <1>7, <1>8 DEF Kept

\* A parcel without descriptors gets grantors that no queue can be attached to.
LEMMA BlankKeeps ==
    ASSUME ObjectsInv, NEW p \in Parcels, FdsOf(p) = <<>>, NEW g, Shaped(g),
           parcel' = [parcel EXCEPT ![p] = Parcel(g, 0, <<>>)],
           UNCHANGED <<table, memory, object>>
    PROVE  Kept
<1> DEFINE val == Parcel(g, 0, <<>>)
<1>1. PartsInv /\ OwnersInv /\ DesignsInv /\ MappedInv /\ p \in Carriers /\ p \notin Objects
  BY ObjectsAssumption DEF ObjectsInv, Carriers
<1>2. /\ val # None /\ val.kind = "parcel"
      /\ val.grantors = g /\ val.quantum = 0 /\ val.fds = <<>>
  BY ParcelFields
<1>3. parcel' = [parcel EXCEPT ![p] = val] /\ UNCHANGED object
  OBVIOUS
<1> HIDE DEF val
<1>4. OthersKeep(p) /\ parcel'[p] = val /\ Becomes(p, g, 0, <<>>)
  <2>1. OthersKeep(p) /\ parcel'[p] = val /\ Becomes(p, val.grantors, val.quantum, val.fds)
    BY <1>1, <1>2, <1>3, ParcelAlone
  <2> QED
    BY <1>2, <2>1
<1>5. /\ OwnersInv' /\ DesignsInv'
      /\ \A z \in Carriers \ {p} : FilesOf(z)' = FilesOf(z)
  BY <1>1, <1>4, NoDesign, TableKept, ClearStep
<1>6. MappedInv'
  BY <1>1, <1>2, <1>4, <1>5, MappedStep
<1> QED
  BY <1>5, <1>6 DEF Kept

\* An object's descriptor is laid out, shaped, and has an unsigned quantum.
LEMMA DescFacts ==
    ASSUME ObjectsInv, NEW o \in Objects, object[o] # None, object[o].desc # None
    PROVE  /\ LaidOut(object[o].desc.grantors) /\ Shaped(object[o].desc.grantors)
           /\ object[o].desc.quantum \in 0..(IntMod - 1)
<1>1. GrantorsOf(o) = object[o].desc.grantors /\ o \in Carriers
  BY DEF GrantorsOf, DescOf, Carriers
<1>2. Shaped(GrantorsOf(o))
  BY <1>1 DEF ObjectsInv, DesignsInv, Sound
<1>3. LaidOut(object[o].desc.grantors)
  BY DEF ObjectsInv, PartsInv, ObjectsLaidOut
<1>4. object[o].desc.quantum \in 0..(IntMod - 1)
  BY DEF ObjectsInv, MappedInv, GoodObject
<1> QED
  BY <1>1, <1>2, <1>3, <1>4

LEMMA DupeDescKeeps ==
    ASSUME ObjectsInv, NEW o \in Objects, NEW p \in Parcels, DupeDesc(o, p)
    PROVE  Kept
<1>1. object[o] # None /\ FdsOf(p) = <<>>
  BY EmptyHanded DEF DupeDesc
<1>2. CASE /\ parcel' = [parcel EXCEPT ![p] = Parcel(<<>>, 0, <<>>)]
           /\ UNCHANGED <<table, memory, object>>
  BY <1>1, <1>2, NoDesign, BlankKeeps
<1>3. ASSUME object[o].desc # None, NEW copy, copy = DupAll(table, object[o].desc.fds),
             table' = copy.table, UNCHANGED <<memory, object>>,
             parcel' = [parcel EXCEPT ![p] =
                Parcel([pos \in DOMAIN object[o].desc.grantors |->
                           Parceled(object[o].desc.grantors[pos])],
                       Int32(object[o].desc.quantum), copy.fds)]
      PROVE  Kept
  <2> DEFINE g == object[o].desc.grantors
             q == object[o].desc.quantum
             new == Int32(q)
  <2>1. LaidOut(g) /\ Shaped(g) /\ q \in 0..(IntMod - 1)
    BY <1>1, <1>3, DescFacts
  <2>2. [pos \in DOMAIN g |-> Parceled(g[pos])] = g
    BY <2>1, ParceledIsSame
  <2>3. Requoted(new, q)
    BY <2>1, QuantumSurvives
  <2>4. parcel' = [parcel EXCEPT ![p] = Parcel(g, new, copy.fds)]
    BY <1>3, <2>2
  <2>5. /\ object[o].desc # None /\ copy = DupAll(table, object[o].desc.fds)
        /\ table' = copy.table /\ UNCHANGED <<memory, object>>
    BY <1>3
  <2> HIDE DEF new
  <2> QED
    BY <1>1, <2>3, <2>4, <2>5, DescribeKeeps
<1>4. CASE Abort
  BY <1>4, AbortKeeps
<1> QED
  BY <1>2, <1>3, <1>4 DEF DupeDesc

LEMMA ConvertKeeps ==
    ASSUME ObjectsInv, NEW o \in Objects, NEW p \in Parcels, NEW flagsFit \in BOOLEAN,
           Convert(o, p, flagsFit)
    PROVE  Kept
<1> DEFINE g == object[o].desc.grantors
           q == object[o].desc.quantum
           new == IF flagsFit /\ Int32(q) >= 0 THEN Int32(q) ELSE 0
           copy == DupAll(table, object[o].desc.fds)
<1>1. object[o] # None /\ object[o].desc # None /\ FdsOf(p) = <<>>
  BY EmptyHanded DEF Convert
<1>2. /\ \A pos \in DOMAIN g : Fits(g[pos])
      /\ table' = copy.table /\ UNCHANGED <<memory, object>>
      /\ parcel' = [parcel EXCEPT ![p] = Parcel(Pushed(g), new, copy.fds)]
  BY DEF Convert
<1>3. LaidOut(g) /\ Shaped(g) /\ q \in 0..(IntMod - 1)
  BY <1>1, DescFacts
<1>4. Pushed(g) = g
  BY <1>2, <1>3, PushedIsSame
<1>5. Requoted(new, q)
  BY <1>3, QuantumSurvives
<1> HIDE DEF new
<1>6. parcel' = [parcel EXCEPT ![p] = Parcel(g, new, copy.fds)]
  BY <1>2, <1>4
<1> QED
  BY <1>1, <1>2, <1>5, <1>6, DescribeKeeps

LEMMA ConvertGivesUpKeeps ==
    ASSUME ObjectsInv, NEW o \in Objects, NEW p \in Parcels, NEW wide,
           ConvertGivesUp(o, p, wide)
    PROVE  Kept
<1> DEFINE hidl == HidlGrantors(o, wide)
           part == Pushed(hidl)
<1>1. /\ object[o] # None /\ object[o].desc # None /\ FdsOf(p) = <<>>
      /\ parcel' = [parcel EXCEPT ![p] = Parcel(part, 0, <<>>)]
      /\ UNCHANGED <<table, memory, object>>
  BY EmptyHanded DEF ConvertGivesUp
<1>2. Shaped(object[o].desc.grantors)
  BY <1>1, DescFacts
<1>3. /\ DOMAIN hidl = DOMAIN object[o].desc.grantors
      /\ \A pos \in DOMAIN hidl :
            Fits(hidl[pos]) => hidl[pos] = object[o].desc.grantors[pos]
  BY SpoiledDoesNotFit
<1> HIDE DEF hidl
<1>4. Shaped(part)
  <2>1. part = [pos \in DOMAIN part |-> part[pos]]
    BY DEF Pushed
  <2>2. ASSUME NEW pos \in DOMAIN part
        PROVE  /\ part[pos] = Grantor(part[pos].fdIndex, part[pos].offset, part[pos].extent)
               /\ part[pos].extent \in Nat
    <3>1. pos \in DOMAIN hidl /\ Fits(hidl[pos]) /\ part[pos] = Parceled(hidl[pos])
      BY DEF Pushed
    <3>2. hidl[pos].extent \in Nat
      BY <1>2, <1>3, <3>1 DEF Shaped
    <3> HIDE DEF part
    <3> QED
      BY <3>1, <3>2 DEF Parceled, Grantor
  <2> QED
    BY <2>1, <2>2 DEF Shaped
<1> QED
  BY <1>1, <1>4, BlankKeeps
\* When a carrier closes what it has, the files that others hold keep their
\* memory.
LEMMA GoneKeeps ==
    ASSUME OwnersInv, DesignsInv, NEW h,
           table' = CloseAll(table, h), FilesGo
    PROVE  /\ \A d \in FDs : table'[d] = IF d \in Held(h) THEN Closed ELSE table[d]
           /\ table' \in Tables /\ memory' \in [Files -> 0..(SizeMod - 1)]
           /\ \A d \in FDs : table'[d] # Closed => memory'[table'[d]] = memory[table'[d]]
<1>1. table \in Tables /\ memory \in [Files -> 0..(SizeMod - 1)]
  BY DEF OwnersInv, DesignsInv
<1>2. /\ table' \in Tables
      /\ \A d \in FDs : table'[d] = IF d \in Held(h) THEN Closed ELSE table[d]
  BY <1>1, CloseAllCloses
<1>3. \A f \in Files : memory'[f] \in {memory[f], 0}
  BY DEF FilesGo
<1>4. memory' \in [Files -> 0..(SizeMod - 1)]
  <2>1. 0 \in 0..(SizeMod - 1)
    BY Parameters
  <2>2. memory' = [f \in Files |-> memory'[f]]
    BY DEF FilesGo
  <2> QED
    BY <1>1, <1>3, <2>1, <2>2
<1>5. ASSUME NEW d \in FDs, table'[d] # Closed
      PROVE  memory'[table'[d]] = memory[table'[d]]
  <2>1. table'[d] \in Files
    BY <1>2, <1>5 DEF Tables
  <2>2. \A f \in Files : (\E e \in FDs : table'[e] = f) => memory'[f] = memory[f]
    BY DEF FilesGo, InUse, FDs
  <2> QED
    BY <2>1, <2>2
<1> QED
  BY <1>2, <1>4, <1>5

LEMMA DropParcelKeeps ==
    ASSUME ObjectsInv, NEW p \in Parcels, DropParcel(p)
    PROVE  Kept
<1>1. PartsInv /\ OwnersInv /\ DesignsInv /\ MappedInv /\ p \in Carriers /\ p \notin Objects
  BY ObjectsAssumption DEF ObjectsInv, Carriers
<1>2. /\ table' = CloseAll(table, FdsOf(p)) /\ FilesGo
      /\ parcel' = [parcel EXCEPT ![p] = None] /\ UNCHANGED object
  BY <1>1 DEF DropParcel, FdsOf, ParcelFds
<1>3. OthersKeep(p) /\ parcel'[p] = None /\ Becomes(p, <<>>, 0, <<>>)
  BY <1>1, <1>2, ParcelAlone
<1>4. /\ \A d \in FDs : table'[d] = IF d \in Held(FdsOf(p)) THEN Closed ELSE table[d]
      /\ table' \in Tables /\ memory' \in [Files -> 0..(SizeMod - 1)]
      /\ \A d \in FDs : table'[d] # Closed => memory'[table'[d]] = memory[table'[d]]
  BY <1>1, <1>2, GoneKeeps
<1>5. /\ OwnersInv' /\ DesignsInv'
      /\ \A z \in Carriers \ {p} : FilesOf(z)' = FilesOf(z)
  BY <1>1, <1>3, <1>4, NoDesign, ClearStep
<1>6. MappedInv'
  BY <1>1, <1>3, <1>5, MappedStep
<1> QED
  BY <1>5, <1>6 DEF Kept

LEMMA DestroyKeeps ==
    ASSUME ObjectsInv, NEW o \in Objects, Destroy(o)
    PROVE  Kept
<1>1. PartsInv /\ OwnersInv /\ DesignsInv /\ MappedInv /\ o \in Carriers /\ o \notin Parcels
  BY ObjectsAssumption DEF ObjectsInv, Carriers
<1>2. /\ object[o] # None /\ FilesGo
      /\ object' = [object EXCEPT ![o] = None] /\ UNCHANGED parcel
      /\ table' = IF object[o].desc = None THEN table
                  ELSE CloseAll(table, object[o].desc.fds)
  BY DEF Destroy
<1>3. table' = CloseAll(table, FdsOf(o))
  <2>1. CASE object[o].desc # None
    BY <1>2, <2>1 DEF FdsOf, HandleOf
  <2>2. CASE object[o].desc = None
    <3>1. FdsOf(o) = <<>> /\ table' = table
      BY <1>2, <2>2 DEF FdsOf, HandleOf
    <3>2. CloseAll(table, <<>>) = table
      BY <1>1 DEF CloseAll, OwnersInv, Tables
    <3> QED
      BY <3>1, <3>2
  <2> QED
    BY <2>1, <2>2
<1>4. OthersKeep(o) /\ object'[o] = None /\ Becomes(o, <<>>, 0, <<>>)
  BY <1>1, <1>2, ObjectAlone
<1>5. /\ \A d \in FDs : table'[d] = IF d \in Held(FdsOf(o)) THEN Closed ELSE table[d]
      /\ table' \in Tables /\ memory' \in [Files -> 0..(SizeMod - 1)]
      /\ \A d \in FDs : table'[d] # Closed => memory'[table'[d]] = memory[table'[d]]
  BY <1>1, <1>2, <1>3, GoneKeeps
<1>6. /\ OwnersInv' /\ DesignsInv'
      /\ \A z \in Carriers \ {o} : FilesOf(z)' = FilesOf(z)
  BY <1>1, <1>4, <1>5, NoDesign, ClearStep
<1>7. MappedInv'
  BY <1>1, <1>4, <1>6, MappedStep
<1> QED
  BY <1>6, <1>7 DEF Kept

LEMMA EditQuantumKeeps ==
    ASSUME ObjectsInv, NEW p \in Parcels, NEW q \in Quanta, EditQuantum(p, q)
    PROVE  Kept
<1> DEFINE val == Parcel(GrantorsOf(p), q, FdsOf(p))
<1>1. PartsInv /\ OwnersInv /\ DesignsInv /\ MappedInv /\ p \in Carriers /\ p \notin Objects
  BY ObjectsAssumption DEF ObjectsInv, Carriers
<1>2. parcel[p] # None /\ UNCHANGED <<table, memory, object>>
  BY DEF EditQuantum
<1>3. GrantorsOf(p) = parcel[p].grantors /\ FdsOf(p) = parcel[p].fds
  BY <1>1, <1>2 DEF GrantorsOf, FdsOf, ParcelFds
<1>4. parcel' = [parcel EXCEPT ![p] = val]
  <2>1. parcel' = [parcel EXCEPT ![p] = Parcel(parcel[p].grantors, q, parcel[p].fds)]
    BY <1>1 DEF EditQuantum, PartsInv, ParcelsLaidOut
  <2> QED
    BY <1>3, <2>1
<1>5. /\ val # None /\ val.kind = "parcel"
      /\ val.grantors = GrantorsOf(p) /\ val.quantum = q /\ val.fds = FdsOf(p)
  BY ParcelFields
<1> HIDE DEF val
<1>6. OthersKeep(p) /\ parcel'[p] = val /\ Becomes(p, GrantorsOf(p), q, FdsOf(p))
  <2>1. OthersKeep(p) /\ parcel'[p] = val /\ Becomes(p, val.grantors, val.quantum, val.fds)
    BY <1>1, <1>2, <1>4, <1>5, ParcelAlone
  <2> QED
    BY <1>5, <2>1
<1>7. q \in Int /\ q < IntMod /\ q \notin MessageSizes
  <2>1. q \in Int32(IntMod \div 2)..IntMax /\ q \notin MessageSizes
    BY ObjectsAssumption
  <2>2. IntMax < IntMod /\ IntMax \in Int /\ IntMod \in Int
    BY Parameters
  <2> QED
    BY <2>1, <2>2
<1>8. /\ OwnersInv' /\ DesignsInv'
      /\ \A z \in Carriers \ {p} : FilesOf(z)' = FilesOf(z)
  BY <1>1, <1>2, <1>6, <1>7, EditStep
<1>9. MappedInv'
  BY <1>1, <1>5, <1>6, <1>8, MappedStep
<1> QED
  BY <1>8, <1>9 DEF Kept

LEMMA StutterKeeps == ASSUME ObjectsInv, UNCHANGED vars PROVE Kept
<1>1. table' = table /\ memory' = memory /\ object' = object /\ parcel' = parcel
  BY DEF vars
<1>2. \A x : FdsOf(x)' = FdsOf(x)
  BY <1>1 DEF FdsOf, HandleOf, ParcelFds, None
<1>3. \A x : GrantorsOf(x)' = GrantorsOf(x) /\ QuantumOf(x)' = QuantumOf(x)
  BY <1>1 DEF GrantorsOf, QuantumOf, DescOf, None
<1>4. \A x : FilesOf(x)' = FilesOf(x)
  BY <1>1, <1>2 DEF FilesOf, FileOf, NoFd, Closed
<1>5. OwnersInv'
  BY <1>1, <1>2 DEF ObjectsInv, OwnersInv, Carriers, Tables, Files, FDs, Closed
<1>6. DesignsInv'
  BY <1>1, <1>3, <1>4 DEF ObjectsInv, DesignsInv, Carriers, Files
<1>7. MappedInv'
  BY <1>1, <1>4 DEF ObjectsInv, MappedInv, None
<1> QED
  BY <1>5, <1>6, <1>7 DEF Kept

\* A process keeps its limit; the one that follows has a limit too.
LEMMA LimitNext == ASSUME LimitInv, [Next]_vars PROVE LimitInv'
<1>1. CASE UNCHANGED limit
  BY <1>1 DEF LimitInv
<1>2. CASE Abort
  BY <1>2 DEF Abort, LimitInv
<1>3. ASSUME NEW o, NEW desc, NEW size, NEW t, NEW after, NEW m,
             InitMemory(o, desc, size, t, after, m) \/ InitMemoryAborts(desc, size, t, m)
      PROVE  UNCHANGED limit \/ Abort
  BY <1>3 DEF InitMemory, InitMemoryAborts
<1>4. CASE \E o \in Objects, size \in MessageSizes :
         \/ \E n \in Elements, buffer \in BufferSizes \cup {NoBuffer} :
              \/ ConstructRefused(o, n, size, buffer)
              \/ ConstructAborts(o, n, size, buffer)
              \/ \E eventFlag \in BOOLEAN : Construct(o, n, size, eventFlag, buffer)
         \/ \E p \in Parcels : Attach(o, p, size)
  BY <1>1, <1>2, <1>3, <1>4
     DEF ConstructRefused, GivesUp, ConstructAborts, Construct, Attach
<1>5. CASE \E o \in Objects :
         \/ GivesUp(o) \/ Destroy(o)
         \/ \E p \in Parcels :
              \/ DupeDesc(o, p) \/ ConvertRefused(o, p)
              \/ \E flagsFit \in BOOLEAN : Convert(o, p, flagsFit)
              \/ \E wide \in Widened : ConvertGivesUp(o, p, wide)
  BY <1>1, <1>2, <1>5
     DEF GivesUp, Destroy, DupeDesc, ConvertRefused, Convert, ConvertGivesUp, vars
<1>6. CASE \E p \in Parcels : DropParcel(p) \/ \E q \in Quanta : EditQuantum(p, q)
  BY <1>1, <1>6 DEF DropParcel, EditQuantum
<1>7. CASE UNCHANGED vars
  BY <1>1, <1>7 DEF vars
<1> QED
  BY <1>4, <1>5, <1>6, <1>7 DEF Next

LEMMA ObjectsNext == ObjectsInv /\ [Next]_vars => ObjectsInv'
<1> SUFFICES ASSUME ObjectsInv, [Next]_vars PROVE ObjectsInv'
  OBVIOUS
<1>1. PartsInv' /\ LimitInv'
  BY PartsNext, LimitNext DEF ObjectsInv
<1>2. ASSUME NEW o \in Objects, NEW n, NEW size, NEW buffer,
             ConstructRefused(o, n, size, buffer)
      PROVE  Kept
  BY <1>2, GivesUpKeeps DEF ConstructRefused
<1>3. ASSUME NEW o \in Objects, NEW n, NEW size, NEW buffer,
             ConstructAborts(o, n, size, buffer)
      PROVE  Kept
  BY <1>3, AbortKeeps DEF ConstructAborts
<1>4. ASSUME NEW o \in Objects, NEW p \in Parcels, ConvertRefused(o, p) PROVE Kept
  BY <1>4, StutterKeeps DEF ConvertRefused
<1>5. Kept
  BY <1>2, <1>3, <1>4, ConstructKeeps, AttachKeeps, GivesUpKeeps, DestroyKeeps,
     DupeDescKeeps, ConvertKeeps, ConvertGivesUpKeeps, DropParcelKeeps,
     EditQuantumKeeps, StutterKeeps
     DEF Next
<1> QED
  BY <1>1, <1>5 DEF Kept, ObjectsInv
-----------------------------------------------------------------------------
\* What the invariant means.

LEMMA ValidIsMapped ==
    ASSUME ObjectsInv, NEW o \in ValidObjects
    PROVE  /\ o \in Objects /\ o \in Carriers /\ object[o] # None
           /\ object[o].desc # None /\ Mapped(object[o], FilesOf(o))
           /\ GrantorsOf(o) = object[o].desc.grantors
           /\ QuantumOf(o) = object[o].desc.quantum
<1>1. o \in Objects /\ object[o] # None /\ DATAPTRPOS \in DOMAIN object[o].maps
  BY DEF ValidObjects, IsValid
<1>2. object[o].maps # <<>>
  BY <1>1 DEF DATAPTRPOS
<1>3. Mapped(object[o], FilesOf(o))
  BY <1>1, <1>2 DEF ObjectsInv, MappedInv, GoodObject
<1>4. object[o].desc # None
  BY <1>3 DEF Mapped
<1> QED
  BY <1>1, <1>3, <1>4 DEF Carriers, GrantorsOf, QuantumOf, DescOf

\* The state of every process that uses queues: the handles of its objects and
\* parcels, what these describe and what is mapped agree, whatever was created,
\* attached, described, converted, edited and destroyed, in any order.
THEOREM ObjectsInvariant == Spec => []ObjectsInv
  BY ObjectsInit, ObjectsNext, PTL DEF Spec

\* Type correctness (TypeOK): no descriptor is open on a file that is not there,
\* and no quantum in a queue object is one that AIDL would have refused.
THEOREM ObjectsTypeCorrect == Spec => []TypeOK
<1>1. ObjectsInv => TypeOK
  <2> SUFFICES ASSUME ObjectsInv PROVE TypeOK
    OBVIOUS
  <2>1. table \in [FDs -> Files \cup {Closed}] /\ memory \in [Files -> 0..(SizeMod - 1)]
    BY DEF ObjectsInv, OwnersInv, DesignsInv, Tables
  <2>2. DOMAIN object = Objects /\ DOMAIN parcel = Parcels
    BY DEF ObjectsInv, PartsInv, ObjectsLaidOut, ParcelsLaidOut
  <2>3. ASSUME NEW o \in Objects, object[o] # None
        PROVE  /\ object[o].kind = "object" /\ object[o].size \in MessageSizes \cup {0}
               /\ object[o].desc = None \/ object[o].desc.quantum \in 0..(IntMod - 1)
               /\ \A pos \in DOMAIN object[o].maps : object[o].maps[pos].file \in Files
    <3>1. GoodObject(object[o], FilesOf(o))
      BY <2>3 DEF ObjectsInv, MappedInv
    <3>2. CASE object[o].maps = <<>>
      BY <3>1, <3>2 DEF GoodObject
    <3>3. CASE Mapped(object[o], FilesOf(o))
      BY <3>1, <3>3 DEF GoodObject, Mapped
    <3> QED
      BY <3>1, <3>2, <3>3 DEF GoodObject
  <2>4. \A p \in Parcels : parcel[p] = None \/ parcel[p].kind = "parcel"
    BY DEF ObjectsInv, MappedInv
  <2> QED
    BY <2>1, <2>2, <2>3, <2>4 DEF TypeOK, ObjectsInv, LimitInv
<1> QED
  BY ObjectsInvariant, <1>1, PTL

\* Every open descriptor has exactly one owner, and no owner holds one that is
\* closed (property EveryFdHasOneOwner): the constructors, AidlMessageQueue's
\* temporary descriptor, dupeDesc, the conversions that give up half-way and the
\* destructor neither leak a descriptor nor close one twice.
THEOREM DescriptorsHaveOneOwner == Spec => []EveryFdHasOneOwner
<1>1. ObjectsInv => EveryFdHasOneOwner
  <2> SUFFICES ASSUME ObjectsInv PROVE EveryFdHasOneOwner
    OBVIOUS
  <2>1. OwnersInv
    BY DEF ObjectsInv
  <2>2. DOMAIN Holdings = Carriers /\ \A x \in Carriers : Holdings[x] = Held(FdsOf(x))
    BY DEF Holdings, Carriers, FdsOf
  <2>3. \A x \in Carriers : Held(FdsOf(x)) \subseteq FDs
    BY <2>1, ShapeFacts DEF OwnersInv
  <2>4. \A x, y \in DOMAIN Holdings : x # y => Holdings[x] \cap Holdings[y] = {}
    BY <2>1, <2>2 DEF OwnersInv
  <2>5. {d \in FDs : table[d] # Closed} = UNION {Holdings[x] : x \in DOMAIN Holdings}
    BY <2>1, <2>2, <2>3 DEF OwnersInv
  <2>6. \A o \in Objects : \A i, j \in DOMAIN HandleOf(o) :
           i # j /\ HandleOf(o)[i] # NoFd => HandleOf(o)[i] # HandleOf(o)[j]
    <3>1. \A o \in Objects : HandleShape(HandleOf(o))
      BY <2>1 DEF OwnersInv, FdsOf, Carriers
    <3> QED
      BY <3>1, ShapeFacts
  <2> QED
    BY <2>4, <2>5, <2>6 DEF EveryFdHasOneOwner
<1> QED
  BY ObjectsInvariant, <1>1, PTL

\* A parcel that an attach accepts has every descriptor its grantors name
\* (property AttachableIsComplete): mapGrantorDescr, which indexes the handle
\* unchecked, never runs past its end.
THEOREM AttachableParcelsAreComplete == Spec => []AttachableIsComplete
<1>1. ObjectsInv => AttachableIsComplete
  <2> SUFFICES ASSUME ObjectsInv, NEW p \in Parcels, parcel[p] # None,
                      parcel[p].quantum \in MessageSizes,
                      NEW pos \in DOMAIN parcel[p].grantors
               PROVE  parcel[p].grantors[pos].fdIndex + 1 \in DOMAIN parcel[p].fds
    BY DEF AttachableIsComplete
  <2>1. p \in Carriers /\ p \notin Objects
    BY ObjectsAssumption DEF Carriers
  <2>2. GrantorsOf(p) = parcel[p].grantors /\ QuantumOf(p) = parcel[p].quantum
        /\ FdsOf(p) = parcel[p].fds
    BY <2>1 DEF GrantorsOf, QuantumOf, FdsOf, ParcelFds
  <2>3. Sound(memory, GrantorsOf(p), QuantumOf(p), FilesOf(p))
        /\ DOMAIN FilesOf(p) = DOMAIN FdsOf(p)
    BY <2>1, OwnersOpen DEF ObjectsInv, DesignsInv
  <2> QED
    BY <2>2, <2>3 DEF Sound
<1> QED
  BY ObjectsInvariant, <1>1, PTL

\* Every grantor of a valid queue lies inside its file, and inside the pages
\* mapped for it when it ends below 2^32 (property GrantorsAreBacked), also after
\* the file has lost every owner but this one.
THEOREM GrantorsStayBacked == Spec => []GrantorsAreBacked
<1>1. ObjectsInv => GrantorsAreBacked
  <2> SUFFICES ASSUME ObjectsInv, NEW o \in ValidObjects,
                      NEW pos \in DOMAIN object[o].maps
               PROVE  LET g == GrantorOf(o, pos)
                      IN  /\ g.offset + g.extent <= memory[object[o].maps[pos].file]
                          /\ g.offset + g.extent < IntMod =>
                                Covers(object[o].maps[pos].pages, g)
    BY DEF GrantorsAreBacked
  <2> DEFINE g == object[o].desc.grantors
             v == FilesOf(o)
             map == object[o].maps[pos]
  <2>1. o \in Carriers /\ Mapped(object[o], v) /\ GrantorsOf(o) = g
    BY ValidIsMapped
  <2>2. /\ DOMAIN object[o].maps \subseteq DOMAIN g
        /\ g[pos].fdIndex + 1 \in DOMAIN v /\ map.file = v[g[pos].fdIndex + 1]
        /\ map.file \in Files
        /\ g[pos].offset + g[pos].extent < IntMod => Covers(map.pages, g[pos])
    BY <2>1 DEF Mapped, MappedPositions
  <2>3. Sound(memory, g, QuantumOf(o), v)
    BY <2>1 DEF ObjectsInv, DesignsInv
  <2>4. GrantorOf(o, pos) = g[pos]
    BY DEF GrantorOf
  <2>5. g[pos].offset + g[pos].extent <= memory[map.file]
    <3>1. v[g[pos].fdIndex + 1] # Closed
      BY <2>2, Numbers
    <3> HIDE DEF g, v, map
    <3> QED
      BY <2>2, <2>3, <3>1 DEF Sound
  <2> QED
    BY <2>2, <2>4, <2>5
<1> QED
  BY ObjectsInvariant, <1>1, PTL

\* A valid object holds a whole number of messages of its own type (property
\* SizeFitsMessages): a queue is never attached as one of another type, and its
\* ring never ends in the middle of a message.
THEOREM SizesFitMessages == Spec => []SizeFitsMessages
<1>1. ObjectsInv => SizeFitsMessages
  <2> SUFFICES ASSUME ObjectsInv, NEW o \in ValidObjects
               PROVE  /\ object[o].desc.quantum = object[o].size
                      /\ GrantorOf(o, DATAPTRPOS).extent % object[o].size = 0
    BY DEF SizeFitsMessages
  <2> DEFINE g == object[o].desc.grantors
             q == object[o].desc.quantum
  <2>1. /\ o \in Carriers /\ Mapped(object[o], FilesOf(o))
        /\ GrantorsOf(o) = g /\ QuantumOf(o) = q
    BY ValidIsMapped
  <2>2. q = object[o].size /\ q \in MessageSizes
        /\ DOMAIN object[o].maps \subseteq DOMAIN g
    BY <2>1 DEF Mapped, MappedPositions
  <2>3. DATAPTRPOS \in DOMAIN g
    BY <2>2 DEF ValidObjects, IsValid
  <2>4. Sound(memory, g, q, FilesOf(o))
    BY <2>1 DEF ObjectsInv, DesignsInv
  <2>5. g[DATAPTRPOS].extent % q = 0
    BY <2>2, <2>3, <2>4 DEF Sound
  <2> QED
    BY <2>2, <2>5 DEF GrantorOf
<1> QED
  BY ObjectsInvariant, <1>1, PTL

\* Two valid objects are the same queue, with every part at the same place of the
\* same file, or share no memory at all (property PeersAgree), however many times
\* a description was copied, converted and attached in between.
THEOREM PeersAreOneQueue == Spec => []PeersAgree
<1>1. ObjectsInv => PeersAgree
  <2> SUFFICES ASSUME ObjectsInv, NEW o \in ValidObjects, NEW other \in ValidObjects,
                      NEW pos1 \in DOMAIN object[o].maps,
                      NEW pos2 \in DOMAIN object[other].maps,
                      object[o].maps[pos1].file = object[other].maps[pos2].file
               PROVE  /\ DOMAIN object[o].maps = DOMAIN object[other].maps
                      /\ \A pos \in DOMAIN object[o].maps : Place(o, pos) = Place(other, pos)
    BY DEF PeersAgree
  <2> DEFINE g1 == object[o].desc.grantors
             v1 == FilesOf(o)
             m1 == object[o].maps
             g2 == object[other].desc.grantors
             v2 == FilesOf(other)
             m2 == object[other].maps
  <2>1. /\ o \in Carriers /\ Mapped(object[o], v1) /\ GrantorsOf(o) = g1
        /\ other \in Carriers /\ Mapped(object[other], v2) /\ GrantorsOf(other) = g2
    BY ValidIsMapped
  <2>2. /\ \A pos \in DOMAIN m1 : /\ g1[pos].fdIndex + 1 \in DOMAIN v1
                                  /\ m1[pos].file = v1[g1[pos].fdIndex + 1]
                                  /\ m1[pos].file # Closed
        /\ DOMAIN m1 = MappedPositions(object[o].desc)
    BY <2>1, Numbers DEF Mapped
  <2>3. /\ \A pos \in DOMAIN m2 : /\ g2[pos].fdIndex + 1 \in DOMAIN v2
                                  /\ m2[pos].file = v2[g2[pos].fdIndex + 1]
                                  /\ m2[pos].file # Closed
        /\ DOMAIN m2 = MappedPositions(object[other].desc)
    BY <2>1, Numbers DEF Mapped
  <2>4. Kin(g1, v1, g2, v2)
    BY <2>1 DEF ObjectsInv, DesignsInv
  <2>5. /\ g1 = g2
        /\ \A k \in DOMAIN v1 \cap DOMAIN v2 :
              v1[k] = v2[k] \/ v1[k] = Closed \/ v2[k] = Closed
    <3>1. /\ g1[pos1].fdIndex + 1 \in DOMAIN v1 /\ m1[pos1].file = v1[g1[pos1].fdIndex + 1]
          /\ v1[g1[pos1].fdIndex + 1] # Closed
      BY <2>2
    <3>2. /\ g2[pos2].fdIndex + 1 \in DOMAIN v2 /\ m2[pos2].file = v2[g2[pos2].fdIndex + 1]
      BY <2>3
    <3>3. m1[pos1].file = m2[pos2].file
      OBVIOUS
    <3> DEFINE i == g1[pos1].fdIndex + 1
               j == g2[pos2].fdIndex + 1
    <3>4. i \in DOMAIN v1 /\ j \in DOMAIN v2 /\ v1[i] = v2[j] /\ v1[i] # Closed
      BY <3>1, <3>2, <3>3
    <3> HIDE DEF i, j, g1, v1, g2, v2
    <3> QED
      BY <2>4, <3>4 DEF Kin
  <2>6. DOMAIN m1 = DOMAIN m2
    BY <2>2, <2>3, <2>5 DEF MappedPositions
  <2>7. ASSUME NEW pos \in DOMAIN m1 PROVE Place(o, pos) = Place(other, pos)
    <3>1. m1[pos].file = m2[pos].file
      BY <2>2, <2>3, <2>5, <2>6
    <3>2. g1[pos] = g2[pos]
      BY <2>5
    <3> QED
      BY <3>1, <3>2 DEF Place, GrantorOf
  <2> QED
    BY <2>6, <2>7
<1> QED
  BY ObjectsInvariant, <1>1, PTL
=============================================================================
