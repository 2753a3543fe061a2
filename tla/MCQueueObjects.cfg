SPECIFICATION Spec
CONSTANTS
  o1 = o1
  o2 = o2
  p1 = p1
  WordBytes = 2
  CounterBytes = 2
  FlagBytes = 1
  PageSize = 8
  IntMod = 24
  SizeMod = 56
  Objects = {o1, o2}
  Parcels = {p1}
  MaxFd = 7
  Limits = {3, 8}
  MaxFile = 2
  Synchronized = TRUE
  Elements = {5, 55}
  MessageSizes = {1, 5}
  Quanta <- EditedQuanta
  BufferSizes = {25}
  Widened = {3}
SYMMETRY Symmetry
INVARIANTS TypeOK EveryFdHasOneOwner AttachableIsComplete GrantorsAreBacked PartsAreApart PeersAgree SizeFitsMessages
