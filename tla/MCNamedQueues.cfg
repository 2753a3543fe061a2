SPECIFICATION Spec
CONSTANTS
  WordBytes = 2
  CounterBytes = 2
  FlagBytes = 1
  PageSize = 8
  IntMod = 24
  SizeMod = 56
  Procs = {p1, p2}
  Objects = {o1, o2}
  Descriptions = {d1}
  Names = {n1}
  Elements = {1, 6, 55}
  MessageSizes = {1, 2}
  MaxGeneration = 2
SYMMETRY Symmetry
INVARIANTS TypeOK ViewsInSection DescriptionsStayGood PeersAgree
