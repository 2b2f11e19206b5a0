CONSTANTS
  r1 = r1
  s1 = s1
  Roots = {r1}
  Strays = {s1}
  Fields = {f1}
  f1 = f1
  MaxSlots = 2
  MaxGen = 2
  MaxPins = 1
  MaxBirths = 3
  a = a
  b = b
  x = x
  Names = {a, b}
  Bytes = {x}
  None = None
  Erased = Erased
  Torn = Torn
  NoName = NoName
  MaxLen = 2
  Capacity = 5
  Sector = 2
  Faults = {"putting"}
SPECIFICATION MemorySpec
INVARIANTS SlotsAccounted AliasOnlyAfterWrap NeverOverprograms
PROPERTIES ReachableSurvive GarbageReclaimed ImplementsStore FullOnlyWhenFull
SYMMETRY Symmetry
