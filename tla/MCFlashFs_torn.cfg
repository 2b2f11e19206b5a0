CONSTANTS
  a = a
  b = b
  x = x
  Names = {a, b}
  Bytes = {x}
  None = None
  Erased = Erased
  Torn = Torn
  NoName = NoName
  MaxLen = 1
  Capacity = 5
  Sector = 2
  Faults = {"putting"}
SPECIFICATION FlashSpec
PROPERTY PreviousIntact
SYMMETRY Symmetry
