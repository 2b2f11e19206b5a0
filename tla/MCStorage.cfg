CONSTANTS
  A = A
  B = B
  good = good
  better = better
  dud = dud
  Healthy = {good, better}
  Broken = {dud}
  NoImage = NoImage
  Junk = Junk
  None = None
  Off = Off
  Parts = 2
  MaxChunks = 3
  MAX_ATTEMPTS = 3
  Strays = {}
  v1 = v1
  v2 = v2
  Values = {v1, v2}
  MaxRows = 2
  Checkpoint = 2
  MaxLog = 3
  Poison = {}
  Faults = {"save"}
  NoIndex = NoIndex
  Nothing = Nothing
SPECIFICATION StorageSpec
INVARIANTS IndexServes ReadsAreDurable
PROPERTIES RunningSlotUntouched ImplementsTrial BrokenImageGoesAway ImplementsTable
