CONSTANTS
  A = A
  B = B
  good = good
  better = better
  dud = dud
  Healthy = {good, better}
  Broken = {dud}
  NoImage = NoImage
  Junk = Junk
  None = None
  Off = Off
  Parts = 2
  MaxChunks = 3
  MAX_ATTEMPTS = 3
  Strays = {"begin"}
SPECIFICATION Spec
PROPERTY RunningSlotUntouched
