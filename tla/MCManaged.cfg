CONSTANTS
  Main = Main
  j1 = j1
  j2 = j2
  j3 = j3
  a1 = a1
  a2 = a2
  s = s
  w1 = w1
  w2 = w2
  Jobs = {j1, j2, j3}
  Asyncs = {a1, a2}
  Sources = {s}
  MainThread = MainThread
  Workers = {w1, w2}
  GivingUp = 2
  Scripts <- Sound
  Programs <- MCPrograms
  MaxFrames = 5
  Tiers = {"interpreted"}
  Shapes = {"regular", "rethrow after a try", "try in a finally", "filter over a finally", "filter throws in a try", "filter over a call"}
  NoObject = NoObject
SPECIFICATION ManagedSpec
INVARIANTS EveryAwaitIsHeld GivenUpInVain BehavesAsWritten NoExceptionSwept
PROPERTIES SettledOnce WaitsEnd DispatchEnds
CHECK_DEADLOCK FALSE
