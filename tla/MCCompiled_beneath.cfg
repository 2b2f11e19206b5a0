CONSTANTS
  i1 = i1
  a1 = a1
  m1 = m1
  m2 = m2
  m3 = m3
  Instances = {i1}
  Arrays = {a1}
  Null = Null
  Methods <- TwoBodies
  MaxSteps = 2
  MaxFrames = 3
  Trigger = 2
  Habits = {"straight"}
  Callables = {m1}
  CallTables <- NoTables
  Threshold = 1
  NoTable = NoTable
SPECIFICATION FramesAlone
INVARIANT InUseIsKept
