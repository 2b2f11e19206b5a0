CONSTANTS
  t1 = t1
  t2 = t2
  t3 = t3
  o1 = o1
  o2 = o2
  Threads = {t1, t2, t3}
  Objects = {o1, o2}
  Nobody = Nobody
  MaxDepth = 2
  MaxPulses = 1
  MaxCalls = 2
  i1 = i1
  a1 = a1
  m1 = m1
  m2 = m2
  m3 = m3
  Instances = {i1}
  Arrays = {a1}
  Null = Null
  Methods <- FourBodies
  MaxSteps = 2
  MaxFrames = 3
  Trigger = 2
  Habits = {}
  Callables = {m1, m2, m3}
  CallTables <- EveryTable
  Threshold = 2
  NoTable = NoTable
SPECIFICATION ExecutionSpec
INVARIANTS OwnershipMatches NoLostWakeup InUseIsKept CallsLand
PROPERTIES PulsesNotMissed ImplementsMonitors CrowdCallsReturn StopIsAnswered
