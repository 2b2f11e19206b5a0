CONSTANTS
  Takers = {t1}
  Givers = {g1, g2}
  Gifts = 1
  SeqLimit = 4
  MaxEarly = 1
  x = x
  y = y
  q1 = q1
  q2 = q2
  Pushers = {q1, q2}
  Poppers = {q1, q2}
  Brings <- Brought
  None = None
  LenMod = 4
  MaxLinked = 3
  s1 = s1
  r1 = r1
  Senders = {s1, s2}
  Receivers = {r1, r2}
  MaxSends = 3
  p1 = p1
  p2 = p2
  p3 = p3
  Owner = Owner
  PoolThreads = {w1, w2}
  Nothing = Nothing
  Closures = {p1, p2, p3}
  Roots = {p1, p2}
  Children <- Submitted
  Spawned = {p1, p2}
  MayPanic = {p2, p3}
SPECIFICATION SchedulingSpec
INVARIANTS MutexExcludes NothingLeftBehind IdleIsIdle
PROPERTIES JoinsEnd ImplementsFifo ReceiversReturn PoolCallsReturn
CHECK_DEADLOCK FALSE
