SPECIFICATION EitherSpec
CONSTANTS
  t1 = t1
  t2 = t2
  t3 = t3
  o1 = o1
  o2 = o2
  Threads = {t1, t2, t3}
  Main = t1
  Objects = {o1}
  Free = Free
  EpochMod = 2
  Races = {}
INVARIANTS CountersExact ParkedForThisRound WorldStopped NoLiveObjectSwept
PROPERTIES EveryoneRunsAgain
