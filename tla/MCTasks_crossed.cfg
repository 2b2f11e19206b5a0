CONSTANTS
  Main = Main
  j1 = j1
  j2 = j2
  j3 = j3
  a1 = a1
  a2 = a2
  s = s
  w1 = w1
  w2 = w2
  Jobs = {j1, j2, j3}
  Asyncs = {a1, a2}
  Sources = {s}
  MainThread = MainThread
  Workers = {w1, w2}
  GivingUp = 2
  Scripts <- Crossed
SPECIFICATION FairSpec
PROPERTY MainReturns
CHECK_DEADLOCK FALSE
