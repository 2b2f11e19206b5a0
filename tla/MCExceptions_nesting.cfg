SPECIFICATION EhFairSpec
CONSTANTS
  Programs <- MCPrograms
  MaxFrames = 5
  Tiers = {"interpreted"}
  Shapes = {"rethrow after a try"}
  NoObject = NoObject
INVARIANTS NestingWorks
