SPECIFICATION FairSpec
CONSTANTS
  TimeMod = 9
  CrossHold = 1
  CrossDead = 2
  BarrierHold = 2
  ZebraHold = 3
  BeginReset = 5
  FrameTicks = 2
INVARIANTS OneElement FlagsFollow StampsAgree
PROPERTIES CrossDeadTime StopLasts ElementsEnd
