SPECIFICATION Spec
CONSTANTS
  Unit = 1000
  Gains <- MCGains
  Setpoints = {25}
  Readings = {0, 10, 20, 35}
  Infinite = Infinite
  Floor <- MCFloor
  NoFile = NoFile
  Files <- LowFiles
  LostDuties = {0, 40000}
INVARIANT DutyWithinConfig
