SPECIFICATION ChainSpec
CONSTANTS
  Unit = 1000
  Gains <- MCGains
  Setpoints = {25}
  Readings = {0, 10, 20, 35}
  Infinite = Infinite
  Floor <- MCFloor
  NoFile = NoFile
  Files <- MCFiles
  LostDuties = {0, 40000}
  ImageH = 6
  ImageW = 7
  BeginW = 1
  BeginRows = {3}
  Threshold = 140
  Offset = 4
  MaxLen = 9
  Dark = 100
  Bright = 200
  Images <- SomeImages
  Period = 1800
  Mids = {90, 95}
  Diffs <- SomeDiffs
  Angles <- PureAngles
  Kp = 3
  Kd = 2
  CrossBeginKp = 4
  CrossKp = 5
  BarrierKp = 6
  BarrierOutKp = 7
  WordMod = 65536
  LineLen = 5
  Dist = 24
  Low = 30
  High = 100
  RawBorders <- SomeBorders
  Lines <- SomeLines
  AngleRows <- SomeAngles
  Approx = 1
  HalfRoad = 10
  CornerEnd = 2
  StraightEnd = 3
  Borders <- CornerBorders
  FarBorders <- FarKinds
  BarrierLines <- BarrierBorders
  Headings = {79, 82, 85, 95, 98, 101}
  Rows = {0, 2, 4}
  MaxRows = 2
  Width = 2
  PtMaxLen = 6
  NearCorner = 1
  ShortLine = 3
  LongLine = 5
  LeftShort = 4
  RightShort = 5
  FewPoints = 3
  AimJudge = 2
  Counts = {0, 1, 4, 6}
  FarCounts = {0, 1, 5}
INVARIANTS
  WallFollowed LineResampled BordersAlike CornersFound
  SteersByThisFrame CrossingForgotten ServoFollows
PROPERTIES LoopNoDeadWheel FollowEnds NoKick
