SPECIFICATION DevicesSpec
CONSTANTS
  z = z
  a = a
  Elem = {z, a}
  Zero = z
  Junk = Junk
  Max = 3
  MaxCall = 4
  Infinite = Infinite
  Unit = 1
  Setpoints = {25}
  Readings = {10, 22, 26, 29}
  Floor <- LowestOutput
  Gains <- SomeGains
  Channels <- AllChannels
  Left <- LeftMotor
  Right <- RightMotor
  Encoders <- AllEncoders
  Periods = {10000}
  Duties = {5}
  MaxRuns = 2
  Programs <- Objects
  Half = 2048
  Scale = 10
  ScreenW = 14
  ScreenH = 6
  CellW = 2
  CellH = 2
  MaxDigits = 4
  FloatDigits = 2
  FloatPoints = 1
  AsciiFont <- SomeAscii
  ChineseFont <- SomeChinese
  Ints <- SomeInts
  Uints <- SomeUints
  Floats <- SomeFloats
  Strings <- SomeStrings
  Scales = {1, 2}
  Origins <- SomeOrigins
  Images <- SomeImages
  MaxCalls = 2
  Garbage <- SomeGarbage
INVARIANTS
  IndicesAgree PositionalForm ObjectsWorkAsAsked FieldsReplaced DrawnInPlace
PROPERTIES ImplementsQueue OthersKeepTheirBits
CHECK_DEADLOCK FALSE
