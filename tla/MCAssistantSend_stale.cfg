SPECIFICATION SendSpec
CONSTANTS
  Types = {"RGB565"}
  Sizes <- SomeSizes
  line1 = line1
  Boundaries <- SomeBoundaries
  NULL = NULL
  DotNums = {2}
  SumMod = 256
  Samples = {200}
  MaxChannels = 2
  MaxSendCalls = 5
INVARIANT OnlyGivenArraysSent
CHECK_DEADLOCK FALSE
