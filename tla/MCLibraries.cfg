SPECIFICATION LibSpec
CONSTANTS
  t1 = t1
  t2 = t2
  NoTimer = NoTimer
  Timers = {t1, t2}
  NULL = NULL
  Types = {"RGB565"}
  Sizes <- SomeSizes
  Boundaries <- SomeBoundaries
  DotNums = {2}
  SumMod = 256
  Samples = {200}
  MaxChannels = 2
  MaxSendCalls = 4
  line1 = line1
  Half = 2048
  Scale = 1000
  WholeNumbers <- SomeNumbers
  Reals <- SomeReals
  PlacesAsked = {0, 1, 2, 3}
  Texts <- SomeTexts
  Formats <- SomeFormats
  Dividends = {0, 1, 4, 6, 9, 10}
  PrintPlaces = 3
  PointerPlaces = 3
  DoublePlaces = 4
  FloatRoom = 1
  FloatParts = 8388608
  DoubleParts = 1073741824
  Highest = 3
  Programs <- Pairs
  ByteMod = 4
  HeadByte = 1
  Channels = 2
  Capacity = 8
  Messages <- SomeMessages
  Noise = {0, 1}
  MaxSent = 4
  MaxSize = 3
  MaxCalls = 4
INVARIANTS
  SentAsAnnounced PicturesArriveWhole DescriptorsOwn NoCallAfterEnd
PROPERTIES
  ReceivedAsSent AllTaken ResultsRight NothingLeaks LibraryCallsReturn KeepsCalling
CHECK_DEADLOCK FALSE
