SPECIFICATION Spec
CONSTANTS
  ByteBits = 3
  HalfBits = 5
  WordBits = 15
  LongBits = 16
  SmallBelow = 2
  SmallFrom = 3
  MiddleBelow = 3
  MiddleFrom = 3
  Top = 4
  SECSPERMINUTE = 2
  MINUTESPERHOUR = 2
  HOURSPERDAY = 2
  WordsBefore = {0, 1}
  LONG_BITS = 4
  INT_BITS = 3
  MAX_DIGITS = 3
  MAX_EXPONENT = 5
  Few = 4
  Many = 8
  ScaleBits = 7
  Far = 20
  Conversions <- MCConversions
  Formats <- MCFormats
  Numerals <- MCNumerals
  Bases = {0, 8, 10, 16}
  Decimated <- MCDecimated
  Lines <- MCLines
  Moments <- MCMoments
  Dates <- MCDates
  Days <- MCDays
  Arrays <- MCArrays
  Narrow <- MCNarrow
  Single <- MCSingle
  Wide <- MCWide
  Lows = {0, 2, 3}
  Scales <- MCScales
  Blocks = {0, 1, 2, 4, 5, 8, 9, 40, 44}
  Lengths = {0, 1, 3, 7, 8, 9, 15, 16, 17, 24, 31, 33}
  Fillings <- MCFillings
  Images <- MCImages
  Texts <- MCTexts
  Second = 8
  Counts = {0, 1, 2, 5}
  MAX_TYPES = 2
  degrees <- MCdegrees
  seps <- MCseps
  breaks <- MCbreaks
  TYPE_3 = 1
  RandomBits = 2
  Modulus = 5
  Multiplier = 2
  NSHUFF = 3
  Rounds10 = 2
  randtbl = "randtbl"
  Buffers = {"b"}
  Seeds = {2}
  TableSizes = {1, 2, 4}
  MaxBlocks = 3
  MaxDrawings = 7
  INITIAL_SIZE = 2
  INCREMENT = 2
  MAXIMUM_SIZE = 6
  Names = {"x", "y"}
  Values <- MCValues
  MaxTime = 6
  KeySequences <- MCKeySequences
  Written <- MCWritten
  Room = {2, 3}
  Contents <- MCContents
  Other = 12
  MemorySize = 20
  Delimiters <- MCDelimiters
  MaxCalls = 5
  HEAP_SIZE = 9
  Sizes = {2, 3, 5, 7}
  HWM_BOUND = 16
INVARIANTS
  PrintedRight
  CalendarRight
  NumbersRead
  SortedRight
  FloatsRounded
  MathsRight
  MemoryRight
  BlockFilled
  TokensRight
  ValueHeld
  ClockCountsRunning
  BlocksHeld
PROPERTIES
  SequenceKept
CHECK_DEADLOCK FALSE
