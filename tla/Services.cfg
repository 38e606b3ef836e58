\* Every unit on its own small instance.
SPECIFICATION ServicesSpec
CONSTANTS
  MaxKeywords = 2
  AgMax = 2
  AgMaxQueues = 3
  AgMaxBusy = 2
  AgDepth = 1
  AgPeriods = {1}
  AgRunners = {r1}
  AgPatrolEvery = 1
  AgWord = 4
  AgStart = 3
  AgMaxTime = 8
  AgWords <- WordLists
  NoAgent = NoAgent
  BusThreads = {b1, b2}
  BusMaxMessages = 2
  CloudLens = {0, 1, 300, 404, 405, 511, 512}
  CloudModels = {0, 200, 450}
  CloudSlots = 2
  LocalBytes = {178, 179, 216, 217}
  AnswerLens = {300}
  NoAdapter = NoAdapter
  UartBytes = {u1, u2}
  UartSize = 4
  UartMaxLen = 2
  NoByte = NoByte
  FramePayloads <- SomePayloads
  FrameTypes <- SomeTypes
  FrameMaxPayload = 4
  FrameFlips = 2
  FwCmds = {1}
  FwSrcs = {1, 2}
  FwLens = {1, 2}
  FwRates = {3}
  FwBursts = {0, 3}
  FwDefaultRate = 2
  FwDefaultBurst = 1
  FwRuleSlots = 1
  FwUnit = 2
  FwWord = 4
  FwMaxTime = 5
  FwMaxChecks = 2
  Accelerators = {npu, dsp}
  HostSim = HostSim
  NpuSlots = 2
  WdModels = {w1, w2}
  WdPeriods = {1, 2}
  WdSlots = 2
  BootCmds = {1}
  BootPayload = 2
  ConsoleThreads = {c1, c2}
  ConsoleNames = {vision, other}
  TrainerAgents = {vision}
  ConsoleMaxAgents = 2
  ConsoleMaxRuns = 2
  NoName = NoName
INVARIANTS
  ServicesTypes ExecutingHasRunner StalledIsNoticed SubsWellFormed LastKeywordWins
  StatsNeverAhead BroadcastPrefix PostsFitBuffers RouteHonoursMode
  RateBounded ExpiredWasUnfed FramesSurvive ScatteredFlipsSeen NoOrphanRun
PROPERTIES RingIsFifo
CHECK_DEADLOCK FALSE
