SPECIFICATION PartsSpec
CONSTANTS
  Parts = {"run", "browsers"}
  Streams = {}
  Protobuf = {}
  StallTime = 2
  MaxChunks = 0
  Prompt = TRUE
  MaxJobs = 2
  MaxTabs = 1
  Prompts = {"ask"}
  Replies = {"done", "done so"}
  Holds <- MCHolds
  Attempts = 1
  Mishaps = 1
  Bots = {a, b, c}
  MaxCalls = 4
  MaxLive = 2
  MaxTrouble = 1
  MaxSweeps = 1
SYMMETRY Symmetry
CHECK_DEADLOCK FALSE
INVARIANTS
  HonestRuns
  MapsAreKept
  SharedLaunches
  UnhurriedDirectoryIsFree
PROPERTIES
  CapClosesTheQuietest
