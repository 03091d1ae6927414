SPECIFICATION FairParts
CONSTANTS
  Parts = {"streams", "run", "browsers"}
  Streams = {r1, r2}
  Protobuf = {r2}
  StallTime = 2
  MaxChunks = 2
  Prompt = TRUE
  MaxJobs = 2
  MaxTabs = 1
  Prompts = {"ask"}
  Replies = {}
  Holds <- MCHolds
  Attempts = 2
  Mishaps = 1
  Bots = {a, b}
  MaxCalls = 3
  MaxLive = 1
  MaxTrouble = 1
  MaxSweeps = 1
INVARIANTS
  WatchIsHonest
PROPERTIES
  TurnsEndOnce
  SilenceEnds
  WaitsEnd
CHECK_DEADLOCK FALSE
