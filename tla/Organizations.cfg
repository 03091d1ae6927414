SPECIFICATION PartsSpec
CONSTANTS
  Creates = {c1, c2}
  Hooks = {h1, h2}
  MaxOrgs = 3
  Repeats = {"completed", "updated"}
  Crashes = TRUE
  People = {a, b}
  Founder = a
  Configured = {}
  AutoJoin = TRUE
  Limits = {1, 2}
  MaxRequests = 3
  MaxInvites = 1
  MaxTurns = 1
  Agents = {1, 2, 3}
  Cap = 2
  MaxAdds = 2
  Channels = {1, 2}
  Ticks = {2, 3, 4}
  Spoken = {6, 8}
  MaxReports = 2
  MaxBreaks = 2
  Crons = {k}
  Inbound = {h}
  Workers = {11, 12}
  MaxWindows = 3
  MaxCalls = 1
  MaxEdits = 1
  MaxDeaths = 1
INVARIANTS
  BillingPromise
  AnAdministratorRemains
  RoomPromise
  RosterPromise
  StandingFires
PROPERTY
  SeatsAreCounted
SYMMETRY Symmetry
CHECK_DEADLOCK FALSE
