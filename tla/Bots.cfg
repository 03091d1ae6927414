SPECIFICATION PartsSpec
CONSTANTS
  BotCalls = {b1, b2}
  PersonCalls = {p1, p2}
  Supplies = {u1, u2}
  MaxAsks = 2
  FieldsFail = TRUE
  MaxCalls = 3
  MaxMade = 3
  Attempts = 2
  Pool = 3
  MaxEditions = 3
  MaxFaults = 1
  MaxRotations = 1
  People = {"adm", "p", "q"}
  Admin = "adm"
  Nobody = "nobody"
  Bots = {"b", "c"}
  Owner <- MCOwner
  MaxAdditions = 3
  Tools = {"t", "u"}
  MaxRefreshes = 3
  MaxChanges = 2
  Orgs = {"home", "other"}
  Home = "home"
  Belongs <- MCBelongs
  MaxDecisions = 4
  MaxSends = 1
  MaxEvents = 1
  MaxCreates = 2
  MaxEdits = 1
INVARIANTS
  HandOver
  ComputersAreOne
  SettingsPromise
  CrmPromise
PROPERTY
  BotGivesWay
CHECK_DEADLOCK FALSE
