CONSTANTS
  Requests = {r1, r2, r3}
  Kinds <- MCKinds
  Cents <- MCCents
  Caps = {0, 6, 15}
  NoCap = NoCap
  MaxCaps = 1
  MaxDeaths = 1
SPECIFICATION LiveSpec
CHECK_DEADLOCK FALSE
INVARIANTS
  PaidQueue
PROPERTIES
  LedgerPromise
  EveryRequestAnswered
