CONSTANTS
  MaxRequests = 4
  MaxInFlight = 3
  MaxFailures = 1
  DecisionsKept = 1
SPECIFICATION MCSpec
CHECK_DEADLOCK FALSE
INVARIANTS
  OnlyKeptIsCarriedOut
  LoneKeepCarriesOutOnce
PROPERTIES
  CardPromise
  LoneWritesLoseNothing
  ConversationPromise
  EveryMessageIsSaid
