CONSTANTS
  Workers = {w1, w2}
  MaxJobs = 2
  Threads = {t1}
  Owners = {o1}
  MaxCrashes = 1
  MaxDbErrors = 0
  MaxLoadErrors = 0
  MaxMarks = 0
SPECIFICATION FairSpec
PROPERTIES EveryJobFinishes
