CONSTANTS
  Workers = {w1, w2}
  MaxJobs = 3
  Threads = {t1, t2}
  Owners = {o1}
  MaxCrashes = 0
  MaxDbErrors = 0
  MaxLoadErrors = 0
  MaxMarks = 0
SPECIFICATION FairSpec
PROPERTIES EveryJobFinishes
