CONSTANTS
  Workers = {w1, w2}
  MaxJobs = 2
  Threads = {t1, t2}
  Owners = {o1}
  MaxCrashes = 1
  MaxDbErrors = 1
  MaxLoadErrors = 1
  MaxMarks = 1
SPECIFICATION Spec
SYMMETRY Symmetry
INVARIANTS
  OneWorkerPerThread
  OwnerIsNotMisled
PROPERTIES
  QueuePromise
