SPECIFICATION Spec
CONSTANTS
  w1 = w1
  w2 = w2
  w3 = w3
  main = main
  app = app
  Main = main
  Workers <- TwoWorkers
  AppThreads <- MainOnly
  Failures = {"reset", "other"}
  MaxSends = 3
  MaxPackets = 2
  MaxBatch = 1
INVARIANTS
  NoStranded
\* A session that disconnected and whose packets were popped is over.
CHECK_DEADLOCK FALSE
