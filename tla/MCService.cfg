SPECIFICATION FairSpec
CONSTANTS
  w1 = w1
  w2 = w2
  main = main
  Main = main
  Workers <- MCWorkers
  MaxSessionCount = 1
  ClientCount = 2
  MaxFailures = 1
INVARIANTS
  Accepting
PROPERTIES
  EndsMeet
\* When every client is over nothing happens any more.
CHECK_DEADLOCK FALSE
