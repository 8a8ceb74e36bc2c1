SPECIFICATION Spec
CONSTANTS
  w1 = w1
  w2 = w2
  w3 = w3
  main = main
  app = app
  Main = main
  Workers <- ThreeWorkers
  AppThreads <- MainAndApp
  Failures = {"reset"}
  MaxSends = 3
  MaxPackets = 4
  MaxBatch = 2
INVARIANTS
  TypeOK
  SendExclusive
  RegistrationExact
  RecvExclusive
  PendingOwned
  NoStranded
  Listening
  RegistryExact
PROPERTIES
  IsConnection
SYMMETRY WorkerSymmetry
\* A session that disconnected and whose packets were popped is over.
CHECK_DEADLOCK FALSE
