SPECIFICATION FairSpec
CONSTANTS
  w1 = w1
  w2 = w2
  main = main
  r1 = r1
  r2 = r2
  h1 = h1
  Workers = {w1, w2}
  NoWorker = NoWorker
  Callers = {main, r1}
  Helpers = {h1}
  Nobody = Nobody
  Main = main
  MaxVersion = 3
  WithManager = {3}
  MaxFaults = 1
  MaxChecks = 1
INVARIANTS
  OneWorker
  ClosedStopsAll
  WholeCopyKept
PROPERTIES
  WorkerComesBack
