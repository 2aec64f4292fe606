SPECIFICATION Spec
CONSTANTS
  w1 = w1
  w2 = w2
  main = main
  r1 = r1
  r2 = r2
  h1 = h1
  Workers = {w1}
  NoWorker = NoWorker
  Callers = {main, r1, r2}
  Helpers = {h1}
  Nobody = Nobody
  Main = main
  MaxVersion = 2
  WithManager = {}
  MaxFaults = 0
  MaxChecks = 1
INVARIANTS
  OneUpdate
