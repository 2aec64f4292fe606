\* Two runs at once, a pairing, lost and late calls, failed writes, failed reads
\* and restarts.
SPECIFICATION FairSpec
CONSTANTS
  w1 = w1
  w2 = w2
  d1 = d1
  d2 = d2
  none = none
  NoDevice = none
  MaxSales = 2
  MaxLines = 2
  MaxQty = 1
  SaleLines <- TwoLinesFirst
  Runs = {w1, w2}
  Devices = {d1}
  Opening = 2
  MaxElsewhere = 1
  MaxFaults = 2
CHECK_DEADLOCK FALSE
INVARIANTS ReceiptsKept SyncedIsInBooks PostedOncePerDevice 
PROPERTIES OnlyOverlapReopens ReceiptsSettle
