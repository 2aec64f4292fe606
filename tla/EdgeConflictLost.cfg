\* Two runs push the same sale.
SPECIFICATION Spec
CONSTANTS
  w1 = w1
  w2 = w2
  d1 = d1
  d2 = d2
  none = none
  NoDevice = none
  MaxSales = 1
  MaxLines = 2
  MaxQty = 1
  SaleLines <- SingleUnits
  Runs = {w1, w2}
  Devices = {d1}
  Opening = 1
  MaxElsewhere = 1
  MaxFaults = 1
CHECK_DEADLOCK FALSE
PROPERTIES ConflictWaitsForOperator
