\* A replay after the agent has been paired again.
SPECIFICATION Spec
CONSTANTS
  w1 = w1
  w2 = w2
  d1 = d1
  d2 = d2
  none = none
  NoDevice = none
  MaxSales = 1
  MaxLines = 2
  MaxQty = 1
  SaleLines <- SingleUnits
  Runs = {w1}
  Devices = {d1, d2}
  Opening = 2
  MaxElsewhere = 0
  MaxFaults = 1
CHECK_DEADLOCK FALSE
INVARIANTS ReplayMakesNoSale
