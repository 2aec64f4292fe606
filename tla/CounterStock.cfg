\* Counter documents of one store around one reservation.
SPECIFICATION Spec
CONSTANTS
  a = a
  b = b
  none = none
  k1 = k1
  k2 = k2
  r1 = r1
  r2 = r2
  t1 = t1
  t2 = t2
  n1 = n1
  n2 = n2
  p1 = p1
  p2 = p2
  Rows <- RowsAB
  NoRow = none
  StoreOf <- StoresAB
  Opening <- Opening20
  MaxQty = 2
  MaxTime = 2
  MaxLines = 2
  SaleKeys = {k1}
  PurchaseKeys = {k1}
  SaleReturnKeys = {r1, r2}
  PurchaseReturnKeys = {t1, t2}
  AdjustmentKeys = {k1}
  ReservationIds = {n1}
  ReservationTTL = 1
  ReadyTTL = 1
  ProcurementIds = {}
  RequestedTTL = 1
  AcceptedTTL = 1
  ReceiveTTL = 1
SYMMETRY ReturnSymmetry
INVARIANTS StockAccounted ReturnsWithinDocument
