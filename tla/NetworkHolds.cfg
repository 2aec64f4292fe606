\* Reservations, procurements and counter sales competing for the same rows.
SPECIFICATION FairSpec
CONSTANTS
  a = a
  b = b
  none = none
  k1 = k1
  k2 = k2
  r1 = r1
  r2 = r2
  t1 = t1
  t2 = t2
  n1 = n1
  n2 = n2
  p1 = p1
  p2 = p2
  Rows <- RowsAB
  NoRow = none
  StoreOf <- StoresAB
  Opening <- Opening20
  MaxQty = 2
  MaxTime = 3
  MaxLines = 2
  SaleKeys = {k1}
  PurchaseKeys = {}
  SaleReturnKeys = {}
  PurchaseReturnKeys = {}
  AdjustmentKeys = {}
  ReservationIds = {n1, n2}
  ReservationTTL = 1
  ReadyTTL = 1
  ProcurementIds = {p1}
  RequestedTTL = 1
  AcceptedTTL = 1
  ReceiveTTL = 1
INVARIANTS HoldReconciliation StockAccounted HoldsBacked HoldsHaveTheirDocuments
PROPERTIES OverdueOnlyExpires KeepsPromise HoldsEnd
