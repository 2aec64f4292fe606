\* Cheques of a customer and of two suppliers around two debts.
SPECIFICATION Spec
CONSTANTS
  c1 = c1
  s1 = s1
  s2 = s2
  none = none
  k1 = k1
  k2 = k2
  t1 = t1
  t2 = t2
  h1 = h1
  h2 = h2
  e1 = e1
  e2 = e2
  e3 = e3
  n1 = n1
  n2 = n2
  m1 = m1
  q1 = q1
  q2 = q2
  NoParty = none
  NoBank = none
  NoMechanic = none
  NoReservation = none
  Customers = {c1}
  Suppliers = {s1, s2}
  MaxQty = 2
  MaxUnits = 1
  SaleKeys = {k1}
  PurchaseKeys = {k1, k2}
  SaleReturnKeys = {}
  PurchaseReturnKeys = {t1}
  SettlementKeys = {}
  CheckKeys = {h1, h2}
  TransitionKeys = {e1, e2, e3}
  BankAccounts = {k1}
  ReservationIds = {}
  Buyer <- NoOneBuys
  Price <- NoPrice
  Mechanics = {}
  RequestIds = {}
  RequestTypes = {}
SYMMETRY ChequeSymmetry
INVARIANTS TypeOK DebtsFollowDocuments LedgersReconcile ChequePortfolio ChequeMetadata
  RequestsActOnce NobodyOverpays
CHECK_DEADLOCK FALSE
