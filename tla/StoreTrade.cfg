\* Network sales, their returns, settlements, and the trade account.
SPECIFICATION Spec
CONSTANTS
  c1 = c1
  s1 = s1
  s2 = s2
  none = none
  k1 = k1
  k2 = k2
  t1 = t1
  t2 = t2
  h1 = h1
  h2 = h2
  e1 = e1
  e2 = e2
  e3 = e3
  n1 = n1
  n2 = n2
  m1 = m1
  q1 = q1
  q2 = q2
  NoParty = none
  NoBank = none
  NoMechanic = none
  NoReservation = none
  Customers = {c1}
  Suppliers = {s1}
  MaxQty = 3
  MaxUnits = 2
  SaleKeys = {}
  PurchaseKeys = {}
  SaleReturnKeys = {t1, t2}
  PurchaseReturnKeys = {}
  SettlementKeys = {k1}
  CheckKeys = {}
  TransitionKeys = {}
  BankAccounts = {}
  ReservationIds = {n1, n2}
  Buyer <- OneBuys
  Price <- Prices
  Mechanics = {m1}
  RequestIds = {q1, q2}
  RequestTypes = {"return", "adjustment_debit"}
SYMMETRY TradeSymmetry
INVARIANTS LedgersReconcile TradeBalanceConfirmed ChargedOnce WholeReturnsAddUp
CHECK_DEADLOCK FALSE
