SPECIFICATION Spec
CONSTANTS
  part = part
  pcs = pcs
  pack = pack
  retail = retail
  trade = trade
  customer = customer
  vat = vat
  Products = {part}
  Parts = 2
  Units = {pcs, pack}
  Base = pcs
  Lists = {retail, trade}
  Retail = retail
  Customers = {customer}
  NoCustomer = NoCustomer
  NoList = NoList
  Codes = {vat}
  NoCode = NoCode
  Series = {"A", "B"}
  LastDay = 1
  Requests <- MCRequests
  ProductForms <- MCProductForms
  Files <- MCFiles
  BreakForms <- MCBreakForms
  Margins = {2000}
  Prices = {6}
  TaxForms <- MCTaxForms
  RateForms <- MCRateForms
  MaxWork = 4
  MaxSales = 2
  LastDate = 1
  Amounts = {1}
  Counts = {3}
  ExpenseKeys = {e1}
  CloseKeys = {k1, k2}
  MaxDocuments = 2
  Vehicles = {car}
  Stores = {store}
  Mechanics = {mechanic}
  mechanic = mechanic
  Nobody = Nobody
  Calls = {c1, c2}
  LastCode = 3
  MaxNotes = 1
  Jobs = {j1, j2}
  Purchases = {bumper}
  bumper = bumper
  NoPurchase = NoPurchase
  Bought <- MCBought
  Items <- MCItems
  Payments = {2}
  MaxItems = 2
  MaxPayments = 2
SYMMETRY MCSymmetry
INVARIANTS
  SalePriceIsQuoted
  MarginGuarded
  InventoryFollowsStock
  OfficialNumbers
  ChangeIsReported
  ReportsFollowJournal
  CompletedJobsAreHistory
  JobsAddUp
  RetiredCodesFail
PROPERTIES
  LiveStockKept
CHECK_DEADLOCK FALSE
