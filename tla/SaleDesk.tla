------------------------------ MODULE SaleDesk ------------------------------
(***************************************************************************)
(* A sale at the counter as far as prices, taxes and stock go              *)
(* (internal/sales/service.go, Create), over the catalogue and the tax     *)
(* desk.  Who pays, when, and what is owed then is in CounterDocuments and *)
(* StoreBooks; here a sale has one line and is paid at once.               *)
(***************************************************************************)
EXTENDS Catalog, TaxDesk, Sums

CONSTANTS
  Requests,      \* the sales that may be asked for
  ProductForms,  \* what may be filled in for a product: frac, price, units
  Files,         \* catalogues that may be imported, with their keys
  BreakForms,    \* quantity breaks
  Margins,
  Prices,        \* of network offers
  TaxForms,      \* tax settings
  RateForms,     \* versions of tax rates
  MaxWork,       \* bound: changes made to the books
  MaxSales       \* bound: sales

\* What alternate units may say: factors are checked later, by ValidUnits.
IsUnitForm(units) ==
  \A u \in DOMAIN units : units[u].factor \in Int /\ units[u].sale \in BOOLEAN

\* What normalizeImportRows leaves of a row.
IsFileRow(row) ==
  /\ row.product \in Products
  /\ row.onHand \in Nat /\ row.cost \in Nat
  /\ IsUnitForm(row.units)

\* A request: product, unit, qty, customer, price, reason (is one given), role
\* of who asks, source and invoice mode.
ASSUME SaleDeskAssumption ==
  /\ \A r \in Requests : /\ r.product \in Products /\ r.unit \in Units
                         /\ r.qty \in Nat \ {0} /\ r.price \in Nat
  /\ \A f \in ProductForms : IsUnitForm(f.units)
  /\ \A f \in Files : \A i \in DOMAIN f.rows : IsFileRow(f.rows[i])
  /\ \A b \in BreakForms : DOMAIN b \subseteq Nat
  /\ TaxForms \subseteq Settings
  /\ MaxWork \in Nat /\ MaxSales \in Nat

VARIABLES work, sales    \* what has been done so far, for the bounds

deskVars == <<priceVars, productVars, stockVars, taxVars, work, sales>>

DeskInit ==
  /\ CatalogInit
  /\ TaxInit
  /\ work = 0
  /\ sales = 0

RowOf(r) == unit[r.product][r.unit]
BaseQtyOf(r) == BaseQty(r.qty, RowOf(r))
CostOf(r) == stock[r.product].cost

-----------------------------------------------------------------------------
(* resolveSalePrice *)

\* Mistake: a package's place in the tiers of the base unit is looked up by the
\* number of packages.
TierOfPackages(r, l) == BreakPrice(r.product, l, Base, r.qty * Parts)

\* A package without a price of its own has the base unit's tier at what it
\* holds.
TierOfBase(r, l) == BreakPrice(r.product, l, Base, BaseQtyOf(r))

SuggestedPrice(r) ==
  LET chosen == SelectedList(r.customer, list)
      default == DefaultList(list)
      own(l) == BreakPrice(r.product, l, r.unit, r.qty * Parts)
      ofBase(l) == IF r.unit = Base THEN {}
                   ELSE OfPack(TierOfBase(r, l), RowOf(r))
  IN  FirstFound(<<own(chosen), own(default), ofBase(chosen), ofBase(default),
                   OfPack(OfferPrice(r.product), RowOf(r))>>)

\* No price is configured, or another one is asked for.
IsOverride(r) == r.price \notin SuggestedPrice(r)

MayOverridePrice(r) ==
  IsOverride(r) =>
    /\ SuggestedPrice(r) = {} \/ r.reason \/ r.source = "edge"
    /\ r.role \in {"cashier", "edge"} => mayOverride

BelowMargin(r) == r.price < MinAllowedPrice(CostOf(r), RowOf(r))

\* A reason is noted for the caller when none is configured.
MayUndercut(r) ==
  BelowMargin(r) =>
    /\ r.role \in {"owner", "admin"}
    /\ r.reason \/ r.source = "edge" \/ SuggestedPrice(r) = {}

-----------------------------------------------------------------------------
(* Create *)

ModeOf(r) == InvoiceMode(r.invoice)
LineTotal(r) == r.qty * r.price

InStock(r) == stock[r.product].exists /\ stock[r.product].on >= BaseQtyOf(r)

\* Whether Create accepts a request.
Accepts(r) ==
  /\ \E l \in Lists : IsDefault(l)
  /\ r.product \in known
  /\ RowOf(r).active /\ RowOf(r).sale
  /\ BaseQtyAllowed(r.qty, RowOf(r), r.product \in fractional)
  /\ InStock(r)
  /\ MayOverridePrice(r)
  /\ MayUndercut(r)
  /\ LineOf(r.product, LineTotal(r), ModeOf(r)) # {}
  /\ InvoiceAllowed(ModeOf(r), r.source)

\* Mistake: the cost of the goods is taken for packages, not for what they hold.
CostOfPackages(r) == r.qty * CostOf(r)

CostOfGoods(r) == Rounded(BaseQtyOf(r) * CostOf(r), Parts)

Sell(r) ==
  /\ Accepts(r)
  /\ stock' = [stock EXCEPT ![r.product].on = @ - BaseQtyOf(r)]
  /\ moves' = [moves EXCEPT ![r.product].other = @ + 1]
  /\ inventory' = inventory - CostOfGoods(r)
  /\ IssueInvoice(ModeOf(r))
  /\ UNCHANGED <<priceVars, productVars, imported, importing>>

-----------------------------------------------------------------------------
PriceWork ==
  \/ ReadPrices
  \/ \E l \in Lists, d \in BOOLEAN :
       \/ CreatePriceList(l, d)
       \/ \E a \in BOOLEAN : UpdatePriceList(l, d, a)
  \/ \E m \in Margins, o \in BOOLEAN : UpdatePriceSettings(m, o)
  \/ \E c \in Customers, l \in Lists \cup {NoList} : AssignPriceList(c, l)
  \/ \E p \in Products :
       \/ \E price \in Prices : UpsertOffer(p, price)
       \/ \E l \in Lists, u \in Units, b \in BreakForms :
            ReplaceProductBreaks(p, l, u, b)

CatalogWork ==
  \/ \E p \in Products, f \in ProductForms :
       \/ CreateProduct(p, f.frac, f.price, f.units)
       \/ ReplaceProductUnits(p, f.frac, f.units)
  \/ \E f \in Files : BeginImport(f.key, f.rows)

ImportWork == ImportRow \/ FinishImport \/ AbandonImport

TaxWork ==
  \/ \E new \in TaxForms : UpdateTaxSettings(new)
  \/ \E new \in RateForms : UpsertRate(new)
  \/ \E p \in Products, c \in Codes \cup {NoCode} : AssignProductTaxCode(p, c)
  \/ NextDay
  \/ \E i \in DOMAIN invoices, type \in {"correction", "cancellation"} :
       RequestInvoiceAction(i, type)

DeskNext ==
  \/ /\ ~ importing.underWay
     /\ work < MaxWork
     /\ work' = work + 1
     /\ UNCHANGED sales
     /\ \/ PriceWork /\ UNCHANGED <<stockVars, taxVars>>
        \/ CatalogWork /\ UNCHANGED taxVars
        \/ TaxWork /\ UNCHANGED <<priceVars, productVars, stockVars>>
  \/ /\ ImportWork
     /\ UNCHANGED <<taxVars, work, sales>>
  \/ /\ ~ importing.underWay
     /\ sales < MaxSales
     /\ sales' = sales + 1
     /\ UNCHANGED work
     /\ \E r \in Requests : Sell(r)

-----------------------------------------------------------------------------
\* A sale that nobody had to explain is at the price the counter was quoted:
\* pricing.Quote and sales.resolveSalePrice, written apart, agree on every
\* customer, list, unit and tier.
SalePriceIsQuoted ==
  \A r \in Requests :
    ~ r.reason /\ r.source # "edge" /\ Accepts(r)
      => QuotedPrice(r.product, r.unit, r.qty, r.customer) \in {{}, {r.price}}

\* Whoever may not undercut the margin cannot sell a unit, whatever it holds and
\* costs, at a price that leaves less: rounding never gives the margin away.
MarginGuarded ==
  \A r \in Requests :
    /\ r.role \in {"cashier", "edge"}
    /\ WholeQty(RowOf(r).factor)
    /\ r.price * Parts * (10000 - margin) < CostOf(r) * RowOf(r).factor * 10000
    => ~ Accepts(r)

\* No catalogue that is imported touches the stock of a product that has a
\* history, were it sold out, imported before, or named twice in one file: only
\* a sale does.
LiveStockKept ==
  [][sales' = sales
       => \A p \in Products : moves[p].opening + moves[p].other > 0
                               => stock'[p] = stock[p]]_deskVars

\* The INVENTORY account is the stock at its cost, up to half a rial for each
\* movement that was rounded.
InventoryFollowsStock ==
  LET value == SumOf([p \in Products |-> stock[p].on * stock[p].cost], Products)
      count == SumOf([p \in Products |-> moves[p].opening + moves[p].other],
                     Products)
      apart == Parts * inventory - value
  IN  -Parts * count <= 2 * apart /\ 2 * apart <= Parts * count

\* Official numbers rise from invoice to invoice and none of them will be given
\* again, whatever the settings are changed to in between.
OfficialNumbers ==
  \A i \in DOMAIN invoices :
    /\ invoices[i].number < taxes.next
    /\ \A j \in DOMAIN invoices : i < j => invoices[i].number < invoices[j].number
=============================================================================
