----------------------------- MODULE PriceLists -----------------------------
(***************************************************************************)
(* Price lists, quantity breaks, the margin a store insists on, and the    *)
(* price a product is quoted at (internal/pricing), with the two writers   *)
(* of other packages: the list of a customer and the network offer.  One   *)
(* store and one warehouse.                                                *)
(***************************************************************************)
EXTENDS ProductUnits, FiniteSets

CONSTANTS
  Units,           \* codes of units; a product's base unit is Base
  Base,
  Lists,           \* codes of price lists
  Retail,          \* the one that is made by itself
  Customers,
  NoCustomer,
  NoList

ASSUME PriceListsAssumption ==
  /\ Base \in Units
  /\ Retail \in Lists
  /\ NoCustomer \notin Customers
  /\ NoList \notin Lists

VARIABLES
  list,        \* list -> "none", "inactive", "active", or "default"
  margin,      \* min_margin_bps
  mayOverride, \* cashier_may_override
  breaks,      \* rows of product_price_breaks
  offer,       \* product -> selling price of its network offer, 0 for none
  listOf,      \* customer -> customers.price_list_id
  known,       \* products that exist
  fractional,  \* those of them with allow_fractional_base_qty
  unit         \* product -> code -> row of product_units

priceVars == <<list, margin, mayOverride, breaks, offer, listOf>>
productVars == <<known, fractional, unit>>

\* A row of product_units.  Every unit here can be bought, not every one sold.
NoUnit == [factor |-> 0, sale |-> FALSE, active |-> FALSE]

PriceInit ==
  /\ list = [l \in Lists |-> "none"]
  /\ margin = 1000
  /\ mayOverride = TRUE
  /\ breaks = {}
  /\ offer = [p \in Products |-> 0]
  /\ listOf = [c \in Customers |-> NoList]
  /\ known = {}
  /\ fractional = {}
  /\ unit = [p \in Products |-> [u \in Units |-> NoUnit]]

Active(l) == list[l] \in {"active", "default"}
IsDefault(l) == list[l] = "default"

\* INSERT INTO price_lists ... WHERE NOT EXISTS (a default): what every reader
\* and writer of prices begins with.
WithDefault ==
  IF \E l \in Lists : IsDefault(l) THEN list
  ELSE [list EXCEPT ![Retail] = IF @ = "none" THEN "default" ELSE @]

\* The rows of product_price_breaks with some rows written over their keys.
Key(b) == <<b.product, b.list, b.unit, b.min>>
Upserted(rows, new) == {b \in rows : \A n \in new : Key(n) # Key(b)} \cup new

-----------------------------------------------------------------------------
(* Lists and settings *)

\* ListPriceLists and GetSettings.
ReadPrices ==
  /\ list' = WithDefault
  /\ UNCHANGED <<margin, mayOverride, breaks, offer, listOf, productVars>>

\* The default list is made even when the code is taken and nothing else is.
CreatePriceList(l, default) ==
  /\ list' = IF WithDefault[l] # "none" THEN WithDefault
             ELSE [x \in Lists |->
                     CASE x = l -> IF default THEN "default" ELSE "active"
                       [] x # l /\ default /\ WithDefault[x] = "default"
                            -> "active"
                       [] OTHER -> WithDefault[x]]
  /\ UNCHANGED <<margin, mayOverride, breaks, offer, listOf, productVars>>

UpdatePriceList(l, default, active) ==
  /\ default => active
  /\ list[l] # "none"
  /\ IsDefault(l) => default
  /\ list' = [x \in Lists |->
                CASE x = l -> IF default THEN "default"
                              ELSE IF active THEN "active" ELSE "inactive"
                  [] x # l /\ default /\ IsDefault(x) -> "active"
                  [] OTHER -> list[x]]
  /\ UNCHANGED <<margin, mayOverride, breaks, offer, listOf, productVars>>

UpdatePriceSettings(bps, override) ==
  /\ bps \in 0 .. 9000
  /\ list' = WithDefault
  /\ margin' = bps
  /\ mayOverride' = override
  /\ UNCHANGED <<breaks, offer, listOf, productVars>>

\* Breaks are given as a function of the quantity they begin at.
ReplaceProductBreaks(p, l, u, new) ==
  /\ Active(l)
  /\ p \in known
  /\ unit[p][u].active /\ unit[p][u].sale
  /\ breaks' =
       {b \in breaks : <<b.product, b.list, b.unit>> # <<p, l, u>>}
         \cup {[product |-> p, list |-> l, unit |-> u, min |-> m,
                price |-> new[m]] : m \in DOMAIN new}
  /\ UNCHANGED <<list, margin, mayOverride, offer, listOf, productVars>>

\* customers.AssignPriceList and network.UpsertOffer.
AssignPriceList(c, l) ==
  /\ l # NoList => Active(l)
  /\ listOf' = [listOf EXCEPT ![c] = l]
  /\ UNCHANGED <<list, margin, mayOverride, breaks, offer, productVars>>

UpsertOffer(p, price) ==
  /\ price > 0
  /\ p \in known
  /\ offer' = [offer EXCEPT ![p] = price]
  /\ UNCHANGED <<list, margin, mayOverride, breaks, listOf, productVars>>

-----------------------------------------------------------------------------
(* The price of a unit of a product: here the set of what is found, empty or *)
(* with one price.                                                           *)

\* ORDER BY min_qty DESC LIMIT 1.  Base quantities are given in parts, the
\* minima in whole units.
BreakPrice(p, l, u, parts) ==
  LET reached == {b \in breaks :
                    /\ <<b.product, b.list, b.unit>> = <<p, l, u>>
                    /\ b.min * Parts <= parts}
  IN  {b.price : b \in {x \in reached : \A y \in reached : y.min <= x.min}}

FirstFound(tries) ==
  LET found == {i \in DOMAIN tries : tries[i] # {}}
  IN  IF found = {} THEN {}
      ELSE tries[CHOOSE i \in found : \A j \in found : i <= j]

DefaultList(lists) == CHOOSE l \in Lists : lists[l] = "default"

\* The customer's list while it is active, and the default one otherwise.
SelectedList(c, lists) ==
  IF c # NoCustomer /\ listOf[c] # NoList
       /\ lists[listOf[c]] \in {"active", "default"}
  THEN listOf[c] ELSE DefaultList(lists)

OfPack(prices, row) == {CommercialMoney(x, row) : x \in prices}
OfferPrice(p) == IF offer[p] = 0 THEN {} ELSE {offer[p]}

\* quoteLine: what the customer is quoted.
QuotedPrice(p, u, qty, c) ==
  LET row == unit[p][u]
      chosen == SelectedList(c, WithDefault)
      default == DefaultList(WithDefault)
      own(l) == BreakPrice(p, l, u, qty * Parts)
      ofBase(l) == IF u = Base THEN {}
                   ELSE OfPack(BreakPrice(p, l, Base, BaseQty(qty, row)), row)
  IN  FirstFound(<<own(chosen), own(default), ofBase(chosen), ofBase(default),
                   OfPack(OfferPrice(p), row)>>)

\* Mistake: the price that keeps the margin is rounded down.
MinimumPriceRoundedDown(cost) ==
  IF cost = 0 \/ margin = 0 THEN cost
  ELSE (cost * 10000) \div (10000 - margin)

\* The lowest price of a base unit that keeps the margin, and of another unit.
MinimumPriceForMargin(cost) ==
  IF cost = 0 \/ margin = 0 THEN cost
  ELSE (cost * 10000 + (10000 - margin) - 1) \div (10000 - margin)

MinAllowedPrice(cost, row) ==
  CommercialMoney(MinimumPriceForMargin(cost), row)
=============================================================================
