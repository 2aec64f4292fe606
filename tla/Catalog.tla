------------------------------ MODULE Catalog ------------------------------
(***************************************************************************)
(* Products, their units, and the import of a catalogue with its opening   *)
(* stock (internal/catalog), over the price lists it writes to.            *)
(*                                                                         *)
(* Which product a row of a file means is settled before (findImportProduct *)
(* by SKU, barcode or title): two rows may mean the same one, if they name  *)
(* it in different ways.                                                   *)
(***************************************************************************)
EXTENDS PriceLists

VARIABLES
  stock,      \* product -> its row of inventory_balances (on hand in parts)
  moves,      \* product -> movements recorded, the opening ones apart
  inventory,  \* balance of the INVENTORY account
  imported,   \* idempotency keys of catalog_import_batches
  importing   \* the import under way: its file, its rows done, its transaction

stockVars == <<stock, moves, inventory, imported, importing>>

NoImport == [underWay |-> FALSE]

NoRow == [exists |-> FALSE, on |-> 0, cost |-> 0]

CatalogInit ==
  /\ PriceInit
  /\ stock = [p \in Products |-> NoRow]
  /\ moves = [p \in Products |-> [opening |-> 0, other |-> 0]]
  /\ inventory = 0
  /\ imported = {}
  /\ importing = NoImport

HasMovement(s, p) == s.moves[p].opening + s.moves[p].other > 0

\* Alternate units come as a function of their codes.
ValidUnits(units, frac) ==
  /\ Base \notin DOMAIN units
  /\ \A u \in DOMAIN units : /\ units[u].factor > 0
                             /\ frac \/ WholeQty(units[u].factor)

BaseUnit == [factor |-> Parts, sale |-> TRUE, active |-> TRUE]

\* The rows of a product's units after some are written over their codes.
UnitsUpserted(rows, units) ==
  [u \in Units |-> IF u \in DOMAIN units
                   THEN [factor |-> units[u].factor, sale |-> units[u].sale,
                         active |-> TRUE]
                   ELSE rows[u]]

\* The break at one unit for each price given in a file or form, 0 for none.
FirstBreaks(p, l, price, units) ==
  LET given == [u \in DOMAIN units \cup {Base} |->
                  IF u = Base THEN price ELSE units[u].price]
  IN  {[product |-> p, list |-> l, unit |-> u, min |-> 1, price |-> given[u]] :
         u \in {x \in DOMAIN given : given[x] > 0}}

-----------------------------------------------------------------------------
(* One product at a time *)

CreateProduct(p, frac, price, units) ==
  /\ p \notin known
  /\ ValidUnits(units, frac)
  /\ known' = known \cup {p}
  /\ fractional' = IF frac THEN fractional \cup {p} ELSE fractional
  /\ unit' = [unit EXCEPT ![p] =
                UnitsUpserted([@ EXCEPT ![Base] = BaseUnit], units)]
  /\ IF FirstBreaks(p, Retail, price, units) = {}
     THEN UNCHANGED <<list, breaks>>
     ELSE /\ list' = WithDefault
          /\ breaks' = Upserted(breaks,
               FirstBreaks(p, DefaultList(WithDefault), price, units))
  /\ UNCHANGED <<margin, mayOverride, offer, listOf, stockVars>>

\* The breaks of a unit stay when it is taken out of use or its factor changes.
ReplaceProductUnits(p, frac, units) ==
  /\ p \in known
  /\ ValidUnits(units, frac)
  /\ frac \/ WholeQty(stock[p].on)
  /\ fractional' = IF frac THEN fractional \cup {p} ELSE fractional \ {p}
  /\ unit' = [unit EXCEPT ![p] =
                UnitsUpserted([u \in Units |-> IF u = Base THEN BaseUnit
                                 ELSE [@[u] EXCEPT !.active = FALSE]], units)]
  /\ UNCHANGED <<priceVars, known, stockVars>>

-----------------------------------------------------------------------------
(* A file: one transaction, row by row.  It is serializable, so that nothing *)
(* else is done between its rows, and nobody sees them before all are in.    *)

\* normalizeImportRows, for what a row says of stock.
ValidRow(row) == row.onHand > 0 => row.cost > 0

RowValue(row) == Rounded(row.onHand * row.cost, Parts)

\* Mistake: stock that was sold out counts as stock that was never opened.
WithOpeningStockAgain(s, row) ==
  LET p == row.product
  IN  IF s.stock[p].on # 0 THEN s
      ELSE [s EXCEPT !.stock[p] = [exists |-> TRUE, on |-> row.onHand,
                                   cost |-> row.cost],
                     !.moves[p].opening = @ + (IF row.onHand > 0 THEN 1 ELSE 0),
                     !.value = @ + RowValue(row)]

\* initializeImportInventory and recordOpeningMovement: stock is opened where
\* there is no row, or one that nothing ever moved.  Nothing is reserved here: a
\* hold needs stock, and stock has a movement.
WithOpeningStock(s, row) ==
  LET p == row.product
  IN  IF s.stock[p].exists /\ (s.stock[p].on # 0 \/ HasMovement(s, p)) THEN s
      ELSE [s EXCEPT !.stock[p] = [exists |-> TRUE, on |-> row.onHand,
                                   cost |-> row.cost],
                     !.moves[p].opening = @ + (IF row.onHand > 0 THEN 1 ELSE 0),
                     !.value = @ + RowValue(row)]

\* The product, its base unit, and the package whose barcode the row gives to
\* the base unit; then the packages of the row.
WithProduct(s, row) ==
  LET p == row.product
      rows == [u \in Units |->
                 CASE u = Base -> BaseUnit
                   [] u \in row.takes -> [s.unit[p][u] EXCEPT !.active = FALSE]
                   [] OTHER -> s.unit[p][u]]
  IN  [s EXCEPT !.known = @ \cup {p},
                !.fractional = IF row.fractional THEN @ \cup {p} ELSE @,
                !.unit[p] = UnitsUpserted(rows, row.units)]

WithPrices(s, row, l) ==
  [s EXCEPT !.breaks = Upserted(@, FirstBreaks(row.product, l, row.price,
                                               row.units)),
            !.offer[row.product] = IF row.price > 0 THEN row.price ELSE @]

WithRow(s, row) ==
  WithPrices(WithOpeningStock(WithProduct(s, row), row), row,
             DefaultList(WithDefault))

\* What a transaction finds, and an import's value of the stock it opened.
Found == [known |-> known, fractional |-> fractional, unit |-> unit,
          breaks |-> breaks, offer |-> offer, stock |-> stock, moves |-> moves,
          value |-> 0]

\* A key that was used before answers what was done then.
BeginImport(key, rows) ==
  /\ ~ importing.underWay
  /\ key \notin imported
  /\ \A i \in DOMAIN rows : ValidRow(rows[i])
  /\ importing' = [underWay |-> TRUE, key |-> key, rows |-> rows, done |-> 0,
                   draft |-> Found]
  /\ UNCHANGED <<priceVars, productVars, stock, moves, inventory, imported>>

ImportRow ==
  /\ importing.underWay
  /\ importing.done + 1 \in DOMAIN importing.rows
  /\ LET row == importing.rows[importing.done + 1]
         frac == row.product \in importing.draft.fractional \/ row.fractional
     IN  /\ ValidUnits(row.units, frac)
         /\ importing' = [importing EXCEPT !.done = @ + 1,
                                           !.draft = WithRow(@, row)]
  /\ UNCHANGED <<priceVars, productVars, stock, moves, inventory, imported>>

FinishImport ==
  /\ importing.underWay
  /\ importing.done + 1 \notin DOMAIN importing.rows
  /\ LET end == importing.draft
     IN  /\ list' = WithDefault
         /\ known' = end.known /\ fractional' = end.fractional
         /\ unit' = end.unit /\ breaks' = end.breaks
         /\ offer' = end.offer /\ stock' = end.stock
         /\ moves' = end.moves
         /\ inventory' = inventory + end.value
  /\ imported' = imported \cup {importing.key}
  /\ importing' = NoImport
  /\ UNCHANGED <<margin, mayOverride, listOf>>

\* A row has invalid units, or anything fails: the transaction is rolled back.
AbandonImport ==
  /\ importing.underWay
  /\ importing' = NoImport
  /\ UNCHANGED <<priceVars, productVars, stock, moves, inventory, imported>>
=============================================================================
