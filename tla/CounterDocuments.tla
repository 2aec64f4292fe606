-------------------------- MODULE CounterDocuments --------------------------
(***************************************************************************)
(* The documents a store posts at its own counter: sales, purchases, the   *)
(* returns of both, and stock adjustments (internal/sales, purchases,      *)
(* returns, inventory).  Money is not modelled here, only what the         *)
(* documents do to the stock.                                              *)
(*                                                                         *)
(* A client repeats a request with the same idempotency key until it has   *)
(* the answer.  A repeated request finds its document and commits nothing, *)
(* which is a stuttering step: the guard ~Posted of each action is the     *)
(* lookup by key.                                                          *)
(*                                                                         *)
(* A sale has up to MaxLines lines, because CreateSale checks every line   *)
(* before it updates any balance.  The other documents have one line: the  *)
(* loops of their handlers read what the previous line wrote, so several   *)
(* lines do what as many documents of one line do.                         *)
(***************************************************************************)
EXTENDS Stock

CONSTANTS
  SaleKeys, PurchaseKeys, SaleReturnKeys, PurchaseReturnKeys, AdjustmentKeys,
  MaxLines      \* lines of one sale

ASSUME CounterAssumption == MaxLines \in Nat \ {0}

VARIABLES
  saleReturnItems,      \* sales_return_items, each naming its sale line
  purchaseReturnItems,  \* purchase_return_items, each naming its purchase
  adjustments           \* inventory_adjustments, "in" or "out"

counterVars == <<saleReturnItems, purchaseReturnItems, adjustments>>

SaleLines(keys, n) == [key : keys, line : 1 .. n, row : Rows, qty : Qty]
PurchaseLines(keys) == [key : keys, row : Rows, qty : Qty]

CounterInit ==
  /\ saleReturnItems = {}
  /\ purchaseReturnItems = {}
  /\ adjustments = {}

-----------------------------------------------------------------------------
\* The items of a sale request: lines of products of one warehouse, the same
\* product perhaps on several lines.
SaleRequests ==
  {items \in UNION {[1 .. n -> [row : Rows, qty : Qty]] : n \in 1 .. MaxLines} :
     \A i, j \in DOMAIN items : StoreOf[items[i].row] = StoreOf[items[j].row]}

ItemsOf(k, items) ==
  {[key |-> k, line |-> i, row |-> items[i].row, qty |-> items[i].qty] :
     i \in DOMAIN items}

\* Each line is compared with the balance as it stands before the sale; the
\* lines of one product together are only held back by the table's checks.
CreateSale(k, items) ==
  /\ ~ Posted(saleItems, k)
  /\ \A i \in DOMAIN items : items[i].qty <= Available(items[i].row)
  /\ UpdateBalances(Shipped(ItemsOf(k, items)), reserved)
  /\ saleItems' = saleItems \cup ItemsOf(k, items)
  /\ UNCHANGED <<now, purchaseItems, counterVars>>

\* Mistake: a repeated request posts its purchase again.
CreatePurchaseRepeated(k, r, q) ==
  /\ UpdateBalances([onHand EXCEPT ![r] = @ + q], reserved)
  /\ purchaseItems' = purchaseItems \cup {[key |-> k, row |-> r, qty |-> q]}
  /\ UNCHANGED <<now, saleItems, counterVars>>

CreatePurchase(k, r, q) ==
  /\ ~ Posted(purchaseItems, k)
  /\ UpdateBalances([onHand EXCEPT ![r] = @ + q], reserved)
  /\ purchaseItems' = purchaseItems \cup {[key |-> k, row |-> r, qty |-> q]}
  /\ UNCHANGED <<now, saleItems, counterVars>>

\* What has come back of a sale line, and of a purchase.
ReturnsOfSale(s) ==
  {t \in saleReturnItems : t.sale = s.key /\ t.line = s.line}
ReturnsOfPurchase(p) == {t \in purchaseReturnItems : t.purchase = p.key}

\* Mistake: earlier returns of the same line are forgotten.
CreateSaleReturnForgetful(k, s, q) ==
  /\ ~ Posted(saleReturnItems, k)
  /\ q <= s.qty
  /\ UpdateBalances([onHand EXCEPT ![s.row] = @ + q], reserved)
  /\ saleReturnItems' = saleReturnItems \cup
       {[key |-> k, sale |-> s.key, line |-> s.line, row |-> s.row, qty |-> q]}
  /\ UNCHANGED <<now, saleItems, purchaseItems, purchaseReturnItems, adjustments>>

CreateSaleReturn(k, s, q) ==
  /\ ~ Posted(saleReturnItems, k)
  /\ q <= s.qty - Total(ReturnsOfSale(s), s.row)
  /\ UpdateBalances([onHand EXCEPT ![s.row] = @ + q], reserved)
  /\ saleReturnItems' = saleReturnItems \cup
       {[key |-> k, sale |-> s.key, line |-> s.line, row |-> s.row, qty |-> q]}
  /\ UNCHANGED <<now, saleItems, purchaseItems, purchaseReturnItems, adjustments>>

CreatePurchaseReturn(k, p, q) ==
  /\ ~ Posted(purchaseReturnItems, k)
  /\ q <= p.qty - Total(ReturnsOfPurchase(p), p.row)
  /\ q <= Available(p.row)
  /\ UpdateBalances([onHand EXCEPT ![p.row] = @ - q], reserved)
  /\ purchaseReturnItems' = purchaseReturnItems \cup
       {[key |-> k, purchase |-> p.key, row |-> p.row, qty |-> q]}
  /\ UNCHANGED <<now, saleItems, purchaseItems, saleReturnItems, adjustments>>

\* A correction of the count, up ("in") or down ("out").
Adjust(k, r, q, dir) ==
  LET counted == IF dir = "in" THEN onHand[r] + q ELSE onHand[r] - q
  IN  /\ ~ Posted(adjustments, k)
      /\ counted >= reserved[r]
      /\ UpdateBalances([onHand EXCEPT ![r] = counted], reserved)
      /\ adjustments' = adjustments \cup
           {[key |-> k, row |-> r, qty |-> q, dir |-> dir]}
      /\ UNCHANGED <<now, saleItems, purchaseItems, saleReturnItems,
                     purchaseReturnItems>>

CounterNext ==
  \/ \E k \in SaleKeys, items \in SaleRequests : CreateSale(k, items)
  \/ \E k \in PurchaseKeys, r \in Rows, q \in Qty : CreatePurchase(k, r, q)
  \/ \E k \in SaleReturnKeys, s \in saleItems, q \in Qty :
       CreateSaleReturn(k, s, q)
  \/ \E k \in PurchaseReturnKeys, p \in purchaseItems, q \in Qty :
       CreatePurchaseReturn(k, p, q)
  \/ \E k \in AdjustmentKeys, r \in Rows, q \in Qty, dir \in {"in", "out"} :
       Adjust(k, r, q, dir)
=============================================================================
