---------------------------- MODULE PartyLedger ----------------------------
(***************************************************************************)
(* What a store's counter documents do to its money: the balances of its   *)
(* general-ledger accounts and what each customer and supplier owes or is  *)
(* owed (internal/sales, purchases, returns, finance).  Stock is modelled  *)
(* in CounterDocuments; here a document has amounts and a party.           *)
(*                                                                         *)
(* Each handler is one Serializable transaction.  A request repeated with  *)
(* the same idempotency key finds its document and commits nothing: the    *)
(* guard ~Known of an action is that lookup.                               *)
(*                                                                         *)
(* Cash and card clearing are one account CASH, all the bank accounts are  *)
(* one account BANK, and the accounts no party ever owes anything on       *)
(* (sales, tax, inventory, cost of goods) are left out.  A sale or         *)
(* purchase has one line, and a sale carries no tax: a return rounds the   *)
(* tax of a line apart from its net amount, and in the same way.           *)
(***************************************************************************)
EXTENDS LineTotals

CONSTANTS
  Customers, Suppliers, NoParty,
  SaleKeys, PurchaseKeys, SaleReturnKeys, PurchaseReturnKeys, SettlementKeys,
  MaxUnits      \* units on one document; MaxQty bounds its money too

ASSUME PartyAssumption ==
  /\ NoParty \notin Customers \cup Suppliers
  /\ Customers \cap Suppliers = {}
  /\ MaxUnits \in Nat \ {0} /\ MaxUnits <= MaxQty

VARIABLES
  accounts,          \* journal_entries: debit minus credit of each account
  owed,              \* party_ledger_entries: what a customer owes the store,
                     \* what the store owes a supplier
  sales, purchases, saleReturns, purchaseReturns, settlements

bookVars == <<accounts, owed>>
documentVars == <<sales, purchases, saleReturns, purchaseReturns, settlements>>

Parties == Customers \cup Suppliers
Accounts == {"CASH", "BANK", "AR", "AP", "CHEQUES_RECEIVABLE", "CHEQUES_PAYABLE"}

LedgerInit ==
  /\ accounts = [a \in Accounts |-> 0]
  /\ owed = [p \in Parties |-> 0]
  /\ sales = {} /\ purchases = {}
  /\ saleReturns = {} /\ purchaseReturns = {} /\ settlements = {}

-----------------------------------------------------------------------------
Known(docs, k) == \E d \in docs : d.key = k

\* The documents as lines of LineTotals: the row is the field who, the
\* quantity the field what.  Lines without an amount are dropped.
Lines(docs, who, what) ==
  {[doc |-> d, row |-> d[who], qty |-> d[what]] :
     d \in {e \in docs : e[what] > 0}}

\* One journal: moves gives the accounts it debits (positive) or credits.
Post(moves) ==
  accounts' = [a \in Accounts |->
                 accounts[a] + (IF a \in DOMAIN moves THEN moves[a] ELSE 0)]

\* One entry in the party ledger, none when there is no amount or no party.
Owe(p, amount) ==
  owed' = [q \in Parties |-> IF q = p THEN owed[q] + amount ELSE owed[q]]

-----------------------------------------------------------------------------
\* Mistake: payments may exceed the total.
PostSaleOverpaid(k, c, units, total, paid) ==
  /\ ~ Known(sales, k)
  /\ sales' = sales \cup {[key |-> k, party |-> c, units |-> units,
                           total |-> total, due |-> total - paid]}
  /\ Post([CASH |-> paid, AR |-> total - paid])
  /\ Owe(c, total - paid)

\* A sale paid in part: what is left is due from a customer.
PostSale(k, c, units, total, paid) ==
  /\ ~ Known(sales, k)
  /\ paid <= total
  /\ sales' = sales \cup {[key |-> k, party |-> c, units |-> units,
                           total |-> total, due |-> total - paid]}
  /\ Post([CASH |-> paid, AR |-> total - paid])
  /\ Owe(c, total - paid)

CreateSale(k, c, units, total, paid) ==
  /\ paid < total => c # NoParty
  /\ PostSale(k, c, units, total, paid)
  /\ UNCHANGED <<purchases, saleReturns, purchaseReturns, settlements>>

CreatePurchase(k, s, units, cost, paid) ==
  /\ ~ Known(purchases, k)
  /\ paid <= units * cost
  /\ purchases' = purchases \cup
       {[key |-> k, party |-> s, units |-> units, cost |-> cost,
         due |-> units * cost - paid]}
  /\ Post([CASH |-> 0 - paid, AP |-> paid - units * cost])
  /\ Owe(s, units * cost - paid)
  /\ UNCHANGED <<sales, saleReturns, purchaseReturns, settlements>>

-----------------------------------------------------------------------------
\* What came back of a document, in units and in money.
ReturnsOf(returns, d) == {t \in returns : t.source = d.key}
UnitsBack(returns, d) ==
  Total(Lines(ReturnsOf(returns, d), "source", "units"), d.key)
MoneyBack(returns, d) ==
  Total(Lines(ReturnsOf(returns, d), "source", "amount"), d.key)

\* math.Round of n/m for n >= 0, m > 0.
Rounded(n, m) == (2 * n + m) \div (2 * m)

\* Mistake: the last units back are refunded in proportion like the others.
RefundProportional(s, q) == Rounded(s.total * q, s.units)

\* The last units back are refunded whatever the earlier returns left.
Refund(s, q) ==
  IF q = s.units - UnitsBack(saleReturns, s)
  THEN s.total - MoneyBack(saleReturns, s)
  ELSE Rounded(s.total * q, s.units)

RefundMethods == {"cash", "credit_balance"}
RefundAccount(method, balanceAccount) ==
  IF method = "cash" THEN "CASH" ELSE balanceAccount

\* A refund is paid out, or taken off what the party owes or is owed.
OweLess(method, p, amount) ==
  Owe(IF method = "credit_balance" THEN p ELSE NoParty, 0 - amount)

\* Mistake: what nobody owes is taken off a balance.
CreateSaleReturnOfAnyone(k, s, q, method) ==
  LET amount == Refund(s, q)
  IN  /\ ~ Known(saleReturns, k)
      /\ q <= s.units - UnitsBack(saleReturns, s)
      /\ amount > 0
      /\ saleReturns' = saleReturns \cup
           {[key |-> k, source |-> s.key, party |-> s.party, units |-> q,
             amount |-> amount, method |-> method]}
      /\ Post([a \in {RefundAccount(method, "AR")} |-> 0 - amount])
      /\ OweLess(method, s.party, amount)
      /\ UNCHANGED <<sales, purchases, purchaseReturns, settlements>>

CreateSaleReturn(k, s, q, method) ==
  LET amount == Refund(s, q)
  IN  /\ ~ Known(saleReturns, k)
      /\ method = "credit_balance" => s.party # NoParty
      /\ q <= s.units - UnitsBack(saleReturns, s)
      /\ amount > 0
      /\ saleReturns' = saleReturns \cup
           {[key |-> k, source |-> s.key, party |-> s.party, units |-> q,
             amount |-> amount, method |-> method]}
      /\ Post([a \in {RefundAccount(method, "AR")} |-> 0 - amount])
      /\ OweLess(method, s.party, amount)
      /\ UNCHANGED <<sales, purchases, purchaseReturns, settlements>>

CreatePurchaseReturn(k, p, q, method) ==
  LET amount == q * p.cost
  IN  /\ ~ Known(purchaseReturns, k)
      /\ q <= p.units - UnitsBack(purchaseReturns, p)
      /\ purchaseReturns' = purchaseReturns \cup
           {[key |-> k, source |-> p.key, party |-> p.party, units |-> q,
             amount |-> amount, method |-> method]}
      /\ Post([a \in {RefundAccount(method, "AP")} |-> amount])
      /\ OweLess(method, p.party, amount)
      /\ UNCHANGED <<sales, purchases, saleReturns, settlements>>

-----------------------------------------------------------------------------
\* What can be settled with party p, in money or by cheque.
Payable(p, amount) == 0 < amount /\ amount <= owed[p]

\* The journal of a settlement of p's debt through the account money.
Settling(p, money, amount) ==
  IF p \in Customers
  THEN Post([a \in {money, "AR"} |-> IF a = money THEN amount ELSE 0 - amount])
  ELSE Post([a \in {money, "AP"} |-> IF a = money THEN 0 - amount ELSE amount])

CreateSettlement(k, p, amount) ==
  /\ ~ Known(settlements, k)
  /\ Payable(p, amount)
  /\ settlements' = settlements \cup {[key |-> k, party |-> p, amount |-> amount]}
  /\ Settling(p, "CASH", amount)
  /\ Owe(p, 0 - amount)
  /\ UNCHANGED <<sales, purchases, saleReturns, purchaseReturns>>

LedgerNext ==
  \/ \E k \in SaleKeys, c \in Customers \cup {NoParty}, n \in 1 .. MaxUnits,
        total \in Qty, paid \in 0 .. MaxQty : CreateSale(k, c, n, total, paid)
  \/ \E k \in PurchaseKeys, s \in Suppliers, n \in 1 .. MaxUnits, cost \in Qty,
        paid \in 0 .. MaxQty :
       n * cost <= MaxQty /\ CreatePurchase(k, s, n, cost, paid)
  \/ \E k \in SaleReturnKeys, s \in sales, q \in 1 .. MaxUnits,
        method \in RefundMethods : CreateSaleReturn(k, s, q, method)
  \/ \E k \in PurchaseReturnKeys, p \in purchases, q \in 1 .. MaxUnits,
        method \in RefundMethods : CreatePurchaseReturn(k, p, q, method)
  \/ \E k \in SettlementKeys, p \in Parties, amount \in Qty :
       CreateSettlement(k, p, amount)
=============================================================================
