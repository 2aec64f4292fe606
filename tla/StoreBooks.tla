----------------------------- MODULE StoreBooks -----------------------------
(***************************************************************************)
(* The books of one store: its counter documents and settlements           *)
(* (PartyLedger), its cheques (Checks) and its network sales with the      *)
(* trade accounts of the mechanics (TradeAccounts), over one general       *)
(* ledger and one party ledger.                                            *)
(***************************************************************************)
EXTENDS Checks, TradeAccounts

vars == <<bookVars, documentVars, checkVars, tradeVars>>

Init == LedgerInit /\ ChecksInit /\ TradeInit

Next ==
  \/ LedgerNext /\ UNCHANGED <<checkVars, tradeVars>>
  \/ ChecksNext /\ UNCHANGED tradeVars
  \/ TradeNext /\ UNCHANGED checkVars

Spec == Init /\ [][Next]_vars

-----------------------------------------------------------------------------
Statuses == {"held", "deposited", "cleared", "bounced", "endorsed", "returned",
             "cancelled", "issued"}

(* Type correctness: every table holds records of its shape, and the       *)
(* amounts of documents are within their bounds.                           *)
TypeOK ==
  /\ accounts \in [Accounts -> Int]
  /\ owed \in [Parties -> Int]
  /\ sales \subseteq [key : SaleKeys \cup ReservationIds,
                      party : Customers \cup {NoParty}, units : 1 .. MaxUnits,
                      total : Qty, due : 0 .. MaxQty]
  /\ purchases \subseteq [key : PurchaseKeys, party : Suppliers,
                          units : 1 .. MaxUnits, cost : Qty, due : 0 .. MaxQty]
  /\ saleReturns \subseteq
       [key : SaleReturnKeys, source : SaleKeys \cup ReservationIds,
        party : Customers \cup {NoParty}, units : 1 .. MaxUnits, amount : Qty,
        method : RefundMethods]
  /\ purchaseReturns \subseteq
       [key : PurchaseReturnKeys, source : PurchaseKeys, party : Suppliers,
        units : 1 .. MaxUnits, amount : Qty, method : RefundMethods]
  /\ settlements \subseteq [key : SettlementKeys, party : Parties, amount : Qty]
  /\ checks \subseteq
       [key : CheckKeys, party : Parties, amount : Qty,
        bank : BankAccounts \cup {NoBank}, endorsee : Suppliers \cup {NoParty},
        direction : {"receivable", "payable"}, status : Statuses]
  /\ checkEvents \subseteq
       [key : TransitionKeys, check : CheckKeys, from : Statuses, to : Statuses,
        action : {"deposit", "clear", "bounce", "endorse", "return_endorsement",
                  "cancel", "return"}]
  /\ requests \subseteq
       [key : RequestIds, mechanic : Mechanics, type : DebitTypes \cup CreditTypes,
        amount : Qty, by : Sides, reservation : ReservationIds \cup {NoReservation},
        status : {"pending", "confirmed", "rejected"}]
  /\ tradeBalance \in [Mechanics -> Int]

-----------------------------------------------------------------------------
\* The amounts of the documents of party p.
Due(docs, p) == Total(Lines(docs, "party", "due"), p)
Amount(docs, p) == Total(Lines(docs, "party", "amount"), p)
OnBalance(returns) == {t \in returns : t.method = "credit_balance"}

\* The cheques of p that stand in for money: not those that bounced or came
\* back to who wrote them.
Standing(p) ==
  IF p \in Customers
  THEN {c \in checks : c.party = p /\ c.status \notin {"bounced", "cancelled"}}
  ELSE {c \in checks : c.party = p /\ c.status \in {"issued", "cleared"}}
EndorsedTo(s) == {c \in checks : c.status = "endorsed" /\ c.endorsee = s}

DebtOf(p) ==
  Due(sales, p) + Due(purchases, p)
    - Amount(OnBalance(saleReturns), p) - Amount(OnBalance(purchaseReturns), p)
    - Amount(settlements, p) - Amount(Standing(p), p)
    - Total(Lines(EndorsedTo(p), "endorsee", "amount"), p)

(* The balance partyBalanceTx adds up for a party is what its documents    *)
(* say: what was left due, less refunds off the balance, settlements, and  *)
(* the cheques that still count, its own or those endorsed to it.  Every   *)
(* transition of a cheque must undo exactly what the earlier ones did, for *)
(* the right party.                                                        *)
DebtsFollowDocuments == \A p \in Parties : owed[p] = DebtOf(p)

(* Accounts Receivable is what the customers owe together, and Accounts    *)
(* Payable what the suppliers are owed: party ledger and journals agree.   *)
(* This is what PHASE_9_RUN.md:74 demands of fulfillment.                  *)
ReceivablesBalanced == accounts["AR"] = SumOf(owed, Customers)

(* What the code keeps of it: Accounts Receivable holds besides the        *)
(* customers' debts what was left due on network sales without a customer, *)
(* and Accounts Payable is what the suppliers are owed.                    *)
LedgersReconcile ==
  /\ accounts["AR"] = SumOf(owed, Customers) + Due(sales, NoParty)
  /\ accounts["AP"] = 0 - SumOf(owed, Suppliers)

ChequesIn(direction, statuses) ==
  {c \in checks : c.direction = direction /\ c.status \in statuses}
Worth(cheques) == Total(Lines(cheques, "direction", "amount"), "receivable")
                    + Total(Lines(cheques, "direction", "amount"), "payable")

(* The accounts of the cheques hold exactly the cheques CheckSummary       *)
(* counts as open, and the banks what was cleared: a cheque becomes money  *)
(* once, and only when it clears.                                          *)
ChequePortfolio ==
  /\ accounts["CHEQUES_RECEIVABLE"] = Worth(ChequesIn("receivable", InHand))
  /\ accounts["CHEQUES_PAYABLE"] = 0 - Worth(ChequesIn("payable", {"issued"}))
  /\ accounts["BANK"] = Worth(ChequesIn("receivable", {"cleared"}))
                          - Worth(ChequesIn("payable", {"cleared"}))

(* The gate ops/rc-db-check.sh:105: a deposited or cleared cheque names    *)
(* its bank account, an endorsed one its supplier; and no other cheque     *)
(* still names the supplier it once was endorsed to.                       *)
ChequeMetadata ==
  \A c \in checks :
    /\ c.status \in {"deposited", "cleared"} => c.bank # NoBank
    /\ c.status = "endorsed" <=> c.endorsee # NoParty

(* Settlements and cheques never take more than is owed: a party is only   *)
(* ever in credit by what it returned.                                     *)
NobodyOverpays ==
  \A p \in Parties :
    owed[p] + Amount(OnBalance(saleReturns), p)
            + Amount(OnBalance(purchaseReturns), p) >= 0

(* A request to move a cheque is carried out once however often it is      *)
(* sent, even when the cheque has come back to a status that allows it.    *)
RequestsActOnce ==
  \A e, f \in checkEvents : e.key = f.key => e = f

(* Returning all the units of a sale gives back its total to the unit of   *)
(* money, whatever the rounding of the parts.                              *)
WholeReturnsAddUp ==
  \A s \in sales :
    UnitsBack(saleReturns, s) = s.units => MoneyBack(saleReturns, s) = s.total

-----------------------------------------------------------------------------
RequestsOf(m, types) ==
  {[doc |-> q, row |-> m, qty |-> q.amount] :
     q \in {r \in requests : /\ r.mechanic = m
                            /\ r.status = "confirmed"
                            /\ r.type \in types}}

(* "Trade request has no effect on balance until the opposite party        *)
(* confirms it" (PHASE_15_16_2_15_17_RUN.md:54), and then once.            *)
TradeBalanceConfirmed ==
  \A m \in Mechanics :
    tradeBalance[m] = Total(RequestsOf(m, DebitTypes), m)
                        - Total(RequestsOf(m, CreditTypes), m)

(* A network sale is charged to a mechanic once at most, and for no more   *)
(* than was left due, although the store's own charge, the mechanic's and  *)
(* repeats of it may be under way together; and what nobody else owes has  *)
(* been asked of the mechanic.                                             *)
ChargedOnce ==
  \A s \in {t \in sales : t.key \in ReservationIds} :
    /\ \A q1, q2 \in ChargesFor(s.key) : q1 = q2
    /\ \A q \in ChargesFor(s.key) : q.amount <= s.due
    /\ (s.party = NoParty /\ s.due > 0)
         => \E q \in requests : q.reservation = s.key
=============================================================================
