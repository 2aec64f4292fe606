--------------------------- MODULE TradeAccounts ---------------------------
(***************************************************************************)
(* Network purchases of mechanics, bought on credit or not, and the        *)
(* account each mechanic has with the store (internal/sales/               *)
(* reservation_fulfillment.go, internal/tradeaccount).  Either side asks   *)
(* for an entry in the account, and the other side confirms or rejects it. *)
(*                                                                         *)
(* Reservations are the ready ones of module Reservations; each has its    *)
(* buyer and its price.  A request has no idempotency key: a repeated one  *)
(* is another request.                                                     *)
(***************************************************************************)
EXTENDS PartyLedger

CONSTANTS
  ReservationIds,
  Buyer,          \* the mechanic who bought, or NoMechanic: another role
  Price,
  Mechanics, NoMechanic, NoReservation,
  RequestIds,
  RequestTypes    \* those the instance uses

\* What a confirmed request does to the balance of the mechanic.
DebitTypes == {"charge", "adjustment_debit"}
CreditTypes == {"payment", "return", "credit", "adjustment_credit"}

ASSUME TradeAssumption ==
  /\ NoMechanic \notin Mechanics
  /\ Buyer \in [ReservationIds -> Mechanics \cup {NoMechanic}]
  /\ Price \in [ReservationIds -> Qty]
  /\ NoReservation \notin ReservationIds
  /\ ReservationIds \cap SaleKeys = {}
  /\ RequestTypes \subseteq DebitTypes \cup CreditTypes

VARIABLES
  requests,       \* mechanic_store_trade_requests
  tradeBalance    \* mechanic_store_ledger_entries: what a mechanic owes

tradeVars == <<requests, tradeBalance>>

Sides == {"mechanic", "store"}

TradeInit ==
  /\ requests = {}
  /\ tradeBalance = [m \in Mechanics |-> 0]

-----------------------------------------------------------------------------
\* The row of mechanic_store_accounts appears with the first charge.
HasAccount(m) == \E q \in requests : q.mechanic = m

\* The charges that stand for a reservation: a unique index allows one.
ChargesFor(r) ==
  {q \in requests : /\ q.reservation = r
                    /\ q.type = "charge"
                    /\ q.status # "rejected"}

Request(id, m, type, amount, r, side) ==
  [key |-> id, mechanic |-> m, type |-> type, amount |-> amount,
   reservation |-> r, by |-> side, status |-> "pending"]

\* The sale of a reservation has the reservation as its key.  What a mechanic
\* does not pay goes to a customer of the store when one is named, otherwise
\* the store asks the mechanic to take it into the trade account.
FulfillReservation(r, id, c, units, paid) ==
  LET due == Price[r] - paid
      mechanicCredit == due > 0 /\ c = NoParty
  IN  /\ mechanicCredit => Buyer[r] # NoMechanic
      /\ PostSale(r, c, units, Price[r], paid)
      /\ mechanicCredit => ~ Known(requests, id)
      /\ requests' = IF mechanicCredit
                     THEN requests \cup
                            {Request(id, Buyer[r], "charge", due, r, "store")}
                     ELSE requests
      /\ UNCHANGED <<tradeBalance, purchases, saleReturns, purchaseReturns,
                     settlements>>

\* Mistake: a reservation already charged is charged again.
CreateReservationChargeAgain(id, m, s) ==
  /\ ~ Known(requests, id)
  /\ s.key \in ReservationIds
  /\ Buyer[s.key] = m
  /\ s.due > 0
  /\ requests' = requests \cup
       {Request(id, m, "charge", s.due, s.key, "mechanic")}
  /\ UNCHANGED <<tradeBalance, bookVars, documentVars>>

\* The mechanic asks for what was due when the reservation was fulfilled.
CreateReservationCharge(id, m, s) ==
  /\ ~ Known(requests, id)
  /\ s.key \in ReservationIds
  /\ Buyer[s.key] = m
  /\ s.due > 0
  /\ ChargesFor(s.key) = {}
  /\ requests' = requests \cup
       {Request(id, m, "charge", s.due, s.key, "mechanic")}
  /\ UNCHANGED <<tradeBalance, bookVars, documentVars>>

CreateMechanicPayment(id, m, amount) ==
  /\ ~ Known(requests, id)
  /\ HasAccount(m)
  /\ requests' = requests \cup
       {Request(id, m, "payment", amount, NoReservation, "mechanic")}
  /\ UNCHANGED <<tradeBalance, bookVars, documentVars>>

CreateStoreRequest(id, m, type, amount) ==
  /\ ~ Known(requests, id)
  /\ HasAccount(m)
  /\ requests' = requests \cup
       {Request(id, m, type, amount, NoReservation, "store")}
  /\ UNCHANGED <<tradeBalance, bookVars, documentVars>>

\* Mistake: a request is confirmed without looking whether it was already.
ResolveAgain(q, side, confirm) ==
  /\ side # q.by
  /\ requests' = (requests \ {q}) \cup
       {[q EXCEPT !.status = IF confirm THEN "confirmed" ELSE "rejected"]}
  /\ tradeBalance' = [tradeBalance EXCEPT ![q.mechanic] =
       IF ~ confirm THEN @
       ELSE IF q.type \in DebitTypes THEN @ + q.amount ELSE @ - q.amount]
  /\ UNCHANGED <<bookVars, documentVars>>

Resolve(q, side, confirm) ==
  /\ q.status = "pending"
  /\ side # q.by
  /\ requests' = (requests \ {q}) \cup
       {[q EXCEPT !.status = IF confirm THEN "confirmed" ELSE "rejected"]}
  /\ tradeBalance' = [tradeBalance EXCEPT ![q.mechanic] =
       IF ~ confirm THEN @
       ELSE IF q.type \in DebitTypes THEN @ + q.amount ELSE @ - q.amount]
  /\ UNCHANGED <<bookVars, documentVars>>

TradeNext ==
  \/ \E r \in ReservationIds, id \in RequestIds, c \in Customers \cup {NoParty},
        n \in 1 .. MaxUnits, paid \in 0 .. MaxQty :
       FulfillReservation(r, id, c, n, paid)
  \/ \E id \in RequestIds, m \in Mechanics, s \in sales :
       CreateReservationCharge(id, m, s)
  \/ \E id \in RequestIds, m \in Mechanics, amount \in Qty :
       CreateMechanicPayment(id, m, amount)
  \/ \E id \in RequestIds, m \in Mechanics, type \in RequestTypes, amount \in Qty :
       CreateStoreRequest(id, m, type, amount)
  \/ \E q \in requests, side \in Sides, confirm \in BOOLEAN :
       Resolve(q, side, confirm)
=============================================================================
