-------------------------------- MODULE Stock --------------------------------
(***************************************************************************)
(* The part of the database every stock-moving service shares: the rows of *)
(* inventory_balances, the lines of posted sales and purchases, and the    *)
(* clock.                                                                  *)
(*                                                                         *)
(* A row stands for one (tenant, warehouse, product).  Every operation of  *)
(* the services is one SERIALIZABLE transaction, so it is one action; an   *)
(* operation that returns an error has rolled back and is no step at all.  *)
(***************************************************************************)
EXTENDS LineTotals

CONSTANTS
  Rows,         \* rows of inventory_balances
  NoRow,        \* the row of an order that has not been placed
  StoreOf,      \* the store that owns the warehouse of a row
  Opening,      \* on_hand of each row before the first modelled operation
  MaxTime       \* bound of the clock

ASSUME StockAssumption ==
  /\ Opening \in [Rows -> Nat]
  /\ MaxTime \in Nat
  /\ IsFiniteSet(Rows)
  /\ NoRow \notin Rows

VARIABLES
  now,            \* the clock
  onHand,         \* inventory_balances.on_hand
  reserved,       \* inventory_balances.reserved
  saleItems,      \* rows of sale_items, each with its sale's idempotency key
  purchaseItems   \* rows of purchase_items, likewise

stockVars == <<now, onHand, reserved, saleItems, purchaseItems>>

Times == 0 .. MaxTime

-----------------------------------------------------------------------------
\* The table's CHECK constraints: an UPDATE that breaks one fails, and its
\* transaction with it.
BalanceChecks(oh, rv) == \A r \in Rows : 0 <= rv[r] /\ rv[r] <= oh[r]

\* Mistake (see README, Mistakes): a schema without the CHECK constraints.
UpdateBalancesUnchecked(oh, rv) ==
  /\ onHand' = oh
  /\ reserved' = rv

\* All the UPDATEs of inventory_balances of one transaction.
UpdateBalances(oh, rv) ==
  /\ BalanceChecks(oh, rv)
  /\ onHand' = oh
  /\ reserved' = rv

\* The guard `reserved >= qty` of the statements that give up a hold.
Releasable(T) == \A r \in Rows : Total(T, r) <= reserved[r]

\* reserved after the holds in T are given up.
Released(T) == [r \in Rows |-> reserved[r] - Total(T, r)]

\* on_hand after the lines in T have left the warehouse.
Shipped(T) == [r \in Rows |-> onHand[r] - Total(T, r)]

\* What may still be promised or sold.
Available(r) == onHand[r] - reserved[r]

Posted(table, key) == \E t \in table : t.key = key

-----------------------------------------------------------------------------
StockInit ==
  /\ now = 0
  /\ onHand = Opening
  /\ reserved = [r \in Rows |-> 0]
  /\ saleItems = {}
  /\ purchaseItems = {}

\* Time passes.  MaxTime bounds the runs.
TickClock ==
  /\ now < MaxTime
  /\ now' = now + 1
  /\ UNCHANGED <<onHand, reserved, saleItems, purchaseItems>>
=============================================================================
