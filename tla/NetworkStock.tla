---------------------------- MODULE NetworkStock ----------------------------
(***************************************************************************)
(* All services that move the shared inventory, working at the same time   *)
(* on the same rows: the counter documents of the stores, the network      *)
(* reservations and the store-to-store procurements.                       *)
(***************************************************************************)
EXTENDS CounterDocuments, Reservations, Procurements

\* Keys of documents are told apart by their prefixes: a client's own key, or
\* "network-reservation:", "network-procurement-seller:" or
\* "network-procurement-buyer:" with the id of the order.
ASSUME KeyAssumption ==
  /\ ReservationIds \cap ProcurementIds = {}
  /\ SaleKeys \cap (ReservationIds \cup ProcurementIds) = {}
  /\ PurchaseKeys \cap ProcurementIds = {}

vars == <<stockVars, counterVars, reservation, procurement>>

Init ==
  /\ StockInit
  /\ CounterInit
  /\ ReservationInit
  /\ ProcurementInit

Next ==
  \/ TickClock /\ UNCHANGED <<counterVars, reservation, procurement>>
  \/ CounterNext /\ UNCHANGED <<reservation, procurement>>
  \/ ReservationNext /\ UNCHANGED <<counterVars, procurement>>
  \/ ProcurementNext /\ UNCHANGED <<counterVars, reservation>>

Spec == Init /\ [][Next]_vars

\* The sweeps are called by ListBuyer, ListStore, ListSeller, the network
\* search and every Create: no worker calls them.  FairSpec assumes that the
\* pages that list orders keep being opened; time passes by itself.
SweepAllReservations ==
  /\ DueReservations # {}
  /\ SweepReservations(DueReservations)
  /\ UNCHANGED <<counterVars, procurement>>
SweepAllProcurements ==
  /\ DueProcurements # {}
  /\ SweepProcurements(DueProcurements)
  /\ UNCHANGED <<counterVars, reservation>>

Fairness ==
  /\ WF_vars(TickClock /\ UNCHANGED <<counterVars, reservation, procurement>>)
  /\ WF_vars(SweepAllReservations)
  /\ WF_vars(SweepAllProcurements)

FairSpec == Spec /\ Fairness

-----------------------------------------------------------------------------
(* Types *)

SaleDocuments == SaleKeys \cup ReservationIds \cup ProcurementIds

ReservationRow ==
  [status : ReservationStatus, row : Rows \cup {NoRow}, qty : 0 .. MaxQty,
   expires : Times]

ProcurementRow ==
  [status : ProcurementStatus, row : Rows \cup {NoRow},
   to : Rows \cup {NoRow}, qty : 0 .. MaxQty, expires : Times]

\* The type invariant.
TypeOK ==
  /\ now \in Times
  /\ onHand \in [Rows -> Nat]
  /\ reserved \in [Rows -> Nat]
  /\ saleItems \subseteq SaleLines(SaleDocuments, MaxLines)
  /\ purchaseItems \subseteq PurchaseLines(PurchaseKeys \cup ProcurementIds)
  /\ saleReturnItems \subseteq
       [key : SaleReturnKeys, sale : SaleDocuments, line : 1 .. MaxLines,
        row : Rows, qty : Qty]
  /\ purchaseReturnItems \subseteq
       [key : PurchaseReturnKeys, purchase : PurchaseKeys \cup ProcurementIds,
        row : Rows, qty : Qty]
  /\ adjustments \subseteq
       [key : AdjustmentKeys, row : Rows, qty : Qty, dir : {"in", "out"}]
  /\ reservation \in [ReservationIds -> ReservationRow]
  /\ procurement \in [ProcurementIds -> ProcurementRow]

-----------------------------------------------------------------------------
(* Safety *)

\* Everything that holds stock at the moment.
HoldLines ==
  ReservationLines(ActiveReservations) \cup ProcurementLines(ActiveProcurements)

\* reserved is the sum of the holds: every end of a hold (rejection,
\* cancellation, expiry on any of five paths, fulfilment, receipt) gives up
\* exactly what its Create took.  ops/rc-db-check.sh asks the same of a live
\* database.
HoldReconciliation == \A r \in Rows : reserved[r] = Total(HoldLines, r)

AdjustmentsTo(dir) == {t \in adjustments : t.dir = dir}

\* What is on hand is what the documents say: no retry, no fulfilment and no
\* receipt moves stock without its document or a second time.
StockAccounted ==
  \A r \in Rows :
    onHand[r] + Total(saleItems, r) + Total(purchaseReturnItems, r)
              + Total(AdjustmentsTo("out"), r)
      = Opening[r] + Total(purchaseItems, r) + Total(saleReturnItems, r)
                   + Total(AdjustmentsTo("in"), r)

\* The stock behind all open holds is in the warehouse whatever the counter
\* sold, returned or corrected meanwhile, so the "reserved inventory
\* invariant violated" errors of the services are unreachable and no sweep
\* is ever blocked by one bad row.
HoldsBacked ==
  /\ Releasable(HoldLines)
  /\ \A r \in Rows : Total(HoldLines, r) <= onHand[r]

\* A reservation is fulfilled exactly when its sale exists, and that sale is
\* for the reserved product and quantity; an order is received exactly when
\* the seller's sale and the buyer's purchase exist, for the same quantity.
HoldsHaveTheirDocuments ==
  /\ \A h \in ReservationIds :
       {s \in saleItems : s.key = h} =
         IF reservation[h].status = "fulfilled"
         THEN {[key |-> h, line |-> 1, row |-> reservation[h].row,
                qty |-> reservation[h].qty]}
         ELSE {}
  /\ \A p \in ProcurementIds :
       /\ {s \in saleItems : s.key = p} =
            IF procurement[p].status = "received"
            THEN {[key |-> p, line |-> 1, row |-> procurement[p].row,
                   qty |-> procurement[p].qty]}
            ELSE {}
       /\ {s \in purchaseItems : s.key = p} =
            IF procurement[p].status = "received"
            THEN {[key |-> p, row |-> procurement[p].to,
                   qty |-> procurement[p].qty]}
            ELSE {}

\* No more comes back of a sale line, or goes back of a purchase, than was
\* sold or bought, whatever number of return documents it is spread over.
ReturnsWithinDocument ==
  /\ \A s \in saleItems : Total(ReturnsOfSale(s), s.row) <= s.qty
  /\ \A p \in purchaseItems : Total(ReturnsOfPurchase(p), p.row) <= p.qty

\* Past its time a hold can only expire, though four places compare the
\* time, not all of them alike.
OverdueOnlyExpires ==
  [][/\ \A h \in ReservationIds :
          Overdue(h) => reservation'[h].status
                          \in {reservation[h].status, "expired"}
     /\ \A p \in DueProcurements :
          procurement'[p].status \in {procurement[p].status, "expired"}]_vars

-----------------------------------------------------------------------------
(* Refinement *)

PhaseOf(status) ==
  CASE status = "none" -> "unused"
    [] status \in Holding \cup {"requested"} -> "held"
    [] status \in {"fulfilled", "received"} -> "sold"
    [] OTHER -> "returned"

OrderOf(h) == IF h \in ReservationIds THEN reservation[h] ELSE procurement[h]

HoldIds == ReservationIds \cup ProcurementIds

Promise == INSTANCE HoldPromise WITH
  Holds <- HoldIds,
  free <- [r \in Rows |-> onHand[r] - reserved[r]],
  phase <- [h \in HoldIds |-> PhaseOf(OrderOf(h).status)],
  claim <- [h \in HoldIds |->
              [row |-> OrderOf(h).row, qty |-> OrderOf(h).qty]]

\* The services implement the promise: for the stock they share, every
\* interleaving of their transactions is one of free and held stock.
KeepsPromise == Promise!Spec

-----------------------------------------------------------------------------
(* Liveness *)

\* No hold lasts for ever: stock that nobody fetches becomes free.
HoldsEnd ==
  /\ \A h \in ReservationIds :
       h \in ActiveReservations ~> h \notin ActiveReservations
  /\ \A p \in ProcurementIds :
       p \in ActiveProcurements ~> p \notin ActiveProcurements
=============================================================================
