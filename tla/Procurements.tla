---------------------------- MODULE Procurements ----------------------------
(***************************************************************************)
(* Store-to-store procurement (internal/procurement/service.go): a store   *)
(* holds stock of another store's offer, and receiving the goods posts the *)
(* seller's sale and the buyer's purchase in one transaction.  An          *)
(* identifier stands for one (buyer tenant, idempotency key).              *)
(***************************************************************************)
EXTENDS Stock

CONSTANTS
  ProcurementIds,
  RequestedTTL, AcceptedTTL, ReceiveTTL   \* requestedTTL, acceptedTTL, readyTTL

ASSUME ProcurementAssumption ==
  /\ IsFiniteSet(ProcurementIds)
  /\ {RequestedTTL, AcceptedTTL, ReceiveTTL} \subseteq Nat \ {0}

VARIABLE procurement    \* network_procurements

ProcurementStatus ==
  {"none", "requested", "accepted", "ready",
   "received", "rejected", "cancelled", "expired"}

isActive(status) == status \in {"requested", "accepted", "ready"}

ProcurementInit ==
  procurement =
    [p \in ProcurementIds |->
       [status |-> "none", row |-> NoRow, to |-> NoRow, qty |-> 0,
        expires |-> 0]]

-----------------------------------------------------------------------------
ActiveProcurements ==
  {p \in ProcurementIds : isActive(procurement[p].status)}

\* The hold is on the seller's row.
ProcurementLine(p) ==
  [key |-> p, row |-> procurement[p].row, qty |-> procurement[p].qty]
ProcurementLines(S) == {ProcurementLine(p) : p \in S}

DueProcurements == {p \in ActiveProcurements : procurement[p].expires <= now}

\* expireLocked, for the orders in S.
Lapsed(S) ==
  [p \in ProcurementIds |->
     IF p \in S THEN [procurement[p] EXCEPT !.status = "expired"]
                ELSE procurement[p]]

SweepProcurements(S) ==
  /\ S \subseteq DueProcurements
  /\ Releasable(ProcurementLines(S))
  /\ UpdateBalances(onHand, Released(ProcurementLines(S)))
  /\ procurement' = Lapsed(S)
  /\ UNCHANGED <<now, saleItems, purchaseItems>>

\* Create, its sweep included (see CreateReservation).
CreateProcurement(p, r, to, q, S) ==
  LET left == Released(ProcurementLines(S))
  IN  /\ S \subseteq DueProcurements
      /\ Releasable(ProcurementLines(S))
      /\ procurement[p].status = "none"
      /\ StoreOf[r] # StoreOf[to]
      /\ now + RequestedTTL <= MaxTime        \* bound of the runs
      /\ q <= onHand[r] - left[r]
      /\ UpdateBalances(onHand, [left EXCEPT ![r] = @ + q])
      /\ procurement' =
           [Lapsed(S) EXCEPT ![p] =
              [status |-> "requested", row |-> r, to |-> to, qty |-> q,
               expires |-> now + RequestedTTL]]
      /\ UNCHANGED <<now, saleItems, purchaseItems>>

\* canTransition, for the seller and for the buyer.
ProcurementMoves ==
  {<<"requested", "accepted">>, <<"accepted", "ready">>,
   <<"requested", "rejected">>, <<"accepted", "rejected">>,
   <<"requested", "cancelled">>, <<"accepted", "cancelled">>,
   <<"ready", "cancelled">>}

\* transition finds the order overdue and expires it.
TransitionLapsed(p) ==
  /\ p \in DueProcurements
  /\ Releasable({ProcurementLine(p)})
  /\ UpdateBalances(onHand, Released({ProcurementLine(p)}))
  /\ procurement' = Lapsed({p})
  /\ UNCHANGED <<now, saleItems, purchaseItems>>

NextTTL(next) == IF next = "accepted" THEN AcceptedTTL ELSE ReceiveTTL

\* SellerTransition to accepted or ready: both give the order a new time.
AdvanceProcurement(p, next) ==
  /\ p \notin DueProcurements
  /\ next \in {"accepted", "ready"}
  /\ <<procurement[p].status, next>> \in ProcurementMoves
  /\ now + NextTTL(next) <= MaxTime           \* bound of the runs
  /\ procurement' = [procurement EXCEPT ![p].status = next,
                                        ![p].expires = now + NextTTL(next)]
  /\ UNCHANGED stockVars

\* SellerTransition to rejected, BuyerCancel.
CloseProcurement(p, next) ==
  /\ p \notin DueProcurements
  /\ next \in {"rejected", "cancelled"}
  /\ <<procurement[p].status, next>> \in ProcurementMoves
  /\ Releasable({ProcurementLine(p)})
  /\ UpdateBalances(onHand, Released({ProcurementLine(p)}))
  /\ procurement' = [procurement EXCEPT ![p].status = next]
  /\ UNCHANGED <<now, saleItems, purchaseItems>>

-----------------------------------------------------------------------------
\* Receive too late.
ReceiveLapsed(p) ==
  /\ procurement[p].status = "ready"
  /\ procurement[p].expires <= now
  /\ Releasable({ProcurementLine(p)})
  /\ UpdateBalances(onHand, Released({ProcurementLine(p)}))
  /\ procurement' = Lapsed({p})
  /\ UNCHANGED <<now, saleItems, purchaseItems>>

\* Mistake: the buyer's purchase is posted on the seller's product.
ReceiveOnWrongRow(p) ==
  LET from == procurement[p].row
      to == procurement[p].to
      q == procurement[p].qty
  IN  /\ procurement[p].status = "ready"
      /\ now < procurement[p].expires
      /\ q <= onHand[from]
      /\ q <= reserved[from]
      /\ ~ Posted(saleItems, p)
      /\ ~ Posted(purchaseItems, p)
      /\ UpdateBalances([onHand EXCEPT ![from] = @ - q, ![to] = @ + q],
                        [reserved EXCEPT ![from] = @ - q])
      /\ saleItems' = saleItems \cup
           {[key |-> p, line |-> 1, row |-> from, qty |-> q]}
      /\ purchaseItems' = purchaseItems \cup
           {[key |-> p, row |-> from, qty |-> q]}
      /\ procurement' = [procurement EXCEPT ![p].status = "received"]
      /\ UNCHANGED now

\* Receive: the held stock leaves the seller with a sale and enters the
\* buyer's warehouse with a purchase.  Repeated, it returns both documents.
Receive(p) ==
  LET from == procurement[p].row
      to == procurement[p].to
      q == procurement[p].qty
  IN  /\ procurement[p].status = "ready"
      /\ now < procurement[p].expires
      /\ q <= onHand[from]
      /\ q <= reserved[from]
      /\ ~ Posted(saleItems, p)
      /\ ~ Posted(purchaseItems, p)
      /\ UpdateBalances([onHand EXCEPT ![from] = @ - q, ![to] = @ + q],
                        [reserved EXCEPT ![from] = @ - q])
      /\ saleItems' = saleItems \cup
           {[key |-> p, line |-> 1, row |-> from, qty |-> q]}
      /\ purchaseItems' = purchaseItems \cup
           {[key |-> p, row |-> to, qty |-> q]}
      /\ procurement' = [procurement EXCEPT ![p].status = "received"]
      /\ UNCHANGED now

ProcurementNext ==
  \/ \E S \in SUBSET DueProcurements : SweepProcurements(S)
  \/ \E p \in ProcurementIds, r, to \in Rows, q \in Qty,
        S \in SUBSET DueProcurements : CreateProcurement(p, r, to, q, S)
  \/ \E p \in ProcurementIds :
       \/ TransitionLapsed(p)
       \/ \E next \in {"accepted", "ready"} : AdvanceProcurement(p, next)
       \/ \E next \in {"rejected", "cancelled"} : CloseProcurement(p, next)
       \/ ReceiveLapsed(p)
       \/ Receive(p)
=============================================================================
