---------------------------- MODULE Reservations ----------------------------
(***************************************************************************)
(* Network reservations (internal/reservations/service.go, and the         *)
(* fulfilment in internal/sales/reservation_fulfillment.go): a mechanic or *)
(* a consumer holds stock of a store for a while.  An identifier stands    *)
(* for one (buyer, idempotency key), so that a repeated Create is a        *)
(* stuttering step.                                                        *)
(***************************************************************************)
EXTENDS Stock

CONSTANTS
  ReservationIds,
  ReservationTTL,   \* reservationTTL, 30 minutes
  ReadyTTL          \* readyTTL, 2 hours

ASSUME ReservationAssumption ==
  /\ IsFiniteSet(ReservationIds)
  /\ ReservationTTL \in Nat \ {0}
  /\ ReadyTTL \in Nat \ {0}

VARIABLE reservation    \* network_reservations

ReservationStatus ==
  {"none", "pending", "accepted", "ready",
   "fulfilled", "rejected", "cancelled", "expired"}

\* The statuses whose row holds stock.
Holding == {"pending", "accepted", "ready"}

ReservationInit ==
  reservation =
    [h \in ReservationIds |->
       [status |-> "none", row |-> NoRow, qty |-> 0, expires |-> 0]]

-----------------------------------------------------------------------------
ActiveReservations ==
  {h \in ReservationIds : reservation[h].status \in Holding}

ReservationLine(h) ==
  [key |-> h, row |-> reservation[h].row, qty |-> reservation[h].qty]
ReservationLines(S) == {ReservationLine(h) : h \in S}

\* Mistake: the sweep forgets that a ready reservation expires too.
DueReservationsNotReady ==
  {h \in ActiveReservations : /\ reservation[h].expires <= now
                              /\ reservation[h].status # "ready"}

\* The rows the sweep of ExpireDue selects from.
DueReservations == {h \in ActiveReservations : reservation[h].expires <= now}

Expired(S) ==
  [h \in ReservationIds |->
     IF h \in S THEN [reservation[h] EXCEPT !.status = "expired"]
                ELSE reservation[h]]

\* ExpireDue: the rows that are locked are skipped and there is a limit, so
\* that any of the due rows may be left for later.  A failure of one release
\* undoes the sweep.
SweepReservations(S) ==
  /\ S \subseteq DueReservations
  /\ Releasable(ReservationLines(S))
  /\ UpdateBalances(onHand, Released(ReservationLines(S)))
  /\ reservation' = Expired(S)
  /\ UNCHANGED <<now, saleItems, purchaseItems>>

\* Create sweeps first, ignoring a failure, then holds the stock in a second
\* transaction.  One action stands for both: what another client does in
\* between happens after a SweepReservations and before a CreateReservation
\* that swept nothing.
CreateReservation(h, r, q, S) ==
  LET left == Released(ReservationLines(S))
  IN  /\ S \subseteq DueReservations
      /\ Releasable(ReservationLines(S))
      /\ reservation[h].status = "none"
      /\ now + ReservationTTL <= MaxTime      \* bound of the runs
      /\ q <= onHand[r] - left[r]
      /\ UpdateBalances(onHand, [left EXCEPT ![r] = @ + q])
      /\ reservation' =
           [Expired(S) EXCEPT ![h] =
              [status |-> "pending", row |-> r, qty |-> q,
               expires |-> now + ReservationTTL]]
      /\ UNCHANGED <<now, saleItems, purchaseItems>>

\* Mistake: an accepted reservation that has been fulfilled or has expired
\* meanwhile can still be cancelled.
ReservationMovesTooMany ==
  {<<"pending", "accepted">>, <<"accepted", "ready">>,
   <<"pending", "rejected">>, <<"accepted", "rejected">>,
   <<"pending", "cancelled">>, <<"accepted", "cancelled">>,
   <<"ready", "cancelled">>, <<"fulfilled", "cancelled">>,
   <<"expired", "cancelled">>}

\* canTransition, for the store and for the buyer.
ReservationMoves ==
  {<<"pending", "accepted">>, <<"accepted", "ready">>,
   <<"pending", "rejected">>, <<"accepted", "rejected">>,
   <<"pending", "cancelled">>, <<"accepted", "cancelled">>,
   <<"ready", "cancelled">>}

Overdue(h) == h \in ActiveReservations /\ reservation[h].expires < now

\* transition finds the reservation overdue: it expires it, whatever was
\* asked for.
TransitionOverdue(h) ==
  /\ Overdue(h)
  /\ Releasable({ReservationLine(h)})
  /\ UpdateBalances(onHand, Released({ReservationLine(h)}))
  /\ reservation' = Expired({h})
  /\ UNCHANGED <<now, saleItems, purchaseItems>>

\* Mistake: the store's transitions do not look at the time.
AdvanceReservationAnyTime(h, next) ==
  /\ next \in {"accepted", "ready"}
  /\ <<reservation[h].status, next>> \in ReservationMoves
  /\ next = "ready" => now + ReadyTTL <= MaxTime
  /\ reservation' =
       [reservation EXCEPT ![h].status = next,
                           ![h].expires = IF next = "ready" THEN now + ReadyTTL
                                                            ELSE @]
  /\ UNCHANGED stockVars

\* StoreTransition to accepted or ready: the hold goes on; only ready moves
\* the time it lasts.
AdvanceReservation(h, next) ==
  /\ ~ Overdue(h)
  /\ next \in {"accepted", "ready"}
  /\ <<reservation[h].status, next>> \in ReservationMoves
  /\ next = "ready" => now + ReadyTTL <= MaxTime      \* bound of the runs
  /\ reservation' =
       [reservation EXCEPT ![h].status = next,
                           ![h].expires = IF next = "ready" THEN now + ReadyTTL
                                                            ELSE @]
  /\ UNCHANGED stockVars

\* StoreTransition to rejected, CancelBuyer: the hold ends.
CloseReservation(h, next) ==
  /\ ~ Overdue(h)
  /\ next \in {"rejected", "cancelled"}
  /\ <<reservation[h].status, next>> \in ReservationMoves
  /\ Releasable({ReservationLine(h)})
  /\ UpdateBalances(onHand, Released({ReservationLine(h)}))
  /\ reservation' = [reservation EXCEPT ![h].status = next]
  /\ UNCHANGED <<now, saleItems, purchaseItems>>

-----------------------------------------------------------------------------
\* FulfillReservation too late: it expires the reservation.
FulfillOverdue(h) ==
  /\ reservation[h].status = "ready"
  /\ reservation[h].expires <= now
  /\ Releasable({ReservationLine(h)})
  /\ UpdateBalances(onHand, Released({ReservationLine(h)}))
  /\ reservation' = Expired({h})
  /\ UNCHANGED <<now, saleItems, purchaseItems>>

\* Mistake: the sale takes the stock and the hold stays on the balance.
FulfillReservationKeepingHold(h) ==
  LET r == reservation[h].row
      q == reservation[h].qty
  IN  /\ reservation[h].status = "ready"
      /\ now < reservation[h].expires
      /\ q <= onHand[r]
      /\ q <= reserved[r]
      /\ ~ Posted(saleItems, h)
      /\ UpdateBalances([onHand EXCEPT ![r] = @ - q], reserved)
      /\ saleItems' = saleItems \cup
           {[key |-> h, line |-> 1, row |-> r, qty |-> q]}
      /\ reservation' = [reservation EXCEPT ![h].status = "fulfilled"]
      /\ UNCHANGED <<now, purchaseItems>>

\* FulfillReservation: the held stock leaves with a sale whose key is made
\* from the reservation's id.  Repeated, it returns that sale.
FulfillReservation(h) ==
  LET r == reservation[h].row
      q == reservation[h].qty
  IN  /\ reservation[h].status = "ready"
      /\ now < reservation[h].expires
      /\ q <= onHand[r]
      /\ q <= reserved[r]
      /\ ~ Posted(saleItems, h)
      /\ UpdateBalances([onHand EXCEPT ![r] = @ - q],
                        [reserved EXCEPT ![r] = @ - q])
      /\ saleItems' = saleItems \cup
           {[key |-> h, line |-> 1, row |-> r, qty |-> q]}
      /\ reservation' = [reservation EXCEPT ![h].status = "fulfilled"]
      /\ UNCHANGED <<now, purchaseItems>>

ReservationNext ==
  \/ \E S \in SUBSET DueReservations : SweepReservations(S)
  \/ \E h \in ReservationIds, r \in Rows, q \in Qty,
        S \in SUBSET DueReservations : CreateReservation(h, r, q, S)
  \/ \E h \in ReservationIds :
       \/ TransitionOverdue(h)
       \/ \E next \in {"accepted", "ready"} : AdvanceReservation(h, next)
       \/ \E next \in {"rejected", "cancelled"} : CloseReservation(h, next)
       \/ FulfillOverdue(h)
       \/ FulfillReservation(h)
=============================================================================
