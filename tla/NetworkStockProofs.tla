------------------------- MODULE NetworkStockProofs -------------------------
(***************************************************************************)
(* Proofs about NetworkStock, for any number of stores, products, orders,  *)
(* documents and lines, and any times to live: first what is held, then    *)
(* what the documents say of the stock, of orders and of returns, and last *)
(* that NetworkStock implements HoldPromise: whatever the services do to   *)
(* the shared stock is, for who holds some of it, one step of the promise  *)
(* or none.                                                                *)
(***************************************************************************)
EXTENDS NetworkStock, LineTotalsProofs

-----------------------------------------------------------------------------
(* The inductive invariant *)

BalancesChecked == BalanceChecks(onHand, reserved)

\* An order that has been placed names a row and a quantity.
OrdersPlaced ==
  /\ \A h \in ReservationIds : reservation[h].status # "none" =>
       reservation[h].row \in Rows /\ reservation[h].qty \in Qty
  /\ \A p \in ProcurementIds : procurement[p].status # "none" =>
       /\ procurement[p].row \in Rows /\ procurement[p].to \in Rows
       /\ procurement[p].qty \in Qty
       /\ procurement[p].row # procurement[p].to

HoldInv == TypeOK /\ BalancesChecked /\ OrdersPlaced /\ HoldReconciliation

-----------------------------------------------------------------------------
(* Lemmas about the lines of holds *)

(* The lines of some orders are finitely many, and each is a line of the    *)
(* order's row and quantity.                                                *)
LEMMA ReservationLinesFinite ==
  ASSUME NEW S \in SUBSET ReservationIds
  PROVE  IsFiniteSet(ReservationLines(S))
<1> DEFINE f == [h \in S |-> ReservationLine(h)]
<1>1. IsFiniteSet(S)
  BY ReservationAssumption, FS_Subset
<1>2. f \in Surjection(S, ReservationLines(S))
  BY DEF Surjection, ReservationLines
<1> QED
  BY <1>1, <1>2, FS_Surjection

(* The same of procurements. *)
LEMMA ProcurementLinesFinite ==
  ASSUME NEW S \in SUBSET ProcurementIds
  PROVE  IsFiniteSet(ProcurementLines(S))
<1> DEFINE f == [p \in S |-> ProcurementLine(p)]
<1>1. IsFiniteSet(S)
  BY ProcurementAssumption, FS_Subset
<1>2. f \in Surjection(S, ProcurementLines(S))
  BY DEF Surjection, ProcurementLines
<1> QED
  BY <1>1, <1>2, FS_Surjection

(* At any time there are finitely many holds. *)
LEMMA HoldLinesFinite == IsFiniteSet(HoldLines)
<1>1. ActiveReservations \in SUBSET ReservationIds
  BY DEF ActiveReservations
<1>2. ActiveProcurements \in SUBSET ProcurementIds
  BY DEF ActiveProcurements
<1> QED
  BY <1>1, <1>2, ReservationLinesFinite, ProcurementLinesFinite, FS_Union
     DEF HoldLines

(* When some holds end and nothing else changes, their lines are the ones   *)
(* that leave HoldLines.                                                    *)
LEMMA ReservationsEnd ==
  ASSUME NEW S \in SUBSET ActiveReservations,
         \A h \in ReservationIds : h \notin S => reservation'[h] = reservation[h],
         \A h \in S : reservation'[h].status \notin Holding,
         UNCHANGED procurement
  PROVE  HoldLines' = HoldLines \ ReservationLines(S)
<1>1. ActiveReservations' = ActiveReservations \ S
  BY DEF ActiveReservations
<1>2. \A h \in ActiveReservations \ S : ReservationLine(h)' = ReservationLine(h)
  BY DEF ReservationLine, ActiveReservations
<1>3. ReservationLines(ActiveReservations)' = ReservationLines(ActiveReservations \ S)
  BY <1>1, <1>2 DEF ReservationLines
<1>4. \A g, h \in ActiveReservations :
        ReservationLine(g) = ReservationLine(h) => g = h
  BY DEF ReservationLine
<1>5. ReservationLines(ActiveReservations \ S)
        = ReservationLines(ActiveReservations) \ ReservationLines(S)
  BY <1>4 DEF ReservationLines
<1>6. ProcurementLines(ActiveProcurements)' = ProcurementLines(ActiveProcurements)
  BY DEF ProcurementLines, ProcurementLine, ActiveProcurements
<1>7. \A h \in ActiveReservations, p \in ActiveProcurements :
        ReservationLine(h) # ProcurementLine(p)
  BY KeyAssumption DEF ReservationLine, ProcurementLine, ActiveReservations,
     ActiveProcurements
<1>8. ProcurementLines(ActiveProcurements) \cap ReservationLines(S) = {}
  BY <1>7 DEF ReservationLines, ProcurementLines
<1> QED
  BY <1>3, <1>5, <1>6, <1>8 DEF HoldLines

(* The same when procurements end. *)
LEMMA ProcurementsEnd ==
  ASSUME NEW S \in SUBSET ActiveProcurements,
         \A p \in ProcurementIds : p \notin S => procurement'[p] = procurement[p],
         \A p \in S : ~ isActive(procurement'[p].status),
         UNCHANGED reservation
  PROVE  HoldLines' = HoldLines \ ProcurementLines(S)
<1>1. ActiveProcurements' = ActiveProcurements \ S
  BY DEF ActiveProcurements
<1>2. \A p \in ActiveProcurements \ S : ProcurementLine(p)' = ProcurementLine(p)
  BY DEF ProcurementLine, ActiveProcurements
<1>3. ProcurementLines(ActiveProcurements)' = ProcurementLines(ActiveProcurements \ S)
  BY <1>1, <1>2 DEF ProcurementLines
<1>4. \A p, q \in ActiveProcurements :
        ProcurementLine(p) = ProcurementLine(q) => p = q
  BY DEF ProcurementLine
<1>5. ProcurementLines(ActiveProcurements \ S)
        = ProcurementLines(ActiveProcurements) \ ProcurementLines(S)
  BY <1>4 DEF ProcurementLines
<1>6. ReservationLines(ActiveReservations)' = ReservationLines(ActiveReservations)
  BY DEF ReservationLines, ReservationLine, ActiveReservations
<1>7. \A h \in ActiveReservations, p \in ActiveProcurements :
        ReservationLine(h) # ProcurementLine(p)
  BY KeyAssumption DEF ReservationLine, ProcurementLine, ActiveReservations,
     ActiveProcurements
<1>8. ReservationLines(ActiveReservations) \cap ProcurementLines(S) = {}
  BY <1>7 DEF ReservationLines, ProcurementLines
<1> QED
  BY <1>3, <1>5, <1>6, <1>8 DEF HoldLines

(* Create: some holds end, one begins.                                      *)
LEMMA ReservationBegins ==
  ASSUME NEW S \in SUBSET ActiveReservations,
         NEW n \in ReservationIds, reservation[n].status = "none",
         NEW r \in Rows, NEW q \in Qty,
         \A h \in ReservationIds \ {n} :
           h \notin S => reservation'[h] = reservation[h],
         \A h \in S : reservation'[h].status \notin Holding,
         reservation'[n].status = "pending",
         reservation'[n].row = r, reservation'[n].qty = q,
         UNCHANGED procurement
  PROVE  /\ HoldLines' = (HoldLines \ ReservationLines(S))
                           \cup {[key |-> n, row |-> r, qty |-> q]}
         /\ [key |-> n, row |-> r, qty |-> q] \notin HoldLines
<1> DEFINE new == [key |-> n, row |-> r, qty |-> q]
<1>1. n \notin ActiveReservations
  BY DEF ActiveReservations, Holding
<1>2. ActiveReservations' = (ActiveReservations \ S) \cup {n}
  BY <1>1 DEF ActiveReservations, Holding
<1>3. /\ \A h \in ActiveReservations \ S : ReservationLine(h)' = ReservationLine(h)
      /\ ReservationLine(n)' = new
  BY <1>1 DEF ReservationLine, ActiveReservations
<1>4. ReservationLines(ActiveReservations)'
        = ReservationLines(ActiveReservations \ S) \cup {new}
  BY <1>2, <1>3 DEF ReservationLines
<1>5. \A g, h \in ActiveReservations :
        ReservationLine(g) = ReservationLine(h) => g = h
  BY DEF ReservationLine
<1>6. ReservationLines(ActiveReservations \ S)
        = ReservationLines(ActiveReservations) \ ReservationLines(S)
  BY <1>5 DEF ReservationLines
<1>7. ProcurementLines(ActiveProcurements)' = ProcurementLines(ActiveProcurements)
  BY DEF ProcurementLines, ProcurementLine, ActiveProcurements
<1>8. /\ \A h \in ActiveReservations, p \in ActiveProcurements :
           ReservationLine(h) # ProcurementLine(p)
      /\ \A p \in ActiveProcurements : ProcurementLine(p) # new
      /\ \A h \in ActiveReservations : ReservationLine(h) # new
  BY <1>1, KeyAssumption DEF ReservationLine, ProcurementLine,
     ActiveReservations, ActiveProcurements
<1>9. ProcurementLines(ActiveProcurements) \cap ReservationLines(S) = {}
  BY <1>8 DEF ReservationLines, ProcurementLines
<1>10. new \notin HoldLines
  BY <1>8 DEF ReservationLines, ProcurementLines, HoldLines
<1> QED
  BY <1>4, <1>6, <1>7, <1>9, <1>10 DEF HoldLines

(* The same when a procurement is created. *)
LEMMA ProcurementBegins ==
  ASSUME NEW S \in SUBSET ActiveProcurements,
         NEW n \in ProcurementIds, procurement[n].status = "none",
         NEW r \in Rows, NEW q \in Qty,
         \A p \in ProcurementIds \ {n} :
           p \notin S => procurement'[p] = procurement[p],
         \A p \in S : ~ isActive(procurement'[p].status),
         procurement'[n].status = "requested",
         procurement'[n].row = r, procurement'[n].qty = q,
         UNCHANGED reservation
  PROVE  /\ HoldLines' = (HoldLines \ ProcurementLines(S))
                           \cup {[key |-> n, row |-> r, qty |-> q]}
         /\ [key |-> n, row |-> r, qty |-> q] \notin HoldLines
<1> DEFINE new == [key |-> n, row |-> r, qty |-> q]
<1>1. n \notin ActiveProcurements
  BY DEF ActiveProcurements, isActive
<1>2. ActiveProcurements' = (ActiveProcurements \ S) \cup {n}
  BY <1>1 DEF ActiveProcurements, isActive
<1>3. /\ \A p \in ActiveProcurements \ S : ProcurementLine(p)' = ProcurementLine(p)
      /\ ProcurementLine(n)' = new
  BY <1>1 DEF ProcurementLine, ActiveProcurements
<1>4. ProcurementLines(ActiveProcurements)'
        = ProcurementLines(ActiveProcurements \ S) \cup {new}
  BY <1>2, <1>3 DEF ProcurementLines
<1>5. \A p, o \in ActiveProcurements :
        ProcurementLine(p) = ProcurementLine(o) => p = o
  BY DEF ProcurementLine
<1>6. ProcurementLines(ActiveProcurements \ S)
        = ProcurementLines(ActiveProcurements) \ ProcurementLines(S)
  BY <1>5 DEF ProcurementLines
<1>7. ReservationLines(ActiveReservations)' = ReservationLines(ActiveReservations)
  BY DEF ReservationLines, ReservationLine, ActiveReservations
<1>8. /\ \A h \in ActiveReservations, p \in ActiveProcurements :
           ReservationLine(h) # ProcurementLine(p)
      /\ \A p \in ActiveProcurements : ProcurementLine(p) # new
      /\ \A h \in ActiveReservations : ReservationLine(h) # new
  BY <1>1, KeyAssumption DEF ReservationLine, ProcurementLine,
     ActiveReservations, ActiveProcurements
<1>9. ReservationLines(ActiveReservations) \cap ProcurementLines(S) = {}
  BY <1>8 DEF ReservationLines, ProcurementLines
<1>10. new \notin HoldLines
  BY <1>8 DEF ReservationLines, ProcurementLines, HoldLines
<1> QED
  BY <1>4, <1>6, <1>7, <1>9, <1>10 DEF HoldLines

-----------------------------------------------------------------------------
(* Lemmas about balances *)

(* A transaction that the table's checks let through leaves quantities in   *)
(* it.                                                                      *)
LEMMA UpdateType ==
  ASSUME NEW oh \in [Rows -> Int], NEW rv \in [Rows -> Int],
         UpdateBalances(oh, rv)
  PROVE  /\ onHand' \in [Rows -> Nat]
         /\ reserved' \in [Rows -> Nat]
         /\ BalancesChecked'
BY DEF UpdateBalances, BalanceChecks, BalancesChecked

(* Giving up holds leaves reserved the sum of the holds that are left.      *)
LEMMA ReleasedReconciles ==
  ASSUME HoldReconciliation, NEW L \in SUBSET HoldLines
  PROVE  /\ Released(L) \in [Rows -> Int]
         /\ \A r \in Rows : Released(L)[r] = Total(HoldLines \ L, r)
<1>1. IsFiniteSet(HoldLines)
  BY HoldLinesFinite
<1>2. ASSUME NEW r \in Rows
      PROVE  /\ reserved[r] - Total(L, r) = Total(HoldLines \ L, r)
             /\ reserved[r] - Total(L, r) \in Int
  <2>1. Total(HoldLines \ L, r) = Total(HoldLines, r) - Total(L, r)
    BY <1>1, TotalMinus
  <2>2. Total(HoldLines, r) \in Nat /\ Total(L, r) \in Nat
    BY <1>1, TotalType, TotalMinus
  <2>3. reserved[r] = Total(HoldLines, r)
    BY DEF HoldReconciliation
  <2> QED
    BY <2>1, <2>2, <2>3
<1> QED
  BY <1>2 DEF Released

-----------------------------------------------------------------------------
(* The steps that end holds without a sale *)

(* A transaction that ends reservations and gives up their holds keeps HoldInv. *)
LEMMA ReservationsEndStep ==
  ASSUME HoldInv,
         NEW S \in SUBSET ActiveReservations,
         UpdateBalances(onHand, Released(ReservationLines(S))),
         reservation' \in [ReservationIds -> ReservationRow],
         \A h \in ReservationIds : h \notin S => reservation'[h] = reservation[h],
         \A h \in S : /\ reservation'[h].status \notin Holding
                      /\ reservation'[h].row = reservation[h].row
                      /\ reservation'[h].qty = reservation[h].qty,
         UNCHANGED <<now, saleItems, purchaseItems, counterVars, procurement>>
  PROVE  HoldInv'
<1> USE DEF HoldInv
<1>1. ReservationLines(S) \in SUBSET HoldLines
  BY DEF HoldLines, ReservationLines
<1>2. /\ Released(ReservationLines(S)) \in [Rows -> Int]
      /\ \A r \in Rows : Released(ReservationLines(S))[r]
                          = Total(HoldLines \ ReservationLines(S), r)
  BY <1>1, ReleasedReconciles
<1>3. onHand \in [Rows -> Int]
  BY DEF TypeOK
<1>4. onHand' \in [Rows -> Nat] /\ reserved' \in [Rows -> Nat] /\ BalancesChecked'
  BY <1>2, <1>3, UpdateType
<1>5. TypeOK'
  BY <1>4 DEF TypeOK, counterVars
<1>6. OrdersPlaced'
  <2>1. \A h \in S : reservation[h].status # "none"
    BY DEF ActiveReservations, Holding
  <2> QED
    BY <2>1 DEF OrdersPlaced
<1>7. HoldLines' = HoldLines \ ReservationLines(S)
  BY ReservationsEnd
<1>8. HoldReconciliation'
  BY <1>2, <1>7 DEF HoldReconciliation, UpdateBalances
<1> QED
  BY <1>4, <1>5, <1>6, <1>8

(* The same for procurements. *)
LEMMA ProcurementsEndStep ==
  ASSUME HoldInv,
         NEW S \in SUBSET ActiveProcurements,
         UpdateBalances(onHand, Released(ProcurementLines(S))),
         procurement' \in [ProcurementIds -> ProcurementRow],
         \A p \in ProcurementIds : p \notin S => procurement'[p] = procurement[p],
         \A p \in S : /\ ~ isActive(procurement'[p].status)
                      /\ procurement'[p].row = procurement[p].row
                      /\ procurement'[p].to = procurement[p].to
                      /\ procurement'[p].qty = procurement[p].qty,
         UNCHANGED <<now, saleItems, purchaseItems, counterVars, reservation>>
  PROVE  HoldInv'
<1> USE DEF HoldInv
<1>1. ProcurementLines(S) \in SUBSET HoldLines
  BY DEF HoldLines, ProcurementLines
<1>2. /\ Released(ProcurementLines(S)) \in [Rows -> Int]
      /\ \A r \in Rows : Released(ProcurementLines(S))[r]
                          = Total(HoldLines \ ProcurementLines(S), r)
  BY <1>1, ReleasedReconciles
<1>3. onHand \in [Rows -> Int]
  BY DEF TypeOK
<1>4. onHand' \in [Rows -> Nat] /\ reserved' \in [Rows -> Nat] /\ BalancesChecked'
  BY <1>2, <1>3, UpdateType
<1>5. TypeOK'
  BY <1>4 DEF TypeOK, counterVars
<1>6. OrdersPlaced'
  <2>1. \A p \in S : procurement[p].status # "none"
    BY DEF ActiveProcurements, isActive
  <2> QED
    BY <2>1 DEF OrdersPlaced
<1>7. HoldLines' = HoldLines \ ProcurementLines(S)
  BY ProcurementsEnd
<1>8. HoldReconciliation'
  BY <1>2, <1>7 DEF HoldReconciliation, UpdateBalances
<1> QED
  BY <1>4, <1>5, <1>6, <1>8

-----------------------------------------------------------------------------
(* The actions of Reservations *)

(* The sweep of ExpireDue keeps HoldInv. *)
LEMMA SweepReservationsStep ==
  ASSUME HoldInv, NEW S \in SUBSET DueReservations, SweepReservations(S),
         UNCHANGED <<counterVars, procurement>>
  PROVE  HoldInv'
<1>1. S \in SUBSET ActiveReservations
  BY DEF DueReservations
<1>2. /\ reservation' \in [ReservationIds -> ReservationRow]
      /\ \A h \in ReservationIds : h \notin S => reservation'[h] = reservation[h]
      /\ \A h \in S : /\ reservation'[h].status \notin Holding
                      /\ reservation'[h].row = reservation[h].row
                      /\ reservation'[h].qty = reservation[h].qty
  BY <1>1 DEF SweepReservations, Expired, HoldInv, TypeOK, ReservationRow,
     ReservationStatus, Holding, ActiveReservations
<1> QED
  BY <1>1, <1>2, ReservationsEndStep DEF SweepReservations

(* One reservation ends, on any of the other paths.                         *)
LEMMA OneReservationEnds ==
  ASSUME HoldInv, NEW h \in ActiveReservations,
         NEW status \in ReservationStatus \ Holding,
         UpdateBalances(onHand, Released({ReservationLine(h)})),
         reservation' = [reservation EXCEPT ![h].status = status],
         UNCHANGED <<now, saleItems, purchaseItems, counterVars, procurement>>
  PROVE  HoldInv'
<1>1. ReservationLines({h}) = {ReservationLine(h)}
  BY DEF ReservationLines
<1>2. {h} \in SUBSET ActiveReservations
  OBVIOUS
<1>3. /\ reservation' \in [ReservationIds -> ReservationRow]
      /\ \A g \in ReservationIds : g \notin {h} => reservation'[g] = reservation[g]
      /\ \A g \in {h} : /\ reservation'[g].status \notin Holding
                        /\ reservation'[g].row = reservation[g].row
                        /\ reservation'[g].qty = reservation[g].qty
  BY DEF HoldInv, TypeOK, ReservationRow, ActiveReservations
<1> QED
  BY <1>1, <1>2, <1>3, ReservationsEndStep

(* Expired({h}) changes the status of h and nothing else. *)
LEMMA ExpiredOne ==
  ASSUME TypeOK, NEW h \in ReservationIds
  PROVE  Expired({h}) = [reservation EXCEPT ![h].status = "expired"]
BY DEF Expired, TypeOK, ReservationRow

(* Create, its sweep included, keeps HoldInv. *)
LEMMA CreateReservationStep ==
  ASSUME HoldInv, NEW n \in ReservationIds, NEW r \in Rows, NEW q \in Qty,
         NEW S \in SUBSET DueReservations, CreateReservation(n, r, q, S),
         UNCHANGED <<counterVars, procurement>>
  PROVE  HoldInv'
<1> DEFINE left == Released(ReservationLines(S))
           new == [key |-> n, row |-> r, qty |-> q]
<1> USE DEF HoldInv
<1>1. S \in SUBSET ActiveReservations
  BY DEF DueReservations
<1>2. ReservationLines(S) \in SUBSET HoldLines
  BY <1>1 DEF HoldLines, ReservationLines
<1>3. /\ left \in [Rows -> Int]
      /\ \A x \in Rows : left[x] = Total(HoldLines \ ReservationLines(S), x)
  BY <1>2, ReleasedReconciles
<1>4. q \in Nat
  BY MaxQtyAssumption DEF Qty
<1>5. [left EXCEPT ![r] = @ + q] \in [Rows -> Int]
  BY <1>3, <1>4
<1>6. onHand' \in [Rows -> Nat] /\ reserved' \in [Rows -> Nat] /\ BalancesChecked'
  <2>1. onHand \in [Rows -> Int]
    BY DEF TypeOK
  <2>2. UpdateBalances(onHand, [left EXCEPT ![r] = @ + q])
    BY DEF CreateReservation
  <2> QED
    BY <1>5, <2>1, <2>2, UpdateType
<1>7. n \notin S /\ reservation[n].status = "none"
  BY <1>1 DEF CreateReservation, ActiveReservations, Holding
<1>8. /\ reservation' \in [ReservationIds -> ReservationRow]
      /\ \A h \in ReservationIds \ {n} :
           /\ h \notin S => reservation'[h] = reservation[h]
           /\ reservation'[h].row = reservation[h].row
           /\ reservation'[h].qty = reservation[h].qty
      /\ \A h \in S : reservation'[h].status \notin Holding
      /\ reservation'[n].status = "pending"
      /\ reservation'[n].row = r /\ reservation'[n].qty = q
  <2>1. now + ReservationTTL \in Times
    BY StockAssumption, ReservationAssumption DEF CreateReservation, TypeOK, Times
  <2>2. q \in 0 .. MaxQty
    BY MaxQtyAssumption DEF Qty
  <2>3. Expired(S) \in [ReservationIds -> ReservationRow]
    BY DEF Expired, TypeOK, ReservationRow, ReservationStatus
  <2>4. [status |-> "pending", row |-> r, qty |-> q,
         expires |-> now + ReservationTTL] \in ReservationRow
    BY <2>1, <2>2 DEF ReservationRow, ReservationStatus
  <2>5. reservation' = [Expired(S) EXCEPT ![n] =
           [status |-> "pending", row |-> r, qty |-> q,
            expires |-> now + ReservationTTL]]
    BY DEF CreateReservation
  <2>6. \A h \in ReservationIds :
           /\ h \notin S => Expired(S)[h] = reservation[h]
           /\ h \in S => Expired(S)[h].status = "expired"
           /\ Expired(S)[h].row = reservation[h].row
           /\ Expired(S)[h].qty = reservation[h].qty
    BY DEF Expired, TypeOK, ReservationRow
  <2>7. \A h \in S : h \in ReservationIds
    BY <1>1 DEF ActiveReservations
  <2>8. reservation' \in [ReservationIds -> ReservationRow]
    BY <2>3, <2>4, <2>5
  <2>9. \A h \in ReservationIds \ {n} : reservation'[h] = Expired(S)[h]
    BY <2>3, <2>5
  <2>10. reservation'[n] = [status |-> "pending", row |-> r, qty |-> q,
                            expires |-> now + ReservationTTL]
    BY <2>3, <2>5
  <2> QED
    BY <1>7, <2>6, <2>7, <2>8, <2>9, <2>10 DEF Holding
<1>9. TypeOK'
  BY <1>6, <1>8 DEF TypeOK, CreateReservation, counterVars
<1>10. OrdersPlaced'
  <2>1. \A h \in S : reservation[h].status # "none"
    BY <1>1 DEF ActiveReservations, Holding
  <2> QED
    BY <1>8, <2>1 DEF OrdersPlaced
<1>11. /\ HoldLines' = (HoldLines \ ReservationLines(S)) \cup {new}
       /\ new \notin HoldLines
  BY <1>1, <1>7, <1>8, ReservationBegins
<1>12. ASSUME NEW x \in Rows
       PROVE  Total(HoldLines', x) = left[x] + (IF r = x THEN q ELSE 0)
  <2>1. IsFiniteSet(HoldLines \ ReservationLines(S))
    BY HoldLinesFinite, FS_Difference
  <2>2. new.row = r /\ new.qty = q /\ new \notin HoldLines \ ReservationLines(S)
    BY <1>11
  <2>3. Total((HoldLines \ ReservationLines(S)) \cup {new}, x)
          = Total(HoldLines \ ReservationLines(S), x)
              + (IF new.row = x THEN new.qty ELSE 0)
    BY <2>1, <2>2, TotalAdd
  <2> QED
    BY <1>3, <1>11, <2>2, <2>3
<1>13. HoldReconciliation'
  BY <1>3, <1>4, <1>12 DEF HoldReconciliation, UpdateBalances, CreateReservation
<1> QED
  BY <1>6, <1>9, <1>10, <1>13

(* A transition that keeps the hold.                                        *)
LEMMA AdvanceReservationStep ==
  ASSUME HoldInv, NEW h \in ReservationIds, NEW next \in {"accepted", "ready"},
         AdvanceReservation(h, next), UNCHANGED <<counterVars, procurement>>
  PROVE  HoldInv'
<1> USE DEF HoldInv
<1>1. h \in ActiveReservations
  BY DEF AdvanceReservation, ReservationMoves, ActiveReservations, Holding
<1>2. /\ reservation' \in [ReservationIds -> ReservationRow]
      /\ \A g \in ReservationIds :
           /\ g # h => reservation'[g] = reservation[g]
           /\ reservation'[g].row = reservation[g].row
           /\ reservation'[g].qty = reservation[g].qty
      /\ reservation'[h].status \in Holding
  <2>1. next = "ready" => now + ReadyTTL \in Times
    BY StockAssumption, ReservationAssumption DEF AdvanceReservation, TypeOK, Times
  <2> QED
    BY <2>1 DEF AdvanceReservation, TypeOK, ReservationRow, ReservationStatus,
       Holding
<1>3. ActiveReservations' = ActiveReservations
  BY <1>1, <1>2 DEF ActiveReservations
<1>4. HoldLines' = HoldLines
  BY <1>2, <1>3 DEF HoldLines, ReservationLines, ReservationLine,
     ProcurementLines, ProcurementLine, ActiveProcurements, ActiveReservations
<1>5. UNCHANGED stockVars
  BY DEF AdvanceReservation
<1>6. TypeOK'
  BY <1>2, <1>5 DEF TypeOK, stockVars, counterVars
<1>7. OrdersPlaced'
  BY <1>1, <1>2 DEF OrdersPlaced, ActiveReservations, Holding
<1>8. BalancesChecked' /\ HoldReconciliation'
  BY <1>4, <1>5 DEF BalancesChecked, BalanceChecks, HoldReconciliation, stockVars
<1> QED
  BY <1>6, <1>7, <1>8

(* The sale of a reservation takes the hold and the stock together. *)
LEMMA FulfillReservationStep ==
  ASSUME HoldInv, NEW h \in ReservationIds, FulfillReservation(h),
         UNCHANGED <<counterVars, procurement>>
  PROVE  HoldInv'
<1> DEFINE r == reservation[h].row
           q == reservation[h].qty
<1> USE DEF HoldInv
<1>1. h \in ActiveReservations
  BY DEF FulfillReservation, ActiveReservations, Holding
<1>2. r \in Rows /\ q \in Qty /\ q \in Nat
  BY MaxQtyAssumption DEF FulfillReservation, OrdersPlaced, Qty
<1>3. /\ [onHand EXCEPT ![r] = @ - q] \in [Rows -> Int]
      /\ [reserved EXCEPT ![r] = @ - q] \in [Rows -> Int]
  BY <1>2 DEF TypeOK
<1>4. onHand' \in [Rows -> Nat] /\ reserved' \in [Rows -> Nat] /\ BalancesChecked'
  BY <1>3, UpdateType DEF FulfillReservation
<1>5. /\ reservation' \in [ReservationIds -> ReservationRow]
      /\ \A g \in ReservationIds :
           /\ g # h => reservation'[g] = reservation[g]
           /\ reservation'[g].row = reservation[g].row
           /\ reservation'[g].qty = reservation[g].qty
      /\ reservation'[h].status = "fulfilled"
  BY DEF FulfillReservation, TypeOK, ReservationRow, ReservationStatus
<1>6. saleItems' \subseteq SaleLines(SaleDocuments, MaxLines)
  BY <1>2, CounterAssumption DEF FulfillReservation, TypeOK, SaleLines,
     SaleDocuments
<1>7. TypeOK'
  BY <1>4, <1>5, <1>6 DEF TypeOK, FulfillReservation, counterVars
<1>8. OrdersPlaced'
  BY <1>1, <1>5 DEF OrdersPlaced, ActiveReservations, Holding
<1>9. HoldLines' = HoldLines \ {ReservationLine(h)}
  <2>1. HoldLines' = HoldLines \ ReservationLines({h})
    BY <1>1, <1>5, ReservationsEnd DEF Holding
  <2> QED
    BY <2>1 DEF ReservationLines
<1>10. ASSUME NEW x \in Rows
       PROVE  reserved'[x] = Total(HoldLines', x)
  <2>1. /\ IsFiniteSet(HoldLines)
        /\ {ReservationLine(h)} \subseteq HoldLines
    BY <1>1, HoldLinesFinite DEF HoldLines, ReservationLines
  <2>2. Total(HoldLines', x) = Total(HoldLines, x) - Total({ReservationLine(h)}, x)
    BY <1>9, <2>1, TotalMinus
  <2>3. Total({ReservationLine(h)}, x) = IF r = x THEN q ELSE 0
    BY <1>2, TotalOne DEF ReservationLine
  <2>4. reserved'[x] = reserved[x] - (IF r = x THEN q ELSE 0)
    BY <1>2 DEF FulfillReservation, UpdateBalances, TypeOK
  <2> QED
    BY <2>2, <2>3, <2>4 DEF HoldReconciliation
<1>11. HoldReconciliation'
  BY <1>10 DEF HoldReconciliation
<1> QED
  BY <1>4, <1>7, <1>8, <1>11

(* Every action of Reservations keeps HoldInv. *)
LEMMA ReservationStep ==
  ASSUME HoldInv, ReservationNext, UNCHANGED <<counterVars, procurement>>
  PROVE  HoldInv'
<1>1. ASSUME NEW h \in ReservationIds,
             TransitionOverdue(h) \/ FulfillOverdue(h)
      PROVE  HoldInv'
  <2>1. h \in ActiveReservations
    BY <1>1 DEF TransitionOverdue, FulfillOverdue, Overdue, ActiveReservations,
       Holding
  <2>2. reservation' = [reservation EXCEPT ![h].status = "expired"]
    BY <1>1, ExpiredOne DEF TransitionOverdue, FulfillOverdue, HoldInv
  <2>3. "expired" \in ReservationStatus \ Holding
    BY DEF ReservationStatus, Holding
  <2> QED
    BY <1>1, <2>1, <2>2, <2>3, OneReservationEnds
       DEF TransitionOverdue, FulfillOverdue
<1>2. ASSUME NEW h \in ReservationIds, NEW next \in {"rejected", "cancelled"},
             CloseReservation(h, next)
      PROVE  HoldInv'
  <2>1. h \in ActiveReservations
    BY <1>2 DEF CloseReservation, ReservationMoves, ActiveReservations, Holding
  <2>2. next \in ReservationStatus \ Holding
    BY DEF ReservationStatus, Holding
  <2> QED
    BY <1>2, <2>1, <2>2, OneReservationEnds DEF CloseReservation
<1> QED
  BY <1>1, <1>2, SweepReservationsStep, CreateReservationStep,
     AdvanceReservationStep, FulfillReservationStep DEF ReservationNext

-----------------------------------------------------------------------------
(* The actions of Procurements *)

(* The sweep of the procurements keeps HoldInv. *)
LEMMA SweepProcurementsStep ==
  ASSUME HoldInv, NEW S \in SUBSET DueProcurements, SweepProcurements(S),
         UNCHANGED <<counterVars, reservation>>
  PROVE  HoldInv'
<1>1. S \in SUBSET ActiveProcurements
  BY DEF DueProcurements
<1>2. /\ procurement' \in [ProcurementIds -> ProcurementRow]
      /\ \A p \in ProcurementIds : p \notin S => procurement'[p] = procurement[p]
      /\ \A p \in S : /\ ~ isActive(procurement'[p].status)
                      /\ procurement'[p].row = procurement[p].row
                      /\ procurement'[p].to = procurement[p].to
                      /\ procurement'[p].qty = procurement[p].qty
  BY <1>1 DEF SweepProcurements, Lapsed, HoldInv, TypeOK, ProcurementRow,
     ProcurementStatus, isActive, ActiveProcurements
<1> QED
  BY <1>1, <1>2, ProcurementsEndStep DEF SweepProcurements

(* One procurement ends, on any of the other paths. *)
LEMMA OneProcurementEnds ==
  ASSUME HoldInv, NEW p \in ActiveProcurements,
         NEW status \in ProcurementStatus, ~ isActive(status),
         UpdateBalances(onHand, Released({ProcurementLine(p)})),
         procurement' = [procurement EXCEPT ![p].status = status],
         UNCHANGED <<now, saleItems, purchaseItems, counterVars, reservation>>
  PROVE  HoldInv'
<1>1. ProcurementLines({p}) = {ProcurementLine(p)}
  BY DEF ProcurementLines
<1>2. {p} \in SUBSET ActiveProcurements
  OBVIOUS
<1>3. /\ procurement' \in [ProcurementIds -> ProcurementRow]
      /\ \A o \in ProcurementIds : o \notin {p} => procurement'[o] = procurement[o]
      /\ \A o \in {p} : /\ ~ isActive(procurement'[o].status)
                        /\ procurement'[o].row = procurement[o].row
                        /\ procurement'[o].to = procurement[o].to
                        /\ procurement'[o].qty = procurement[o].qty
  BY DEF HoldInv, TypeOK, ProcurementRow, ActiveProcurements
<1> QED
  BY <1>1, <1>2, <1>3, ProcurementsEndStep

(* Lapsed({p}) changes the status of p and nothing else. *)
LEMMA LapsedOne ==
  ASSUME TypeOK, NEW p \in ProcurementIds
  PROVE  Lapsed({p}) = [procurement EXCEPT ![p].status = "expired"]
BY DEF Lapsed, TypeOK, ProcurementRow

(* Create of a procurement, its sweep included, keeps HoldInv. *)
LEMMA CreateProcurementStep ==
  ASSUME HoldInv, NEW n \in ProcurementIds, NEW r \in Rows, NEW to \in Rows,
         NEW q \in Qty, NEW S \in SUBSET DueProcurements,
         CreateProcurement(n, r, to, q, S),
         UNCHANGED <<counterVars, reservation>>
  PROVE  HoldInv'
<1> DEFINE left == Released(ProcurementLines(S))
           new == [key |-> n, row |-> r, qty |-> q]
           order == [status |-> "requested", row |-> r, to |-> to, qty |-> q,
                     expires |-> now + RequestedTTL]
<1> USE DEF HoldInv
<1>1. S \in SUBSET ActiveProcurements
  BY DEF DueProcurements
<1>2. ProcurementLines(S) \in SUBSET HoldLines
  BY <1>1 DEF HoldLines, ProcurementLines
<1>3. /\ left \in [Rows -> Int]
      /\ \A x \in Rows : left[x] = Total(HoldLines \ ProcurementLines(S), x)
  BY <1>2, ReleasedReconciles
<1>4. q \in Nat
  BY MaxQtyAssumption DEF Qty
<1>5. [left EXCEPT ![r] = @ + q] \in [Rows -> Int]
  BY <1>3, <1>4
<1>6. onHand' \in [Rows -> Nat] /\ reserved' \in [Rows -> Nat] /\ BalancesChecked'
  <2>1. onHand \in [Rows -> Int]
    BY DEF TypeOK
  <2>2. UpdateBalances(onHand, [left EXCEPT ![r] = @ + q])
    BY DEF CreateProcurement
  <2> QED
    BY <1>5, <2>1, <2>2, UpdateType
<1>7. n \notin S /\ procurement[n].status = "none"
  BY <1>1 DEF CreateProcurement, ActiveProcurements, isActive
<1>8. /\ procurement' \in [ProcurementIds -> ProcurementRow]
      /\ \A p \in ProcurementIds \ {n} :
           /\ p \notin S => procurement'[p] = procurement[p]
           /\ procurement'[p].row = procurement[p].row
           /\ procurement'[p].to = procurement[p].to
           /\ procurement'[p].qty = procurement[p].qty
      /\ \A p \in S : ~ isActive(procurement'[p].status)
      /\ procurement'[n] = order
  <2>1. now + RequestedTTL \in Times
    BY StockAssumption, ProcurementAssumption DEF CreateProcurement, TypeOK, Times
  <2>2. q \in 0 .. MaxQty
    BY MaxQtyAssumption DEF Qty
  <2>3. Lapsed(S) \in [ProcurementIds -> ProcurementRow]
    BY DEF Lapsed, TypeOK, ProcurementRow, ProcurementStatus
  <2>4. order \in ProcurementRow
    BY <2>1, <2>2 DEF ProcurementRow, ProcurementStatus
  <2>5. procurement' = [Lapsed(S) EXCEPT ![n] = order]
    BY DEF CreateProcurement
  <2>6. \A p \in ProcurementIds :
           /\ p \notin S => Lapsed(S)[p] = procurement[p]
           /\ p \in S => Lapsed(S)[p].status = "expired"
           /\ Lapsed(S)[p].row = procurement[p].row
           /\ Lapsed(S)[p].to = procurement[p].to
           /\ Lapsed(S)[p].qty = procurement[p].qty
    BY DEF Lapsed, TypeOK, ProcurementRow
  <2>7. \A p \in S : p \in ProcurementIds
    BY <1>1 DEF ActiveProcurements
  <2>8. procurement' \in [ProcurementIds -> ProcurementRow]
    BY <2>3, <2>4, <2>5
  <2>9. \A p \in ProcurementIds \ {n} : procurement'[p] = Lapsed(S)[p]
    BY <2>3, <2>5
  <2>10. procurement'[n] = order
    BY <2>3, <2>5
  <2> QED
    BY <1>7, <2>6, <2>7, <2>8, <2>9, <2>10 DEF isActive
<1>9. TypeOK'
  BY <1>6, <1>8 DEF TypeOK, CreateProcurement, counterVars
<1>10. OrdersPlaced'
  <2>1. \A p \in S : procurement[p].status # "none"
    BY <1>1 DEF ActiveProcurements, isActive
  <2>2. r # to
    BY DEF CreateProcurement
  <2> QED
    BY <1>8, <2>1, <2>2 DEF OrdersPlaced
<1>11. /\ HoldLines' = (HoldLines \ ProcurementLines(S)) \cup {new}
       /\ new \notin HoldLines
  <2>1. /\ procurement'[n].status = "requested"
        /\ procurement'[n].row = r /\ procurement'[n].qty = q
    BY <1>8
  <2> QED
    BY <1>1, <1>7, <1>8, <2>1, ProcurementBegins DEF CreateProcurement
<1>12. ASSUME NEW x \in Rows
       PROVE  Total(HoldLines', x) = left[x] + (IF r = x THEN q ELSE 0)
  <2>1. IsFiniteSet(HoldLines \ ProcurementLines(S))
    BY HoldLinesFinite, FS_Difference
  <2>2. new.row = r /\ new.qty = q /\ new \notin HoldLines \ ProcurementLines(S)
    BY <1>11
  <2>3. Total((HoldLines \ ProcurementLines(S)) \cup {new}, x)
          = Total(HoldLines \ ProcurementLines(S), x)
              + (IF new.row = x THEN new.qty ELSE 0)
    BY <2>1, <2>2, TotalAdd
  <2> QED
    BY <1>3, <1>11, <2>2, <2>3
<1>13. HoldReconciliation'
  BY <1>3, <1>4, <1>12 DEF HoldReconciliation, UpdateBalances, CreateProcurement
<1> QED
  BY <1>6, <1>9, <1>10, <1>13

(* A transition of a procurement that keeps the hold. *)
LEMMA AdvanceProcurementStep ==
  ASSUME HoldInv, NEW p \in ProcurementIds, NEW next \in {"accepted", "ready"},
         AdvanceProcurement(p, next), UNCHANGED <<counterVars, reservation>>
  PROVE  HoldInv'
<1> USE DEF HoldInv
<1>1. p \in ActiveProcurements
  BY DEF AdvanceProcurement, ProcurementMoves, ActiveProcurements, isActive
<1>2. /\ procurement' \in [ProcurementIds -> ProcurementRow]
      /\ \A o \in ProcurementIds :
           /\ o # p => procurement'[o] = procurement[o]
           /\ procurement'[o].row = procurement[o].row
           /\ procurement'[o].to = procurement[o].to
           /\ procurement'[o].qty = procurement[o].qty
      /\ isActive(procurement'[p].status)
  <2>1. now + NextTTL(next) \in Times
    BY StockAssumption, ProcurementAssumption
       DEF AdvanceProcurement, TypeOK, Times, NextTTL
  <2> QED
    BY <2>1 DEF AdvanceProcurement, TypeOK, ProcurementRow, ProcurementStatus,
       isActive
<1>3. ActiveProcurements' = ActiveProcurements
  BY <1>1, <1>2 DEF ActiveProcurements
<1>4. HoldLines' = HoldLines
  BY <1>2, <1>3 DEF HoldLines, ReservationLines, ReservationLine,
     ProcurementLines, ProcurementLine, ActiveProcurements, ActiveReservations
<1>5. UNCHANGED stockVars
  BY DEF AdvanceProcurement
<1>6. TypeOK'
  BY <1>2, <1>5 DEF TypeOK, stockVars, counterVars
<1>7. OrdersPlaced'
  BY <1>1, <1>2 DEF OrdersPlaced, ActiveProcurements, isActive
<1>8. BalancesChecked' /\ HoldReconciliation'
  BY <1>4, <1>5 DEF BalancesChecked, BalanceChecks, HoldReconciliation, stockVars
<1> QED
  BY <1>6, <1>7, <1>8

(* Receive gives up the hold on the row it takes the stock from. *)
LEMMA ReceiveStep ==
  ASSUME HoldInv, NEW p \in ProcurementIds, Receive(p),
         UNCHANGED <<counterVars, reservation>>
  PROVE  HoldInv'
<1> DEFINE from == procurement[p].row
           to == procurement[p].to
           q == procurement[p].qty
<1> USE DEF HoldInv
<1>1. p \in ActiveProcurements
  BY DEF Receive, ActiveProcurements, isActive
<1>2. from \in Rows /\ to \in Rows /\ q \in Qty /\ q \in Nat
  BY MaxQtyAssumption DEF Receive, OrdersPlaced, Qty
<1>3. /\ [onHand EXCEPT ![from] = @ - q, ![to] = @ + q] \in [Rows -> Int]
      /\ [reserved EXCEPT ![from] = @ - q] \in [Rows -> Int]
  BY <1>2 DEF TypeOK
<1>4. onHand' \in [Rows -> Nat] /\ reserved' \in [Rows -> Nat] /\ BalancesChecked'
  BY <1>3, UpdateType DEF Receive
<1>5. /\ procurement' \in [ProcurementIds -> ProcurementRow]
      /\ \A o \in ProcurementIds :
           /\ o # p => procurement'[o] = procurement[o]
           /\ procurement'[o].row = procurement[o].row
           /\ procurement'[o].to = procurement[o].to
           /\ procurement'[o].qty = procurement[o].qty
      /\ procurement'[p].status = "received"
  BY DEF Receive, TypeOK, ProcurementRow, ProcurementStatus
<1>6. saleItems' \subseteq SaleLines(SaleDocuments, MaxLines)
  BY <1>2, CounterAssumption DEF Receive, TypeOK, SaleLines, SaleDocuments
<1>7. purchaseItems' \subseteq PurchaseLines(PurchaseKeys \cup ProcurementIds)
  BY <1>2 DEF Receive, TypeOK, PurchaseLines
<1>8. TypeOK'
  BY <1>4, <1>5, <1>6, <1>7 DEF TypeOK, Receive, counterVars
<1>9. OrdersPlaced'
  BY <1>1, <1>5 DEF OrdersPlaced, ActiveProcurements, isActive
<1>10. HoldLines' = HoldLines \ {ProcurementLine(p)}
  <2>1. HoldLines' = HoldLines \ ProcurementLines({p})
    BY <1>1, <1>5, ProcurementsEnd DEF isActive
  <2> QED
    BY <2>1 DEF ProcurementLines
<1>11. ASSUME NEW x \in Rows
       PROVE  reserved'[x] = Total(HoldLines', x)
  <2>1. /\ IsFiniteSet(HoldLines)
        /\ {ProcurementLine(p)} \subseteq HoldLines
    BY <1>1, HoldLinesFinite DEF HoldLines, ProcurementLines
  <2>2. Total(HoldLines', x) = Total(HoldLines, x) - Total({ProcurementLine(p)}, x)
    BY <1>10, <2>1, TotalMinus
  <2>3. Total({ProcurementLine(p)}, x) = IF from = x THEN q ELSE 0
    BY <1>2, TotalOne DEF ProcurementLine
  <2>4. reserved'[x] = reserved[x] - (IF from = x THEN q ELSE 0)
    BY <1>2 DEF Receive, UpdateBalances, TypeOK
  <2> QED
    BY <2>2, <2>3, <2>4 DEF HoldReconciliation
<1>12. HoldReconciliation'
  BY <1>11 DEF HoldReconciliation
<1> QED
  BY <1>4, <1>8, <1>9, <1>12

(* Every action of Procurements keeps HoldInv. *)
LEMMA ProcurementStep ==
  ASSUME HoldInv, ProcurementNext, UNCHANGED <<counterVars, reservation>>
  PROVE  HoldInv'
<1>1. ASSUME NEW p \in ProcurementIds, TransitionLapsed(p) \/ ReceiveLapsed(p)
      PROVE  HoldInv'
  <2>1. p \in ActiveProcurements
    BY <1>1 DEF TransitionLapsed, ReceiveLapsed, DueProcurements,
       ActiveProcurements, isActive
  <2>2. procurement' = [procurement EXCEPT ![p].status = "expired"]
    BY <1>1, LapsedOne DEF TransitionLapsed, ReceiveLapsed, HoldInv
  <2>3. "expired" \in ProcurementStatus /\ ~ isActive("expired")
    BY DEF ProcurementStatus, isActive
  <2> QED
    BY <1>1, <2>1, <2>2, <2>3, OneProcurementEnds
       DEF TransitionLapsed, ReceiveLapsed
<1>2. ASSUME NEW p \in ProcurementIds, NEW next \in {"rejected", "cancelled"},
             CloseProcurement(p, next)
      PROVE  HoldInv'
  <2>1. p \in ActiveProcurements
    BY <1>2 DEF CloseProcurement, ProcurementMoves, ActiveProcurements, isActive
  <2>2. next \in ProcurementStatus /\ ~ isActive(next)
    BY DEF ProcurementStatus, isActive
  <2> QED
    BY <1>2, <2>1, <2>2, OneProcurementEnds DEF CloseProcurement
<1> QED
  BY <1>1, <1>2, SweepProcurementsStep, CreateProcurementStep,
     AdvanceProcurementStep, ReceiveStep DEF ProcurementNext

-----------------------------------------------------------------------------
(* The actions of CounterDocuments, and the clock *)

(* The lines of a sale request are finitely many.                           *)
LEMMA ItemsOfFinite ==
  ASSUME NEW k, NEW items \in SaleRequests
  PROVE  /\ IsFiniteSet(ItemsOf(k, items))
         /\ ItemsOf(k, items) \subseteq SaleLines({k}, MaxLines)
<1> DEFINE f == [i \in DOMAIN items |->
                   [key |-> k, line |-> i, row |-> items[i].row,
                    qty |-> items[i].qty]]
<1>1. PICK n \in 1 .. MaxLines : items \in [1 .. n -> [row : Rows, qty : Qty]]
  BY DEF SaleRequests
<1>2. IsFiniteSet(DOMAIN items)
  BY <1>1, FS_Interval, CounterAssumption
<1>3. f \in Surjection(DOMAIN items, ItemsOf(k, items))
  BY DEF Surjection, ItemsOf
<1>4. IsFiniteSet(ItemsOf(k, items))
  BY <1>2, <1>3, FS_Surjection
<1>5. ItemsOf(k, items) \subseteq SaleLines({k}, MaxLines)
  BY <1>1, CounterAssumption DEF ItemsOf, SaleLines
<1> QED
  BY <1>4, <1>5

(* Nothing at the counter touches a hold.                                   *)
LEMMA HoldsUntouched ==
  ASSUME HoldInv, UNCHANGED <<reserved, reservation, procurement>>
  PROVE  OrdersPlaced' /\ HoldReconciliation'
<1>1. HoldLines' = HoldLines
  BY DEF HoldLines, ReservationLines, ReservationLine, ActiveReservations,
     ProcurementLines, ProcurementLine, ActiveProcurements
<1>2. OrdersPlaced'
  BY DEF HoldInv, OrdersPlaced
<1>3. HoldReconciliation'
  BY <1>1 DEF HoldInv, HoldReconciliation
<1> QED
  BY <1>2, <1>3

(* Every document of the counter keeps HoldInv. *)
LEMMA CounterStep ==
  ASSUME HoldInv, CounterNext, UNCHANGED <<reservation, procurement>>
  PROVE  HoldInv'
<1> USE DEF HoldInv
<1>1. \A q \in Qty : q \in Nat
  BY MaxQtyAssumption DEF Qty
<1>2. reserved \in [Rows -> Int]
  BY DEF TypeOK
<1>3. ASSUME NEW k \in SaleKeys, NEW items \in SaleRequests, CreateSale(k, items)
      PROVE  TypeOK' /\ BalancesChecked' /\ reserved' = reserved
  <2>1. \A r \in Rows : Total(ItemsOf(k, items), r) \in Nat
    BY ItemsOfFinite, TotalType
  <2>2. Shipped(ItemsOf(k, items)) \in [Rows -> Int]
    BY <2>1 DEF Shipped, TypeOK
  <2>3. onHand' \in [Rows -> Nat] /\ reserved' \in [Rows -> Nat] /\ BalancesChecked'
    BY <1>2, <1>3, <2>2, UpdateType DEF CreateSale
  <2>4. saleItems' \subseteq SaleLines(SaleDocuments, MaxLines)
    BY <1>3, ItemsOfFinite DEF CreateSale, TypeOK, SaleLines, SaleDocuments
  <2> QED
    BY <1>3, <2>3, <2>4 DEF CreateSale, TypeOK, counterVars, UpdateBalances
<1>4. ASSUME NEW k \in PurchaseKeys, NEW r \in Rows, NEW q \in Qty,
             CreatePurchase(k, r, q)
      PROVE  TypeOK' /\ BalancesChecked' /\ reserved' = reserved
  <2>1. [onHand EXCEPT ![r] = @ + q] \in [Rows -> Int]
    BY <1>1 DEF TypeOK
  <2>2. onHand' \in [Rows -> Nat] /\ reserved' \in [Rows -> Nat] /\ BalancesChecked'
    BY <1>2, <1>4, <2>1, UpdateType DEF CreatePurchase
  <2> QED
    BY <1>4, <2>2 DEF CreatePurchase, TypeOK, counterVars, UpdateBalances,
       PurchaseLines
<1>5. ASSUME NEW k \in SaleReturnKeys, NEW s \in saleItems, NEW q \in Qty,
             CreateSaleReturn(k, s, q)
      PROVE  TypeOK' /\ BalancesChecked' /\ reserved' = reserved
  <2>1. s \in SaleLines(SaleDocuments, MaxLines)
    BY DEF TypeOK
  <2>2. [onHand EXCEPT ![s.row] = @ + q] \in [Rows -> Int]
    BY <1>1, <2>1 DEF TypeOK, SaleLines
  <2>3. onHand' \in [Rows -> Nat] /\ reserved' \in [Rows -> Nat] /\ BalancesChecked'
    BY <1>2, <1>5, <2>2, UpdateType DEF CreateSaleReturn
  <2>4. [key |-> k, sale |-> s.key, line |-> s.line, row |-> s.row, qty |-> q]
          \in [key : SaleReturnKeys, sale : SaleDocuments, line : 1 .. MaxLines,
              row : Rows, qty : Qty]
    BY <2>1 DEF SaleLines
  <2> QED
    BY <1>5, <2>3, <2>4 DEF CreateSaleReturn, TypeOK, UpdateBalances
<1>6. ASSUME NEW k \in PurchaseReturnKeys, NEW p \in purchaseItems, NEW q \in Qty,
             CreatePurchaseReturn(k, p, q)
      PROVE  TypeOK' /\ BalancesChecked' /\ reserved' = reserved
  <2>1. p \in PurchaseLines(PurchaseKeys \cup ProcurementIds)
    BY DEF TypeOK
  <2>2. [onHand EXCEPT ![p.row] = @ - q] \in [Rows -> Int]
    BY <1>1, <2>1 DEF TypeOK, PurchaseLines
  <2>3. onHand' \in [Rows -> Nat] /\ reserved' \in [Rows -> Nat] /\ BalancesChecked'
    BY <1>2, <1>6, <2>2, UpdateType DEF CreatePurchaseReturn
  <2>4. [key |-> k, purchase |-> p.key, row |-> p.row, qty |-> q]
          \in [key : PurchaseReturnKeys, purchase : PurchaseKeys \cup ProcurementIds,
              row : Rows, qty : Qty]
    BY <2>1 DEF PurchaseLines
  <2> QED
    BY <1>6, <2>3, <2>4 DEF CreatePurchaseReturn, TypeOK, UpdateBalances
<1>7. ASSUME NEW k \in AdjustmentKeys, NEW r \in Rows, NEW q \in Qty,
             NEW dir \in {"in", "out"}, Adjust(k, r, q, dir)
      PROVE  TypeOK' /\ BalancesChecked' /\ reserved' = reserved
  <2> DEFINE counted == IF dir = "in" THEN onHand[r] + q ELSE onHand[r] - q
  <2>1. [onHand EXCEPT ![r] = counted] \in [Rows -> Int]
    BY <1>1 DEF TypeOK
  <2>2. onHand' \in [Rows -> Nat] /\ reserved' \in [Rows -> Nat] /\ BalancesChecked'
    BY <1>2, <1>7, <2>1, UpdateType DEF Adjust
  <2>3. [key |-> k, row |-> r, qty |-> q, dir |-> dir]
          \in [key : AdjustmentKeys, row : Rows, qty : Qty, dir : {"in", "out"}]
    OBVIOUS
  <2>4. adjustments' = adjustments \cup
          {[key |-> k, row |-> r, qty |-> q, dir |-> dir]}
    BY <1>7 DEF Adjust
  <2>5. /\ reserved' = reserved
        /\ UNCHANGED <<now, saleItems, purchaseItems, saleReturnItems,
                       purchaseReturnItems>>
    BY <1>7 DEF Adjust, UpdateBalances
  <2> QED
    BY <2>2, <2>3, <2>4, <2>5 DEF TypeOK
<1>8. TypeOK' /\ BalancesChecked' /\ reserved' = reserved
  BY <1>3, <1>4, <1>5, <1>6, <1>7 DEF CounterNext
<1> QED
  BY <1>8, HoldsUntouched

(* Time passing touches no balance and no hold. *)
LEMMA ClockStep ==
  ASSUME HoldInv, TickClock, UNCHANGED <<counterVars, reservation, procurement>>
  PROVE  HoldInv'
<1> USE DEF HoldInv
<1>1. now' \in Times
  BY StockAssumption DEF TickClock, TypeOK, Times
<1>2. TypeOK' /\ BalancesChecked'
  BY <1>1 DEF TickClock, TypeOK, BalancesChecked, BalanceChecks, counterVars
<1> QED
  BY <1>2, HoldsUntouched DEF TickClock

-----------------------------------------------------------------------------
(* Theorems *)

(* HoldInv holds at the start. *)
LEMMA HoldInvInit == Init => HoldInv
<1> SUFFICES ASSUME Init PROVE HoldInv
  OBVIOUS
<1> USE DEF Init, StockInit, CounterInit, ReservationInit, ProcurementInit
<1>1. TypeOK
  BY StockAssumption, MaxQtyAssumption DEF TypeOK, Times, ReservationRow,
     ProcurementRow, ReservationStatus, ProcurementStatus
<1>2. BalancesChecked
  BY StockAssumption DEF BalancesChecked, BalanceChecks
<1>3. OrdersPlaced
  BY DEF OrdersPlaced
<1>4. HoldLines = {}
  BY DEF HoldLines, ReservationLines, ProcurementLines, ActiveReservations,
     ActiveProcurements, Holding, isActive
<1>5. HoldReconciliation
  BY <1>4, TotalEmpty DEF HoldReconciliation
<1> QED
  BY <1>1, <1>2, <1>3, <1>5 DEF HoldInv

(* HoldInv is inductive. *)
LEMMA HoldInvNext == HoldInv /\ [Next]_vars => HoldInv'
<1> SUFFICES ASSUME HoldInv, [Next]_vars PROVE HoldInv'
  OBVIOUS
<1>1. CASE UNCHANGED vars
  <2>1. TypeOK' /\ BalancesChecked'
    BY <1>1 DEF HoldInv, TypeOK, BalancesChecked, BalanceChecks, vars,
       stockVars, counterVars
  <2> QED
    BY <1>1, <2>1, HoldsUntouched DEF HoldInv, vars, stockVars
<1> QED
  BY <1>1, ClockStep, CounterStep, ReservationStep, ProcurementStep DEF Next

(* The type invariant holds in every reachable state.                       *)
THEOREM TypeCorrect == Spec => []TypeOK
<1>1. HoldInv => TypeOK
  BY DEF HoldInv
<1> QED
  BY <1>1, HoldInvInit, HoldInvNext, PTL DEF Spec

(* reserved is always the sum of the open holds: the reconciliation that    *)
(* ops/rc-db-check.sh makes can never fail.                                 *)
THEOREM HoldsReconcile == Spec => []HoldReconciliation
<1>1. HoldInv => HoldReconciliation
  BY DEF HoldInv
<1> QED
  BY <1>1, HoldInvInit, HoldInvNext, PTL DEF Spec

(* All open holds can be given up or sold at any time.                      *)
THEOREM HoldsAreBacked == Spec => []HoldsBacked
<1>1. HoldInv => HoldsBacked
  <2> SUFFICES ASSUME HoldInv PROVE HoldsBacked
    OBVIOUS
  <2>1. ASSUME NEW r \in Rows
        PROVE  /\ Total(HoldLines, r) <= reserved[r]
               /\ Total(HoldLines, r) <= onHand[r]
    BY DEF HoldInv, HoldReconciliation, BalancesChecked, BalanceChecks, TypeOK
  <2> QED
    BY <2>1 DEF HoldsBacked, Releasable
<1> QED
  BY <1>1, HoldInvInit, HoldInvNext, PTL DEF Spec

-----------------------------------------------------------------------------
(* What the actions of Reservations and Procurements do to an order *)

\* The orders in S end without a document, the others stay as they are.
EndReservations(S) ==
  /\ S \subseteq ActiveReservations
  /\ \A h \in ReservationIds : h \notin S => reservation'[h] = reservation[h]
  /\ \A h \in S :
       /\ reservation'[h].status \in {"rejected", "cancelled", "expired"}
       /\ reservation'[h].row = reservation[h].row
       /\ reservation'[h].qty = reservation[h].qty

\* The same, and n is placed.
PlaceReservation(n, r, q, S) ==
  /\ S \subseteq ActiveReservations
  /\ reservation[n].status = "none" /\ n \notin S
  /\ \A h \in ReservationIds \ {n} :
       h \notin S => reservation'[h] = reservation[h]
  /\ \A h \in S :
       /\ reservation'[h].status \in {"rejected", "cancelled", "expired"}
       /\ reservation'[h].row = reservation[h].row
       /\ reservation'[h].qty = reservation[h].qty
  /\ reservation'[n].status = "pending"
  /\ reservation'[n].row = r /\ reservation'[n].qty = q

\* h goes from one status to another, and keeps its row and quantity.
MoveReservation(h, from, to) ==
  /\ \A g \in ReservationIds \ {h} : reservation'[g] = reservation[g]
  /\ reservation[h].status \in from /\ reservation'[h].status \in to
  /\ reservation'[h].row = reservation[h].row
  /\ reservation'[h].qty = reservation[h].qty

(* Every action of Reservations does one of four things.                    *)
LEMMA ReservationShapes ==
  ASSUME TypeOK, ReservationNext
  PROVE  \/ \E S \in SUBSET ActiveReservations :
              /\ EndReservations(S)
              /\ UpdateBalances(onHand, Released(ReservationLines(S)))
              /\ UNCHANGED <<now, saleItems, purchaseItems>>
         \/ \E n \in ReservationIds, r \in Rows, q \in Qty,
               S \in SUBSET ActiveReservations :
              /\ PlaceReservation(n, r, q, S)
              /\ q <= onHand[r] - Released(ReservationLines(S))[r]
              /\ UpdateBalances(onHand,
                   [Released(ReservationLines(S)) EXCEPT ![r] = @ + q])
              /\ UNCHANGED <<now, saleItems, purchaseItems>>
         \/ \E h \in ReservationIds :
              /\ MoveReservation(h, Holding, Holding)
              /\ UNCHANGED stockVars
         \/ \E h \in ReservationIds :
              /\ FulfillReservation(h)
              /\ MoveReservation(h, {"ready"}, {"fulfilled"})
<1> DEFINE Ends(S) ==
             /\ EndReservations(S)
             /\ UpdateBalances(onHand, Released(ReservationLines(S)))
             /\ UNCHANGED <<now, saleItems, purchaseItems>>
<1>1. \A S \in SUBSET ActiveReservations :
        /\ \A h \in ReservationIds : h \notin S => Expired(S)[h] = reservation[h]
        /\ \A h \in S : /\ Expired(S)[h].status = "expired"
                        /\ Expired(S)[h].row = reservation[h].row
                        /\ Expired(S)[h].qty = reservation[h].qty
  BY DEF Expired, TypeOK, ReservationRow, ActiveReservations
<1>2. \A h \in ReservationIds : ReservationLines({h}) = {ReservationLine(h)}
  BY DEF ReservationLines
<1>3. ASSUME NEW S \in SUBSET DueReservations, SweepReservations(S)
      PROVE  \E U \in SUBSET ActiveReservations : Ends(U)
  <2>1. S \in SUBSET ActiveReservations
    BY DEF DueReservations
  <2>2. EndReservations(S)
    BY <1>1, <1>3, <2>1 DEF SweepReservations, EndReservations
  <2> QED
    BY <1>3, <2>1, <2>2 DEF SweepReservations
<1>4. ASSUME NEW h \in ReservationIds, TransitionOverdue(h) \/ FulfillOverdue(h)
      PROVE  \E U \in SUBSET ActiveReservations : Ends(U)
  <2>1. {h} \in SUBSET ActiveReservations
    BY <1>4 DEF TransitionOverdue, FulfillOverdue, Overdue, ActiveReservations,
       Holding
  <2>2. EndReservations({h})
    BY <1>1, <1>4, <2>1 DEF TransitionOverdue, FulfillOverdue, EndReservations
  <2> QED
    BY <1>2, <1>4, <2>1, <2>2 DEF TransitionOverdue, FulfillOverdue
<1>5. ASSUME NEW h \in ReservationIds, NEW next \in {"rejected", "cancelled"},
             CloseReservation(h, next)
      PROVE  \E U \in SUBSET ActiveReservations : Ends(U)
  <2>1. {h} \in SUBSET ActiveReservations
    BY <1>5 DEF CloseReservation, ReservationMoves, ActiveReservations, Holding
  <2>2. EndReservations({h})
    BY <1>5, <2>1 DEF CloseReservation, EndReservations, TypeOK, ReservationRow
  <2> QED
    BY <1>2, <1>5, <2>1, <2>2 DEF CloseReservation
<1>6. ASSUME NEW n \in ReservationIds, NEW r \in Rows, NEW q \in Qty,
             NEW S \in SUBSET DueReservations, CreateReservation(n, r, q, S)
      PROVE  S \in SUBSET ActiveReservations /\ PlaceReservation(n, r, q, S)
  <2> DEFINE order == [status |-> "pending", row |-> r, qty |-> q,
                       expires |-> now + ReservationTTL]
  <2>1. S \in SUBSET ActiveReservations
    BY DEF DueReservations
  <2>2. reservation[n].status = "none" /\ n \notin S
    BY <1>6, <2>1 DEF CreateReservation, ActiveReservations, Holding
  <2>3. /\ \A h \in ReservationIds \ {n} : reservation'[h] = Expired(S)[h]
        /\ reservation'[n] = order
    BY <1>6 DEF CreateReservation, Expired
  <2>4. \A h \in S : h \in ReservationIds \ {n}
    BY <2>1, <2>2 DEF ActiveReservations
  <2> QED
    BY <1>1, <2>1, <2>2, <2>3, <2>4 DEF PlaceReservation
<1>7. ASSUME NEW h \in ReservationIds, NEW next \in {"accepted", "ready"},
             AdvanceReservation(h, next)
      PROVE  MoveReservation(h, Holding, Holding) /\ UNCHANGED stockVars
  BY <1>7 DEF AdvanceReservation, ReservationMoves, MoveReservation, Holding,
     TypeOK, ReservationRow
<1>8. ASSUME NEW h \in ReservationIds, FulfillReservation(h)
      PROVE  MoveReservation(h, {"ready"}, {"fulfilled"})
  BY <1>8 DEF FulfillReservation, MoveReservation, TypeOK, ReservationRow
<1>9. CASE \E U \in SUBSET ActiveReservations : Ends(U)
  BY <1>9
<1>10. CASE \E n \in ReservationIds, r \in Rows, q \in Qty,
              S \in SUBSET DueReservations : CreateReservation(n, r, q, S)
  <2>1. PICK n \in ReservationIds, r \in Rows, q \in Qty,
              S \in SUBSET DueReservations : CreateReservation(n, r, q, S)
    BY <1>10
  <2>2. /\ q <= onHand[r] - Released(ReservationLines(S))[r]
        /\ UpdateBalances(onHand,
             [Released(ReservationLines(S)) EXCEPT ![r] = @ + q])
        /\ UNCHANGED <<now, saleItems, purchaseItems>>
    BY <2>1 DEF CreateReservation
  <2> QED
    BY <1>6, <2>1, <2>2
<1>11. CASE \E h \in ReservationIds :
              \/ \E next \in {"accepted", "ready"} : AdvanceReservation(h, next)
              \/ FulfillReservation(h)
  BY <1>7, <1>8, <1>11
<1> QED
  BY <1>3, <1>4, <1>5, <1>9, <1>10, <1>11 DEF ReservationNext

\* The same of procurements, which also name the row the stock goes to.
EndProcurements(S) ==
  /\ S \subseteq ActiveProcurements
  /\ \A p \in ProcurementIds : p \notin S => procurement'[p] = procurement[p]
  /\ \A p \in S :
       /\ procurement'[p].status \in {"rejected", "cancelled", "expired"}
       /\ procurement'[p].row = procurement[p].row
       /\ procurement'[p].to = procurement[p].to
       /\ procurement'[p].qty = procurement[p].qty

PlaceProcurement(n, r, to, q, S) ==
  /\ S \subseteq ActiveProcurements
  /\ procurement[n].status = "none" /\ n \notin S
  /\ \A p \in ProcurementIds \ {n} :
       p \notin S => procurement'[p] = procurement[p]
  /\ \A p \in S :
       /\ procurement'[p].status \in {"rejected", "cancelled", "expired"}
       /\ procurement'[p].row = procurement[p].row
       /\ procurement'[p].to = procurement[p].to
       /\ procurement'[p].qty = procurement[p].qty
  /\ procurement'[n].status = "requested"
  /\ procurement'[n].row = r /\ procurement'[n].to = to
  /\ procurement'[n].qty = q

ActiveStatuses == {"requested", "accepted", "ready"}

MoveProcurement(p, from, to) ==
  /\ \A o \in ProcurementIds \ {p} : procurement'[o] = procurement[o]
  /\ procurement[p].status \in from /\ procurement'[p].status \in to
  /\ procurement'[p].row = procurement[p].row
  /\ procurement'[p].to = procurement[p].to
  /\ procurement'[p].qty = procurement[p].qty

(* Every action of Procurements does one of the same four things.           *)
LEMMA ProcurementShapes ==
  ASSUME TypeOK, ProcurementNext
  PROVE  \/ \E S \in SUBSET ActiveProcurements :
              /\ EndProcurements(S)
              /\ UpdateBalances(onHand, Released(ProcurementLines(S)))
              /\ UNCHANGED <<now, saleItems, purchaseItems>>
         \/ \E n \in ProcurementIds, r, to \in Rows, q \in Qty,
               S \in SUBSET ActiveProcurements :
              /\ PlaceProcurement(n, r, to, q, S)
              /\ q <= onHand[r] - Released(ProcurementLines(S))[r]
              /\ UpdateBalances(onHand,
                   [Released(ProcurementLines(S)) EXCEPT ![r] = @ + q])
              /\ UNCHANGED <<now, saleItems, purchaseItems>>
         \/ \E p \in ProcurementIds :
              /\ MoveProcurement(p, ActiveStatuses, ActiveStatuses)
              /\ UNCHANGED stockVars
         \/ \E p \in ProcurementIds :
              /\ Receive(p)
              /\ MoveProcurement(p, {"ready"}, {"received"})
<1> DEFINE Ends(S) ==
             /\ EndProcurements(S)
             /\ UpdateBalances(onHand, Released(ProcurementLines(S)))
             /\ UNCHANGED <<now, saleItems, purchaseItems>>
<1>1. \A S \in SUBSET ActiveProcurements :
        /\ \A p \in ProcurementIds : p \notin S => Lapsed(S)[p] = procurement[p]
        /\ \A p \in S : /\ Lapsed(S)[p].status = "expired"
                        /\ Lapsed(S)[p].row = procurement[p].row
                        /\ Lapsed(S)[p].to = procurement[p].to
                        /\ Lapsed(S)[p].qty = procurement[p].qty
  BY DEF Lapsed, TypeOK, ProcurementRow, ActiveProcurements
<1>2. \A p \in ProcurementIds : ProcurementLines({p}) = {ProcurementLine(p)}
  BY DEF ProcurementLines
<1>3. ASSUME NEW S \in SUBSET DueProcurements, SweepProcurements(S)
      PROVE  \E U \in SUBSET ActiveProcurements : Ends(U)
  <2>1. S \in SUBSET ActiveProcurements
    BY DEF DueProcurements
  <2>2. EndProcurements(S)
    BY <1>1, <1>3, <2>1 DEF SweepProcurements, EndProcurements
  <2> QED
    BY <1>3, <2>1, <2>2 DEF SweepProcurements
<1>4. ASSUME NEW p \in ProcurementIds, TransitionLapsed(p) \/ ReceiveLapsed(p)
      PROVE  \E U \in SUBSET ActiveProcurements : Ends(U)
  <2>1. {p} \in SUBSET ActiveProcurements
    BY <1>4 DEF TransitionLapsed, ReceiveLapsed, DueProcurements,
       ActiveProcurements, isActive
  <2>2. EndProcurements({p})
    BY <1>1, <1>4, <2>1 DEF TransitionLapsed, ReceiveLapsed, EndProcurements
  <2> QED
    BY <1>2, <1>4, <2>1, <2>2 DEF TransitionLapsed, ReceiveLapsed
<1>5. ASSUME NEW p \in ProcurementIds, NEW next \in {"rejected", "cancelled"},
             CloseProcurement(p, next)
      PROVE  \E U \in SUBSET ActiveProcurements : Ends(U)
  <2>1. {p} \in SUBSET ActiveProcurements
    BY <1>5 DEF CloseProcurement, ProcurementMoves, ActiveProcurements, isActive
  <2>2. EndProcurements({p})
    BY <1>5, <2>1 DEF CloseProcurement, EndProcurements, TypeOK, ProcurementRow
  <2> QED
    BY <1>2, <1>5, <2>1, <2>2 DEF CloseProcurement
<1>6. ASSUME NEW n \in ProcurementIds, NEW r \in Rows, NEW to \in Rows,
             NEW q \in Qty, NEW S \in SUBSET DueProcurements,
             CreateProcurement(n, r, to, q, S)
      PROVE  S \in SUBSET ActiveProcurements /\ PlaceProcurement(n, r, to, q, S)
  <2> DEFINE order == [status |-> "requested", row |-> r, to |-> to, qty |-> q,
                       expires |-> now + RequestedTTL]
  <2>1. S \in SUBSET ActiveProcurements
    BY DEF DueProcurements
  <2>2. procurement[n].status = "none" /\ n \notin S
    BY <1>6, <2>1 DEF CreateProcurement, ActiveProcurements, isActive
  <2>3. /\ \A p \in ProcurementIds \ {n} : procurement'[p] = Lapsed(S)[p]
        /\ procurement'[n] = order
    BY <1>6 DEF CreateProcurement, Lapsed
  <2>4. \A p \in S : p \in ProcurementIds \ {n}
    BY <2>1, <2>2 DEF ActiveProcurements
  <2> QED
    BY <1>1, <2>1, <2>2, <2>3, <2>4 DEF PlaceProcurement
<1>7. ASSUME NEW p \in ProcurementIds, NEW next \in {"accepted", "ready"},
             AdvanceProcurement(p, next)
      PROVE  /\ MoveProcurement(p, ActiveStatuses, ActiveStatuses)
             /\ UNCHANGED stockVars
  BY <1>7 DEF AdvanceProcurement, ProcurementMoves, MoveProcurement,
     ActiveStatuses, TypeOK, ProcurementRow
<1>8. ASSUME NEW p \in ProcurementIds, Receive(p)
      PROVE  MoveProcurement(p, {"ready"}, {"received"})
  BY <1>8 DEF Receive, MoveProcurement, TypeOK, ProcurementRow
<1>9. CASE \E U \in SUBSET ActiveProcurements : Ends(U)
  BY <1>9
<1>10. CASE \E p \in ProcurementIds, r, to \in Rows, q \in Qty,
              S \in SUBSET DueProcurements : CreateProcurement(p, r, to, q, S)
  <2>1. PICK p \in ProcurementIds, r \in Rows, to \in Rows, q \in Qty,
              S \in SUBSET DueProcurements : CreateProcurement(p, r, to, q, S)
    BY <1>10
  <2>2. /\ q <= onHand[r] - Released(ProcurementLines(S))[r]
        /\ UpdateBalances(onHand,
             [Released(ProcurementLines(S)) EXCEPT ![r] = @ + q])
        /\ UNCHANGED <<now, saleItems, purchaseItems>>
    BY <2>1 DEF CreateProcurement
  <2> QED
    BY <1>6, <2>1, <2>2
<1>11. CASE \E p \in ProcurementIds :
              \/ \E next \in {"accepted", "ready"} : AdvanceProcurement(p, next)
              \/ Receive(p)
  BY <1>7, <1>8, <1>11
<1> QED
  BY <1>3, <1>4, <1>5, <1>9, <1>10, <1>11 DEF ProcurementNext

-----------------------------------------------------------------------------
(* The inductive invariant of the documents *)

\* A sale line is found by its sale's key and its number; a return names a
\* line that has been posted and moves that line's row; and no more comes back
\* of a line than was sold.
SalesInOrder ==
  /\ IsFiniteSet(saleItems) /\ IsFiniteSet(saleReturnItems)
  /\ \A s, t \in saleItems : s.key = t.key /\ s.line = t.line => s = t
  /\ \A t \in saleReturnItems : \E s \in saleItems :
       t.sale = s.key /\ t.line = s.line /\ t.row = s.row
  /\ \A s \in saleItems : Total(ReturnsOfSale(s), s.row) <= s.qty

\* The same of purchases, which have one line.
PurchasesInOrder ==
  /\ IsFiniteSet(purchaseItems) /\ IsFiniteSet(purchaseReturnItems)
  /\ \A p, o \in purchaseItems : p.key = o.key => p = o
  /\ \A t \in purchaseReturnItems : \E p \in purchaseItems :
       t.purchase = p.key /\ t.row = p.row
  /\ \A p \in purchaseItems : Total(ReturnsOfPurchase(p), p.row) <= p.qty

BooksInv ==
  /\ SalesInOrder
  /\ PurchasesInOrder
  /\ IsFiniteSet(adjustments)
  /\ StockAccounted

DocInv == BooksInv /\ HoldsHaveTheirDocuments

(* The sums of StockAccounted are natural numbers.                          *)
LEMMA SumsAreNumbers ==
  ASSUME BooksInv, NEW r
  PROVE  /\ Total(saleItems, r) \in Nat /\ Total(purchaseItems, r) \in Nat
         /\ Total(saleReturnItems, r) \in Nat
         /\ Total(purchaseReturnItems, r) \in Nat
         /\ \A dir : /\ IsFiniteSet(AdjustmentsTo(dir))
                     /\ Total(AdjustmentsTo(dir), r) \in Nat
<1>1. ASSUME NEW dir PROVE IsFiniteSet(AdjustmentsTo(dir))
  <2>1. AdjustmentsTo(dir) \in SUBSET adjustments
    BY DEF AdjustmentsTo
  <2> QED
    BY <2>1, FS_Subset DEF BooksInv, SalesInOrder, PurchasesInOrder
<1>2. \A dir : Total(AdjustmentsTo(dir), r) \in Nat
  BY <1>1, TotalType
<1> QED
  BY <1>1, <1>2, TotalType DEF BooksInv, SalesInOrder, PurchasesInOrder

(* What has come back of one line is finitely much, and nothing of a line   *)
(* that has not been posted.                                                *)
LEMMA ReturnsOfLine ==
  ASSUME BooksInv
  PROVE  /\ \A s : /\ IsFiniteSet(ReturnsOfSale(s))
                   /\ Total(ReturnsOfSale(s), s.row) \in Nat
         /\ \A p : /\ IsFiniteSet(ReturnsOfPurchase(p))
                   /\ Total(ReturnsOfPurchase(p), p.row) \in Nat
<1>1. ASSUME NEW s PROVE IsFiniteSet(ReturnsOfSale(s))
  <2>1. ReturnsOfSale(s) \in SUBSET saleReturnItems
    BY DEF ReturnsOfSale
  <2> QED
    BY <2>1, FS_Subset DEF BooksInv, SalesInOrder, PurchasesInOrder
<1>2. ASSUME NEW p PROVE IsFiniteSet(ReturnsOfPurchase(p))
  <2>1. ReturnsOfPurchase(p) \in SUBSET purchaseReturnItems
    BY DEF ReturnsOfPurchase
  <2> QED
    BY <2>1, FS_Subset DEF BooksInv, SalesInOrder, PurchasesInOrder
<1> QED
  BY <1>1, <1>2, TotalType

(* A sale with a new key brings its own lines, and nothing has come back of *)
(* them yet.                                                                *)
LEMMA SalePosted ==
  ASSUME BooksInv, NEW k, ~ Posted(saleItems, k),
         NEW T, IsFiniteSet(T),
         \A s \in T : s.key = k /\ s.qty \in Qty,
         \A s, t \in T : s.line = t.line => s = t,
         saleItems' = saleItems \cup T, saleReturnItems' = saleReturnItems
  PROVE  /\ SalesInOrder'
         /\ \A r : Total(saleItems', r) = Total(saleItems, r) + Total(T, r)
<1> USE DEF BooksInv
<1>1. saleItems \cap T = {}
  BY DEF Posted, SalesInOrder
<1>2. IsFiniteSet(saleItems')
  BY FS_Union DEF SalesInOrder
<1>3. \A s, t \in saleItems' : s.key = t.key /\ s.line = t.line => s = t
  BY DEF Posted, SalesInOrder
<1>4. \A t \in saleReturnItems' : \E s \in saleItems' :
        t.sale = s.key /\ t.line = s.line /\ t.row = s.row
  BY DEF SalesInOrder
<1>5. \A s : ReturnsOfSale(s)' = ReturnsOfSale(s)
  BY DEF ReturnsOfSale
<1>6. ASSUME NEW s \in T
      PROVE  Total(ReturnsOfSale(s), s.row) <= s.qty
  <2>1. ReturnsOfSale(s) = {}
    BY DEF ReturnsOfSale, Posted, SalesInOrder
  <2>2. s.qty \in Int /\ 0 <= s.qty
    BY MaxQtyAssumption DEF Qty
  <2> QED
    BY <2>1, <2>2, TotalEmpty
<1>7. \A s \in saleItems' : Total(ReturnsOfSale(s)', s.row) <= s.qty
  BY <1>5, <1>6 DEF SalesInOrder
<1>8. \A r : Total(saleItems', r) = Total(saleItems, r) + Total(T, r)
  BY <1>1, TotalUnion DEF SalesInOrder
<1> QED
  BY <1>2, <1>3, <1>4, <1>7, <1>8 DEF SalesInOrder

(* The same of a purchase and its one line. *)
LEMMA PurchasePosted ==
  ASSUME BooksInv, NEW p, ~ Posted(purchaseItems, p.key), p.qty \in Qty,
         purchaseItems' = purchaseItems \cup {p},
         purchaseReturnItems' = purchaseReturnItems
  PROVE  /\ PurchasesInOrder'
         /\ \A r : Total(purchaseItems', r)
                     = Total(purchaseItems, r)
                         + (IF p.row = r THEN p.qty ELSE 0)
<1> USE DEF BooksInv
<1>1. p \notin purchaseItems
  BY DEF Posted, PurchasesInOrder
<1>2. /\ IsFiniteSet(purchaseItems')
      /\ \A r : Total(purchaseItems', r)
                  = Total(purchaseItems, r) + (IF p.row = r THEN p.qty ELSE 0)
  <2>1. IsFiniteSet(purchaseItems)
    BY DEF PurchasesInOrder
  <2> QED
    BY <1>1, <2>1, TotalAdd
<1>3. \A o, t \in purchaseItems' : o.key = t.key => o = t
  BY DEF Posted, PurchasesInOrder
<1>4. \A t \in purchaseReturnItems' : \E o \in purchaseItems' :
        t.purchase = o.key /\ t.row = o.row
  BY DEF PurchasesInOrder
<1>5. \A o : ReturnsOfPurchase(o)' = ReturnsOfPurchase(o)
  BY DEF ReturnsOfPurchase
<1>6. Total(ReturnsOfPurchase(p), p.row) <= p.qty
  <2>1. ReturnsOfPurchase(p) = {}
    BY DEF ReturnsOfPurchase, Posted, PurchasesInOrder
  <2>2. p.qty \in Int /\ 0 <= p.qty
    BY MaxQtyAssumption DEF Qty
  <2> QED
    BY <2>1, <2>2, TotalEmpty
<1>7. \A o \in purchaseItems' : Total(ReturnsOfPurchase(o)', o.row) <= o.qty
  BY <1>5, <1>6 DEF PurchasesInOrder
<1> QED
  BY <1>2, <1>3, <1>4, <1>7 DEF PurchasesInOrder

(* A return with a new key adds its quantity to the returns of its own line *)
(* only, and stays within what the guard of its handler leaves.             *)
LEMMA SaleReturned ==
  ASSUME BooksInv, NEW t, t \notin saleReturnItems, t.qty \in Qty,
         NEW s \in saleItems, s.qty \in Qty,
         t.sale = s.key, t.line = s.line, t.row = s.row,
         t.qty <= s.qty - Total(ReturnsOfSale(s), s.row),
         saleItems' = saleItems, saleReturnItems' = saleReturnItems \cup {t}
  PROVE  /\ SalesInOrder'
         /\ \A r : Total(saleReturnItems', r)
                     = Total(saleReturnItems, r)
                         + (IF t.row = r THEN t.qty ELSE 0)
<1> USE DEF BooksInv
<1>1. /\ IsFiniteSet(saleReturnItems')
      /\ \A r : Total(saleReturnItems', r)
                  = Total(saleReturnItems, r) + (IF t.row = r THEN t.qty ELSE 0)
  <2>1. IsFiniteSet(saleReturnItems)
    BY DEF SalesInOrder
  <2> QED
    BY <2>1, TotalAdd
<1>2. \A u \in saleReturnItems' : \E x \in saleItems' :
        u.sale = x.key /\ u.line = x.line /\ u.row = x.row
  BY DEF SalesInOrder
<1>3. Total(ReturnsOfSale(s)', s.row) <= s.qty
  <2>1. ReturnsOfSale(s)' = ReturnsOfSale(s) \cup {t} /\ t \notin ReturnsOfSale(s)
    BY DEF ReturnsOfSale
  <2>2. IsFiniteSet(ReturnsOfSale(s)) /\ Total(ReturnsOfSale(s), s.row) \in Nat
    BY ReturnsOfLine
  <2>3. Total(ReturnsOfSale(s) \cup {t}, s.row)
          = Total(ReturnsOfSale(s), s.row) + t.qty
    BY <2>1, <2>2, TotalAdd
  <2>4. t.qty \in Int /\ s.qty \in Int
    BY MaxQtyAssumption DEF Qty
  <2> QED
    BY <2>1, <2>2, <2>3, <2>4
<1>4. ASSUME NEW x \in saleItems, x # s
      PROVE  Total(ReturnsOfSale(x)', x.row) <= x.qty
  <2>1. ReturnsOfSale(x)' = ReturnsOfSale(x)
    BY <1>4 DEF ReturnsOfSale, SalesInOrder
  <2> QED
    BY <2>1 DEF SalesInOrder
<1> QED
  BY <1>1, <1>2, <1>3, <1>4 DEF SalesInOrder

(* The same of the returns of a purchase. *)
LEMMA PurchaseReturned ==
  ASSUME BooksInv, NEW t, t \notin purchaseReturnItems, t.qty \in Qty,
         NEW p \in purchaseItems, p.qty \in Qty,
         t.purchase = p.key, t.row = p.row,
         t.qty <= p.qty - Total(ReturnsOfPurchase(p), p.row),
         purchaseItems' = purchaseItems,
         purchaseReturnItems' = purchaseReturnItems \cup {t}
  PROVE  /\ PurchasesInOrder'
         /\ \A r : Total(purchaseReturnItems', r)
                     = Total(purchaseReturnItems, r)
                         + (IF t.row = r THEN t.qty ELSE 0)
<1> USE DEF BooksInv
<1>1. /\ IsFiniteSet(purchaseReturnItems')
      /\ \A r : Total(purchaseReturnItems', r)
                  = Total(purchaseReturnItems, r)
                      + (IF t.row = r THEN t.qty ELSE 0)
  <2>1. IsFiniteSet(purchaseReturnItems)
    BY DEF PurchasesInOrder
  <2> QED
    BY <2>1, TotalAdd
<1>2. \A u \in purchaseReturnItems' : \E x \in purchaseItems' :
        u.purchase = x.key /\ u.row = x.row
  BY DEF PurchasesInOrder
<1>3. Total(ReturnsOfPurchase(p)', p.row) <= p.qty
  <2>1. /\ ReturnsOfPurchase(p)' = ReturnsOfPurchase(p) \cup {t}
        /\ t \notin ReturnsOfPurchase(p)
    BY DEF ReturnsOfPurchase
  <2>2. /\ IsFiniteSet(ReturnsOfPurchase(p))
        /\ Total(ReturnsOfPurchase(p), p.row) \in Nat
    BY ReturnsOfLine
  <2>3. Total(ReturnsOfPurchase(p) \cup {t}, p.row)
          = Total(ReturnsOfPurchase(p), p.row) + t.qty
    BY <2>1, <2>2, TotalAdd
  <2>4. t.qty \in Int /\ p.qty \in Int
    BY MaxQtyAssumption DEF Qty
  <2> QED
    BY <2>1, <2>2, <2>3, <2>4
<1>4. ASSUME NEW x \in purchaseItems, x # p
      PROVE  Total(ReturnsOfPurchase(x)', x.row) <= x.qty
  <2>1. ReturnsOfPurchase(x)' = ReturnsOfPurchase(x)
    BY <1>4 DEF ReturnsOfPurchase, PurchasesInOrder
  <2> QED
    BY <2>1 DEF PurchasesInOrder
<1> QED
  BY <1>1, <1>2, <1>3, <1>4 DEF PurchasesInOrder

(* Documents that a step does not touch stay in order. *)
LEMMA SalesUntouched ==
  ASSUME BooksInv, UNCHANGED <<saleItems, saleReturnItems>>
  PROVE  SalesInOrder'
BY DEF BooksInv, SalesInOrder, ReturnsOfSale

LEMMA PurchasesUntouched ==
  ASSUME BooksInv, UNCHANGED <<purchaseItems, purchaseReturnItems>>
  PROVE  PurchasesInOrder'
BY DEF BooksInv, PurchasesInOrder, ReturnsOfPurchase

LEMMA BooksUntouched ==
  ASSUME BooksInv, UNCHANGED <<onHand, saleItems, purchaseItems, counterVars>>
  PROVE  BooksInv'
<1>1. SalesInOrder' /\ PurchasesInOrder'
  BY SalesUntouched, PurchasesUntouched DEF counterVars
<1>2. StockAccounted'
  BY DEF BooksInv, StockAccounted, AdjustmentsTo, counterVars
<1> QED
  BY <1>1, <1>2 DEF BooksInv, counterVars

(* A sale at the counter takes what its lines say. *)
LEMMA CreateSaleBooks ==
  ASSUME TypeOK, BooksInv, NEW k \in SaleKeys, NEW items \in SaleRequests,
         CreateSale(k, items)
  PROVE  BooksInv'
<1> DEFINE T == ItemsOf(k, items)
<1>1. /\ IsFiniteSet(T)
      /\ \A s \in T : s.key = k /\ s.qty \in Qty
      /\ \A s, t \in T : s.line = t.line => s = t
  <2>1. IsFiniteSet(T) /\ T \subseteq SaleLines({k}, MaxLines)
    BY ItemsOfFinite
  <2>2. \A s, t \in T : s.line = t.line => s = t
    BY DEF ItemsOf
  <2> QED
    BY <2>1, <2>2 DEF SaleLines
<1>2. /\ ~ Posted(saleItems, k) /\ saleItems' = saleItems \cup T
      /\ onHand' = Shipped(T)
      /\ UNCHANGED <<purchaseItems, saleReturnItems, purchaseReturnItems, adjustments>>
  BY DEF CreateSale, UpdateBalances, counterVars
<1> HIDE DEF T
<1>3. /\ SalesInOrder'
      /\ \A r : Total(saleItems', r) = Total(saleItems, r) + Total(T, r)
  BY <1>1, <1>2, SalePosted
<1>4. PurchasesInOrder'
  BY <1>2, PurchasesUntouched
<1>5. ASSUME NEW r \in Rows
      PROVE  onHand'[r] = onHand[r] - Total(T, r)
  BY <1>2 DEF Shipped
<1>6. \A r \in Rows : onHand[r] \in Nat /\ Opening[r] \in Nat
  BY StockAssumption DEF TypeOK
<1>7. StockAccounted'
  <2> SUFFICES ASSUME NEW r \in Rows
               PROVE  onHand'[r] + Total(saleItems', r)
                        + Total(purchaseReturnItems, r)
                        + Total(AdjustmentsTo("out"), r)
                      = Opening[r] + Total(purchaseItems, r)
                          + Total(saleReturnItems, r)
                          + Total(AdjustmentsTo("in"), r)
    BY <1>2 DEF StockAccounted, AdjustmentsTo
  <2>1. Total(T, r) \in Nat
    BY <1>1, TotalType
  <2> QED
    BY <1>3, <1>5, <1>6, <2>1, SumsAreNumbers DEF BooksInv, StockAccounted
<1> QED
  BY <1>2, <1>3, <1>4, <1>7 DEF BooksInv

(* The other documents of the counter move the quantity of their one line.  *)
LEMMA CreatePurchaseBooks ==
  ASSUME TypeOK, BooksInv, NEW k \in PurchaseKeys, NEW r \in Rows, NEW q \in Qty,
         CreatePurchase(k, r, q)
  PROVE  BooksInv'
<1> DEFINE p == [key |-> k, row |-> r, qty |-> q]
<1>1. /\ ~ Posted(purchaseItems, p.key) /\ p.qty \in Qty
      /\ purchaseItems' = purchaseItems \cup {p}
      /\ onHand' = [onHand EXCEPT ![r] = @ + q]
      /\ UNCHANGED <<saleItems, saleReturnItems, purchaseReturnItems, adjustments>>
  BY DEF CreatePurchase, UpdateBalances, counterVars
<1>2. p.row = r /\ p.qty = q
  OBVIOUS
<1> HIDE DEF p
<1>3. /\ PurchasesInOrder'
      /\ \A x : Total(purchaseItems', x)
                  = Total(purchaseItems, x) + (IF r = x THEN q ELSE 0)
  BY <1>1, <1>2, PurchasePosted
<1>4. SalesInOrder'
  BY <1>1, SalesUntouched
<1>5. /\ q \in Nat
      /\ \A x \in Rows : /\ onHand[x] \in Nat /\ Opening[x] \in Nat
                         /\ onHand'[x] = onHand[x] + (IF r = x THEN q ELSE 0)
  <2>1. q \in Nat
    BY MaxQtyAssumption DEF Qty
  <2>2. onHand \in [Rows -> Nat] /\ Opening \in [Rows -> Nat]
    BY StockAssumption DEF TypeOK
  <2> QED
    BY <1>1, <2>1, <2>2
<1>6. StockAccounted'
  <2> SUFFICES ASSUME NEW x \in Rows
               PROVE  onHand'[x] + Total(saleItems, x)
                        + Total(purchaseReturnItems, x)
                        + Total(AdjustmentsTo("out"), x)
                      = Opening[x] + Total(purchaseItems', x)
                          + Total(saleReturnItems, x)
                          + Total(AdjustmentsTo("in"), x)
    BY <1>1 DEF StockAccounted, AdjustmentsTo
  <2> QED
    BY <1>3, <1>5, SumsAreNumbers DEF BooksInv, StockAccounted
<1> QED
  BY <1>1, <1>3, <1>4, <1>6 DEF BooksInv

LEMMA CreateSaleReturnBooks ==
  ASSUME TypeOK, BooksInv, NEW k \in SaleReturnKeys, NEW s \in saleItems,
         NEW q \in Qty, CreateSaleReturn(k, s, q)
  PROVE  BooksInv'
<1> DEFINE t == [key |-> k, sale |-> s.key, line |-> s.line, row |-> s.row,
                 qty |-> q]
<1>1. /\ t \notin saleReturnItems
      /\ q <= s.qty - Total(ReturnsOfSale(s), s.row)
      /\ saleReturnItems' = saleReturnItems \cup {t}
      /\ onHand' = [onHand EXCEPT ![s.row] = @ + q]
      /\ UNCHANGED <<saleItems, purchaseItems, purchaseReturnItems, adjustments>>
  BY DEF CreateSaleReturn, UpdateBalances, Posted
<1>2. t.sale = s.key /\ t.line = s.line /\ t.row = s.row /\ t.qty = q
  OBVIOUS
<1>3. s.row \in Rows /\ s.qty \in Qty
  BY DEF TypeOK, SaleLines
<1> HIDE DEF t
<1>4. /\ SalesInOrder'
      /\ \A x : Total(saleReturnItems', x)
                  = Total(saleReturnItems, x) + (IF s.row = x THEN q ELSE 0)
  BY <1>1, <1>2, <1>3, SaleReturned
<1>5. PurchasesInOrder'
  BY <1>1, PurchasesUntouched
<1>6. /\ q \in Nat
      /\ \A x \in Rows : /\ onHand[x] \in Nat /\ Opening[x] \in Nat
                         /\ onHand'[x] = onHand[x] + (IF s.row = x THEN q ELSE 0)
  <2>1. q \in Nat
    BY MaxQtyAssumption DEF Qty
  <2>2. onHand \in [Rows -> Nat] /\ Opening \in [Rows -> Nat]
    BY StockAssumption DEF TypeOK
  <2> QED
    BY <1>1, <1>3, <2>1, <2>2
<1>7. StockAccounted'
  <2> SUFFICES ASSUME NEW x \in Rows
               PROVE  onHand'[x] + Total(saleItems, x)
                        + Total(purchaseReturnItems, x)
                        + Total(AdjustmentsTo("out"), x)
                      = Opening[x] + Total(purchaseItems, x)
                          + Total(saleReturnItems', x)
                          + Total(AdjustmentsTo("in"), x)
    BY <1>1 DEF StockAccounted, AdjustmentsTo
  <2> QED
    BY <1>4, <1>6, SumsAreNumbers DEF BooksInv, StockAccounted
<1> QED
  BY <1>1, <1>4, <1>5, <1>7 DEF BooksInv

LEMMA CreatePurchaseReturnBooks ==
  ASSUME TypeOK, BooksInv, NEW k \in PurchaseReturnKeys, NEW p \in purchaseItems,
         NEW q \in Qty, CreatePurchaseReturn(k, p, q)
  PROVE  BooksInv'
<1> DEFINE t == [key |-> k, purchase |-> p.key, row |-> p.row, qty |-> q]
<1>1. /\ t \notin purchaseReturnItems
      /\ q <= p.qty - Total(ReturnsOfPurchase(p), p.row)
      /\ purchaseReturnItems' = purchaseReturnItems \cup {t}
      /\ onHand' = [onHand EXCEPT ![p.row] = @ - q]
      /\ UNCHANGED <<saleItems, purchaseItems, saleReturnItems, adjustments>>
  BY DEF CreatePurchaseReturn, UpdateBalances, Posted
<1>2. t.purchase = p.key /\ t.row = p.row /\ t.qty = q
  OBVIOUS
<1>3. p.row \in Rows /\ p.qty \in Qty
  BY DEF TypeOK, PurchaseLines
<1> HIDE DEF t
<1>4. /\ PurchasesInOrder'
      /\ \A x : Total(purchaseReturnItems', x)
                  = Total(purchaseReturnItems, x) + (IF p.row = x THEN q ELSE 0)
  BY <1>1, <1>2, <1>3, PurchaseReturned
<1>5. SalesInOrder'
  BY <1>1, SalesUntouched
<1>6. /\ q \in Nat
      /\ \A x \in Rows : /\ onHand[x] \in Nat /\ Opening[x] \in Nat
                         /\ onHand'[x] = onHand[x] - (IF p.row = x THEN q ELSE 0)
  <2>1. q \in Nat
    BY MaxQtyAssumption DEF Qty
  <2>2. onHand \in [Rows -> Nat] /\ Opening \in [Rows -> Nat]
    BY StockAssumption DEF TypeOK
  <2> QED
    BY <1>1, <1>3, <2>1, <2>2
<1>7. StockAccounted'
  <2> SUFFICES ASSUME NEW x \in Rows
               PROVE  onHand'[x] + Total(saleItems, x)
                        + Total(purchaseReturnItems', x)
                        + Total(AdjustmentsTo("out"), x)
                      = Opening[x] + Total(purchaseItems, x)
                          + Total(saleReturnItems, x)
                          + Total(AdjustmentsTo("in"), x)
    BY <1>1 DEF StockAccounted, AdjustmentsTo
  <2> QED
    BY <1>4, <1>6, SumsAreNumbers DEF BooksInv, StockAccounted
<1> QED
  BY <1>1, <1>4, <1>5, <1>7 DEF BooksInv

LEMMA AdjustBooks ==
  ASSUME TypeOK, BooksInv, NEW k \in AdjustmentKeys, NEW r \in Rows, NEW q \in Qty,
         NEW dir \in {"in", "out"}, Adjust(k, r, q, dir)
  PROVE  BooksInv'
<1> DEFINE t == [key |-> k, row |-> r, qty |-> q, dir |-> dir]
<1>1. /\ t \notin adjustments
      /\ adjustments' = adjustments \cup {t}
      /\ onHand' = [onHand EXCEPT ![r] = IF dir = "in" THEN onHand[r] + q
                                                       ELSE onHand[r] - q]
      /\ UNCHANGED <<saleItems, purchaseItems, saleReturnItems,
                     purchaseReturnItems>>
  BY DEF Adjust, UpdateBalances, Posted
<1>2. t.row = r /\ t.qty = q /\ t.dir = dir
  OBVIOUS
<1> HIDE DEF t
<1>3. SalesInOrder' /\ PurchasesInOrder'
  BY <1>1, SalesUntouched, PurchasesUntouched
<1>4. IsFiniteSet(adjustments')
  BY <1>1, FS_AddElement DEF BooksInv
<1>5. /\ q \in Nat
      /\ \A x \in Rows : onHand[x] \in Nat /\ Opening[x] \in Nat
  BY StockAssumption, MaxQtyAssumption DEF TypeOK, Qty
<1>6. /\ AdjustmentsTo(dir)' = AdjustmentsTo(dir) \cup {t}
      /\ t \notin AdjustmentsTo(dir)
      /\ \A d : d # dir => AdjustmentsTo(d)' = AdjustmentsTo(d)
  BY <1>1, <1>2 DEF AdjustmentsTo
<1>7. ASSUME NEW x \in Rows
      PROVE  Total(AdjustmentsTo(dir)', x)
               = Total(AdjustmentsTo(dir), x) + (IF r = x THEN q ELSE 0)
  BY <1>2, <1>6, TotalAdd, SumsAreNumbers
<1>8. ASSUME NEW x \in Rows
      PROVE  onHand'[x] = IF r # x THEN onHand[x]
                          ELSE IF dir = "in" THEN onHand[x] + q ELSE onHand[x] - q
  BY <1>1 DEF TypeOK
<1>9. StockAccounted'
  <2> SUFFICES ASSUME NEW x \in Rows
               PROVE  onHand'[x] + Total(saleItems, x)
                        + Total(purchaseReturnItems, x)
                        + Total(AdjustmentsTo("out")', x)
                      = Opening[x] + Total(purchaseItems, x)
                          + Total(saleReturnItems, x)
                          + Total(AdjustmentsTo("in")', x)
    BY <1>1 DEF StockAccounted
  <2>1. onHand[x] + Total(saleItems, x) + Total(purchaseReturnItems, x)
          + Total(AdjustmentsTo("out"), x)
        = Opening[x] + Total(purchaseItems, x) + Total(saleReturnItems, x)
            + Total(AdjustmentsTo("in"), x)
    BY DEF BooksInv, StockAccounted
  <2>2. /\ Total(saleItems, x) \in Nat /\ Total(purchaseReturnItems, x) \in Nat
        /\ Total(purchaseItems, x) \in Nat /\ Total(saleReturnItems, x) \in Nat
        /\ Total(AdjustmentsTo("in"), x) \in Nat
        /\ Total(AdjustmentsTo("out"), x) \in Nat
    BY SumsAreNumbers
  <2>3. CASE dir = "in"
    <3>1. Total(AdjustmentsTo("in")', x)
            = Total(AdjustmentsTo("in"), x) + (IF r = x THEN q ELSE 0)
      BY <1>7, <2>3
    <3>2. AdjustmentsTo("out")' = AdjustmentsTo("out")
      BY <1>6, <2>3
    <3>3. onHand'[x] = onHand[x] + (IF r = x THEN q ELSE 0)
      BY <1>5, <1>8, <2>3
    <3> QED
      BY <1>5, <2>1, <2>2, <3>1, <3>2, <3>3
  <2>4. CASE dir = "out"
    <3>1. Total(AdjustmentsTo("out")', x)
            = Total(AdjustmentsTo("out"), x) + (IF r = x THEN q ELSE 0)
      BY <1>7, <2>4
    <3>2. AdjustmentsTo("in")' = AdjustmentsTo("in")
      BY <1>6, <2>4
    <3>3. onHand'[x] = onHand[x] - (IF r = x THEN q ELSE 0)
      BY <1>5, <1>8, <2>4
    <3> QED
      BY <1>5, <2>1, <2>2, <3>1, <3>2, <3>3
  <2> QED
    BY <2>3, <2>4
<1> QED
  BY <1>3, <1>4, <1>9 DEF BooksInv

(* Fulfilment takes what the reservation held, with a sale of one line.     *)
LEMMA FulfillBooks ==
  ASSUME HoldInv, BooksInv, NEW h \in ReservationIds, FulfillReservation(h),
         UNCHANGED counterVars
  PROVE  BooksInv'
<1> DEFINE r == reservation[h].row
           q == reservation[h].qty
           s == [key |-> h, line |-> 1, row |-> r, qty |-> q]
<1>1. r \in Rows /\ q \in Qty /\ q \in Nat
  BY MaxQtyAssumption DEF HoldInv, FulfillReservation, OrdersPlaced, Qty
<1>2. /\ ~ Posted(saleItems, h) /\ saleItems' = saleItems \cup {s}
      /\ onHand' = [onHand EXCEPT ![r] = @ - q]
      /\ UNCHANGED <<purchaseItems, saleReturnItems, purchaseReturnItems, adjustments>>
  BY DEF FulfillReservation, UpdateBalances, counterVars
<1>3. s.key = h /\ s.row = r /\ s.qty = q
  OBVIOUS
<1> HIDE DEF r, q, s
<1>4. /\ SalesInOrder'
      /\ \A x : Total(saleItems', x) = Total(saleItems, x) + Total({s}, x)
  <2>1. IsFiniteSet({s}) /\ \A t \in {s} : t.key = h /\ t.qty \in Qty
    BY <1>1, <1>3, FS_Singleton
  <2>2. \A t, u \in {s} : t.line = u.line => t = u
    OBVIOUS
  <2> QED
    BY <1>2, <2>1, <2>2, SalePosted
<1>5. \A x : Total({s}, x) = IF r = x THEN q ELSE 0
  BY <1>1, <1>3, TotalOne
<1>6. PurchasesInOrder'
  BY <1>2, PurchasesUntouched
<1>7. /\ onHand \in [Rows -> Nat] /\ Opening \in [Rows -> Nat]
      /\ \A x \in Rows : onHand'[x] = onHand[x] - (IF r = x THEN q ELSE 0)
  <2>1. onHand \in [Rows -> Nat] /\ Opening \in [Rows -> Nat]
    BY StockAssumption DEF HoldInv, TypeOK
  <2> QED
    BY <1>1, <1>2, <2>1
<1>8. StockAccounted'
  <2> SUFFICES ASSUME NEW x \in Rows
               PROVE  onHand'[x] + Total(saleItems', x)
                        + Total(purchaseReturnItems, x)
                        + Total(AdjustmentsTo("out"), x)
                      = Opening[x] + Total(purchaseItems, x)
                          + Total(saleReturnItems, x)
                          + Total(AdjustmentsTo("in"), x)
    BY <1>2 DEF StockAccounted, AdjustmentsTo
  <2>1. Total(saleItems', x) = Total(saleItems, x) + (IF r = x THEN q ELSE 0)
    BY <1>4, <1>5
  <2> QED
    BY <1>1, <1>7, <2>1, SumsAreNumbers DEF BooksInv, StockAccounted
<1> QED
  BY <1>2, <1>4, <1>6, <1>8 DEF BooksInv

(* Receipt posts a sale and a purchase of the same quantity.                *)
LEMMA ReceiveBooks ==
  ASSUME HoldInv, BooksInv, NEW p \in ProcurementIds, Receive(p),
         UNCHANGED counterVars
  PROVE  BooksInv'
<1> DEFINE from == procurement[p].row
           to == procurement[p].to
           q == procurement[p].qty
           s == [key |-> p, line |-> 1, row |-> from, qty |-> q]
           b == [key |-> p, row |-> to, qty |-> q]
<1>1. /\ from \in Rows /\ to \in Rows /\ from # to
      /\ q \in Qty /\ q \in Nat
  BY MaxQtyAssumption DEF HoldInv, Receive, OrdersPlaced, Qty
<1>2. /\ ~ Posted(saleItems, p) /\ saleItems' = saleItems \cup {s}
      /\ ~ Posted(purchaseItems, p) /\ purchaseItems' = purchaseItems \cup {b}
      /\ onHand' = [onHand EXCEPT ![from] = @ - q, ![to] = @ + q]
      /\ UNCHANGED <<saleReturnItems, purchaseReturnItems, adjustments>>
  BY DEF Receive, UpdateBalances, counterVars
<1>3. /\ s.key = p /\ s.row = from /\ s.qty = q
      /\ b.key = p /\ b.row = to /\ b.qty = q
  OBVIOUS
<1> HIDE DEF from, to, q, s, b
<1>4. /\ SalesInOrder'
      /\ \A x : Total(saleItems', x) = Total(saleItems, x) + Total({s}, x)
  <2>1. IsFiniteSet({s}) /\ \A t \in {s} : t.key = p /\ t.qty \in Qty
    BY <1>1, <1>3, FS_Singleton
  <2>2. \A t, u \in {s} : t.line = u.line => t = u
    OBVIOUS
  <2> QED
    BY <1>2, <2>1, <2>2, SalePosted
<1>5. \A x : Total({s}, x) = IF from = x THEN q ELSE 0
  BY <1>1, <1>3, TotalOne
<1>6. /\ PurchasesInOrder'
      /\ \A x : Total(purchaseItems', x)
                  = Total(purchaseItems, x) + (IF to = x THEN q ELSE 0)
  BY <1>1, <1>2, <1>3, PurchasePosted
<1>7. /\ onHand \in [Rows -> Nat] /\ Opening \in [Rows -> Nat]
      /\ \A x \in Rows :
           onHand'[x] = onHand[x] - (IF from = x THEN q ELSE 0)
                                  + (IF to = x THEN q ELSE 0)
  <2>1. onHand \in [Rows -> Nat] /\ Opening \in [Rows -> Nat]
    BY StockAssumption DEF HoldInv, TypeOK
  <2> QED
    BY <1>1, <1>2, <2>1
<1>8. StockAccounted'
  <2> SUFFICES ASSUME NEW x \in Rows
               PROVE  onHand'[x] + Total(saleItems', x)
                        + Total(purchaseReturnItems, x)
                        + Total(AdjustmentsTo("out"), x)
                      = Opening[x] + Total(purchaseItems', x)
                          + Total(saleReturnItems, x)
                          + Total(AdjustmentsTo("in"), x)
    BY <1>2 DEF StockAccounted, AdjustmentsTo
  <2>1. Total(saleItems', x) = Total(saleItems, x) + (IF from = x THEN q ELSE 0)
    BY <1>4, <1>5
  <2> QED
    BY <1>1, <1>6, <1>7, <2>1, SumsAreNumbers DEF BooksInv, StockAccounted
<1> QED
  BY <1>2, <1>4, <1>6, <1>8 DEF BooksInv

(* Every step keeps the books. *)
LEMMA BooksStep ==
  ASSUME HoldInv, BooksInv, [Next]_vars
  PROVE  BooksInv'
<1> USE DEF HoldInv
<1>1. CASE UNCHANGED vars \/ (TickClock /\ UNCHANGED counterVars)
  BY <1>1, BooksUntouched DEF vars, stockVars, TickClock
<1>2. CASE CounterNext
  BY <1>2, CreateSaleBooks, CreatePurchaseBooks, CreateSaleReturnBooks,
     CreatePurchaseReturnBooks, AdjustBooks DEF CounterNext
<1>3. CASE ReservationNext /\ UNCHANGED counterVars
  <2>1. \/ UNCHANGED <<onHand, saleItems, purchaseItems>>
        \/ \E h \in ReservationIds : FulfillReservation(h)
    BY <1>3, ReservationShapes DEF UpdateBalances, stockVars
  <2> QED
    BY <1>3, <2>1, BooksUntouched, FulfillBooks
<1>4. CASE ProcurementNext /\ UNCHANGED counterVars
  <2>1. \/ UNCHANGED <<onHand, saleItems, purchaseItems>>
        \/ \E p \in ProcurementIds : Receive(p)
    BY <1>4, ProcurementShapes DEF UpdateBalances, stockVars
  <2> QED
    BY <1>4, <2>1, BooksUntouched, ReceiveBooks
<1> QED
  BY <1>1, <1>2, <1>3, <1>4 DEF Next

-----------------------------------------------------------------------------
(* Orders and their documents *)

\* The two halves of HoldsHaveTheirDocuments.
ReservationDocuments ==
  \A h \in ReservationIds :
    {s \in saleItems : s.key = h} =
      IF reservation[h].status = "fulfilled"
      THEN {[key |-> h, line |-> 1, row |-> reservation[h].row,
             qty |-> reservation[h].qty]}
      ELSE {}

ProcurementDocuments ==
  \A p \in ProcurementIds :
    /\ {s \in saleItems : s.key = p} =
         IF procurement[p].status = "received"
         THEN {[key |-> p, line |-> 1, row |-> procurement[p].row,
                qty |-> procurement[p].qty]}
         ELSE {}
    /\ {s \in purchaseItems : s.key = p} =
         IF procurement[p].status = "received"
         THEN {[key |-> p, row |-> procurement[p].to,
                qty |-> procurement[p].qty]}
         ELSE {}

(* New documents whose keys are not those of orders change nothing for      *)
(* orders that stay as they are.                                            *)
LEMMA OtherSales ==
  ASSUME ReservationDocuments, UNCHANGED reservation,
         NEW T, saleItems' = saleItems \cup T,
         \A t \in T : t.key \notin ReservationIds
  PROVE  ReservationDocuments'
<1>1. \A h \in ReservationIds :
        {s \in saleItems' : s.key = h} = {s \in saleItems : s.key = h}
  OBVIOUS
<1> QED
  BY <1>1 DEF ReservationDocuments

LEMMA OtherSalesAndPurchases ==
  ASSUME ProcurementDocuments, UNCHANGED procurement,
         NEW T, saleItems' = saleItems \cup T,
         NEW U, purchaseItems' = purchaseItems \cup U,
         \A t \in T \cup U : t.key \notin ProcurementIds
  PROVE  ProcurementDocuments'
<1>1. \A p \in ProcurementIds :
        /\ {s \in saleItems' : s.key = p} = {s \in saleItems : s.key = p}
        /\ {s \in purchaseItems' : s.key = p} = {s \in purchaseItems : s.key = p}
  OBVIOUS
<1> QED
  BY <1>1 DEF ProcurementDocuments

(* The orders that end without a document, are placed or move on had none   *)
(* and have none.                                                           *)
LEMMA ReservationDocumentsStep ==
  ASSUME TypeOK, ReservationDocuments, ReservationNext
  PROVE  ReservationDocuments'
<1>1. CASE /\ UNCHANGED saleItems
           /\ \A h \in ReservationIds :
                /\ reservation'[h].status = "fulfilled"
                     <=> reservation[h].status = "fulfilled"
                /\ reservation[h].status = "fulfilled"
                     => reservation'[h] = reservation[h]
  BY <1>1 DEF ReservationDocuments
<1>2. ASSUME NEW S \in SUBSET ActiveReservations, EndReservations(S),
             UNCHANGED saleItems
      PROVE  ReservationDocuments'
  <2>1. \A h \in S : /\ reservation[h].status # "fulfilled"
                     /\ reservation'[h].status # "fulfilled"
    BY <1>2 DEF EndReservations, ActiveReservations, Holding
  <2> QED
    BY <1>1, <1>2, <2>1 DEF EndReservations
<1>3. ASSUME NEW n \in ReservationIds, NEW r, NEW q,
             NEW S \in SUBSET ActiveReservations, PlaceReservation(n, r, q, S),
             UNCHANGED saleItems
      PROVE  ReservationDocuments'
  <2>1. \A h \in S \cup {n} : /\ reservation[h].status # "fulfilled"
                              /\ reservation'[h].status # "fulfilled"
    BY <1>3 DEF PlaceReservation, ActiveReservations, Holding
  <2> QED
    BY <1>1, <1>3, <2>1 DEF PlaceReservation
<1>4. ASSUME NEW h \in ReservationIds, MoveReservation(h, Holding, Holding),
             UNCHANGED saleItems
      PROVE  ReservationDocuments'
  <2>1. reservation[h].status # "fulfilled" /\ reservation'[h].status # "fulfilled"
    BY <1>4 DEF MoveReservation, Holding
  <2> QED
    BY <1>1, <1>4, <2>1 DEF MoveReservation
<1>5. ASSUME NEW h \in ReservationIds, FulfillReservation(h),
             MoveReservation(h, {"ready"}, {"fulfilled"})
      PROVE  ReservationDocuments'
  <2> DEFINE s == [key |-> h, line |-> 1, row |-> reservation[h].row,
                   qty |-> reservation[h].qty]
  <2>1. saleItems' = saleItems \cup {s} /\ {t \in saleItems : t.key = h} = {}
    BY <1>5 DEF FulfillReservation, Posted
  <2>2. {t \in saleItems' : t.key = h} = {s}
    BY <2>1
  <2>3. \A g \in ReservationIds \ {h} :
          {t \in saleItems' : t.key = g} = {t \in saleItems : t.key = g}
    BY <2>1
  <2>4. /\ \A g \in ReservationIds \ {h} : reservation'[g] = reservation[g]
        /\ reservation'[h].status = "fulfilled"
        /\ reservation'[h].row = reservation[h].row
        /\ reservation'[h].qty = reservation[h].qty
    BY <1>5 DEF MoveReservation
  <2> QED
    BY <2>2, <2>3, <2>4 DEF ReservationDocuments
<1> QED
  BY <1>2, <1>3, <1>4, <1>5, ReservationShapes DEF stockVars

(* The same of procurements. *)
LEMMA ProcurementDocumentsStep ==
  ASSUME TypeOK, ProcurementDocuments, ProcurementNext
  PROVE  ProcurementDocuments'
<1>1. CASE /\ UNCHANGED <<saleItems, purchaseItems>>
           /\ \A p \in ProcurementIds :
                /\ procurement'[p].status = "received"
                     <=> procurement[p].status = "received"
                /\ procurement[p].status = "received"
                     => procurement'[p] = procurement[p]
  BY <1>1 DEF ProcurementDocuments
<1>2. ASSUME NEW S \in SUBSET ActiveProcurements, EndProcurements(S),
             UNCHANGED <<saleItems, purchaseItems>>
      PROVE  ProcurementDocuments'
  <2>1. \A p \in S : /\ procurement[p].status # "received"
                     /\ procurement'[p].status # "received"
    BY <1>2 DEF EndProcurements, ActiveProcurements, isActive
  <2> QED
    BY <1>1, <1>2, <2>1 DEF EndProcurements
<1>3. ASSUME NEW n \in ProcurementIds, NEW r, NEW to, NEW q,
             NEW S \in SUBSET ActiveProcurements,
             PlaceProcurement(n, r, to, q, S),
             UNCHANGED <<saleItems, purchaseItems>>
      PROVE  ProcurementDocuments'
  <2>1. \A p \in S \cup {n} : /\ procurement[p].status # "received"
                              /\ procurement'[p].status # "received"
    BY <1>3 DEF PlaceProcurement, ActiveProcurements, isActive
  <2> QED
    BY <1>1, <1>3, <2>1 DEF PlaceProcurement
<1>4. ASSUME NEW p \in ProcurementIds,
             MoveProcurement(p, ActiveStatuses, ActiveStatuses),
             UNCHANGED <<saleItems, purchaseItems>>
      PROVE  ProcurementDocuments'
  <2>1. procurement[p].status # "received" /\ procurement'[p].status # "received"
    BY <1>4 DEF MoveProcurement, ActiveStatuses
  <2> QED
    BY <1>1, <1>4, <2>1 DEF MoveProcurement
<1>5. ASSUME NEW p \in ProcurementIds, Receive(p),
             MoveProcurement(p, {"ready"}, {"received"})
      PROVE  ProcurementDocuments'
  <2> DEFINE s == [key |-> p, line |-> 1, row |-> procurement[p].row,
                   qty |-> procurement[p].qty]
             b == [key |-> p, row |-> procurement[p].to,
                   qty |-> procurement[p].qty]
  <2>1. /\ saleItems' = saleItems \cup {s} /\ {t \in saleItems : t.key = p} = {}
        /\ purchaseItems' = purchaseItems \cup {b}
        /\ {t \in purchaseItems : t.key = p} = {}
    BY <1>5 DEF Receive, Posted
  <2>2. /\ {t \in saleItems' : t.key = p} = {s}
        /\ {t \in purchaseItems' : t.key = p} = {b}
    BY <2>1
  <2>3. \A o \in ProcurementIds \ {p} :
          /\ {t \in saleItems' : t.key = o} = {t \in saleItems : t.key = o}
          /\ {t \in purchaseItems' : t.key = o} = {t \in purchaseItems : t.key = o}
    BY <2>1
  <2>4. /\ \A o \in ProcurementIds \ {p} : procurement'[o] = procurement[o]
        /\ procurement'[p].status = "received"
        /\ procurement'[p].row = procurement[p].row
        /\ procurement'[p].to = procurement[p].to
        /\ procurement'[p].qty = procurement[p].qty
    BY <1>5 DEF MoveProcurement
  <2> QED
    BY <2>2, <2>3, <2>4 DEF ProcurementDocuments
<1> QED
  BY <1>2, <1>3, <1>4, <1>5, ProcurementShapes DEF stockVars

(* Every step keeps the documents of all orders: the keys of the counter's  *)
(* documents and of the two kinds of orders are told apart.                 *)
LEMMA OrderDocumentsStep ==
  ASSUME HoldInv, ReservationDocuments, ProcurementDocuments, [Next]_vars
  PROVE  ReservationDocuments' /\ ProcurementDocuments'
<1> USE DEF HoldInv
<1>1. ASSUME UNCHANGED <<saleItems, purchaseItems, reservation>>
      PROVE  ReservationDocuments'
  BY <1>1 DEF ReservationDocuments
<1>2. ASSUME UNCHANGED <<saleItems, purchaseItems, procurement>>
      PROVE  ProcurementDocuments'
  BY <1>2 DEF ProcurementDocuments
<1>3. CASE UNCHANGED vars \/ (TickClock /\ UNCHANGED <<reservation, procurement>>)
  BY <1>1, <1>2, <1>3 DEF vars, stockVars, TickClock
<1>4. CASE CounterNext /\ UNCHANGED <<reservation, procurement>>
  <2>1. ASSUME NEW k \in SaleKeys, NEW items \in SaleRequests, CreateSale(k, items)
        PROVE  ReservationDocuments' /\ ProcurementDocuments'
    <3>1. /\ saleItems' = saleItems \cup ItemsOf(k, items)
          /\ purchaseItems' = purchaseItems \cup {}
      BY <2>1 DEF CreateSale
    <3>2. \A t \in ItemsOf(k, items) :
            t.key \notin ReservationIds /\ t.key \notin ProcurementIds
      BY KeyAssumption DEF ItemsOf
    <3>3. ReservationDocuments'
      BY <1>4, <3>1, <3>2, OtherSales
    <3>4. ProcurementDocuments'
      BY <1>4, <3>1, <3>2, OtherSalesAndPurchases
    <3> QED
      BY <3>3, <3>4
  <2>2. ASSUME NEW k \in PurchaseKeys, NEW r \in Rows, NEW q \in Qty,
               CreatePurchase(k, r, q)
        PROVE  ReservationDocuments' /\ ProcurementDocuments'
    <3> DEFINE p == [key |-> k, row |-> r, qty |-> q]
    <3>1. saleItems' = saleItems \cup {} /\ purchaseItems' = purchaseItems \cup {p}
      BY <2>2 DEF CreatePurchase
    <3>2. \A t \in {} \cup {p} : t.key \notin ProcurementIds
      BY KeyAssumption
    <3> HIDE DEF p
    <3>3. ReservationDocuments'
      BY <1>1, <1>4, <2>2 DEF CreatePurchase, ReservationDocuments
    <3>4. ProcurementDocuments'
      BY <1>4, <3>1, <3>2, OtherSalesAndPurchases
    <3> QED
      BY <3>3, <3>4
  <2>3. CASE UNCHANGED <<saleItems, purchaseItems>>
    BY <1>1, <1>2, <1>4, <2>3
  <2> QED
    BY <1>4, <2>1, <2>2, <2>3
       DEF CounterNext, CreateSaleReturn, CreatePurchaseReturn, Adjust
<1>5. CASE ReservationNext /\ UNCHANGED procurement
  <2>1. ReservationDocuments'
    BY <1>5, ReservationDocumentsStep
  <2>2. CASE UNCHANGED <<saleItems, purchaseItems>>
    BY <1>2, <1>5, <2>1, <2>2
  <2>3. ASSUME NEW h \in ReservationIds, FulfillReservation(h)
        PROVE  ProcurementDocuments'
    <3> DEFINE s == [key |-> h, line |-> 1, row |-> reservation[h].row,
                     qty |-> reservation[h].qty]
    <3>1. saleItems' = saleItems \cup {s} /\ purchaseItems' = purchaseItems \cup {}
      BY <2>3 DEF FulfillReservation
    <3>2. \A t \in {s} \cup {} : t.key \notin ProcurementIds
      BY KeyAssumption
    <3> HIDE DEF s
    <3> QED
      BY <1>5, <3>1, <3>2, OtherSalesAndPurchases
  <2> QED
    BY <1>5, <2>1, <2>2, <2>3, ReservationShapes DEF stockVars
<1>6. CASE ProcurementNext /\ UNCHANGED reservation
  <2>1. ProcurementDocuments'
    BY <1>6, ProcurementDocumentsStep
  <2>2. CASE UNCHANGED <<saleItems, purchaseItems>>
    BY <1>1, <1>6, <2>1, <2>2
  <2>3. ASSUME NEW p \in ProcurementIds, Receive(p)
        PROVE  ReservationDocuments'
    <3> DEFINE s == [key |-> p, line |-> 1, row |-> procurement[p].row,
                     qty |-> procurement[p].qty]
               T == {s}
    <3>1. saleItems' = saleItems \cup T
      BY <2>3 DEF Receive
    <3>2. \A t \in T : t.key \notin ReservationIds
      BY KeyAssumption
    <3> HIDE DEF T
    <3> QED
      BY <1>6, <3>1, <3>2, OtherSales
  <2> QED
    BY <1>6, <2>1, <2>2, <2>3, ProcurementShapes DEF stockVars
<1> QED
  BY <1>3, <1>4, <1>5, <1>6 DEF Next

-----------------------------------------------------------------------------
(* Overdue holds *)

(* No action does anything to an overdue hold but expire it: either its     *)
(* guard excludes one, or it expires whatever is due.                       *)
LEMMA OverdueReservation ==
  ASSUME TypeOK, ReservationNext, NEW h \in ReservationIds, Overdue(h)
  PROVE  reservation'[h].status \in {reservation[h].status, "expired"}
<1> USE DEF TypeOK, ReservationRow
<1>1. reservation[h].status \in Holding /\ reservation[h].expires < now
  BY DEF Overdue, ActiveReservations
<1>2. now \in Int /\ \A g \in ReservationIds : reservation[g].expires \in Int
  BY StockAssumption DEF Times
<1>3. \A S : Expired(S)[h].status \in {reservation[h].status, "expired"}
  BY DEF Expired
<1>4. ASSUME NEW S, SweepReservations(S)
      PROVE  reservation'[h].status \in {reservation[h].status, "expired"}
  BY <1>3, <1>4 DEF SweepReservations
<1>5. ASSUME NEW n \in ReservationIds, NEW r, NEW q, NEW S,
             CreateReservation(n, r, q, S)
      PROVE  reservation'[h].status \in {reservation[h].status, "expired"}
  <2>1. n # h
    BY <1>1, <1>5 DEF CreateReservation, Holding
  <2>2. reservation'[h] = Expired(S)[h]
    BY <1>5, <2>1 DEF CreateReservation, Expired
  <2> QED
    BY <1>3, <2>2
<1>6. ASSUME NEW g \in ReservationIds, TransitionOverdue(g) \/ FulfillOverdue(g)
      PROVE  reservation'[h].status \in {reservation[h].status, "expired"}
  BY <1>3, <1>6 DEF TransitionOverdue, FulfillOverdue
<1>7. ASSUME NEW g \in ReservationIds, NEW next,
             AdvanceReservation(g, next) \/ CloseReservation(g, next)
      PROVE  reservation'[h].status \in {reservation[h].status, "expired"}
  <2>1. g # h
    BY <1>7 DEF AdvanceReservation, CloseReservation
  <2> QED
    BY <1>7, <2>1 DEF AdvanceReservation, CloseReservation
<1>8. ASSUME NEW g \in ReservationIds, FulfillReservation(g)
      PROVE  reservation'[h].status \in {reservation[h].status, "expired"}
  <2>1. g # h
    BY <1>1, <1>2, <1>8 DEF FulfillReservation
  <2> QED
    BY <1>8, <2>1 DEF FulfillReservation
<1> QED
  BY <1>4, <1>5, <1>6, <1>7, <1>8 DEF ReservationNext

(* The same of procurements, which are overdue from their time on. *)
LEMMA OverdueProcurement ==
  ASSUME TypeOK, ProcurementNext, NEW p \in DueProcurements
  PROVE  procurement'[p].status \in {procurement[p].status, "expired"}
<1> USE DEF TypeOK, ProcurementRow
<1>1. /\ p \in ProcurementIds /\ isActive(procurement[p].status)
      /\ procurement[p].expires <= now
  BY DEF DueProcurements, ActiveProcurements
<1>2. now \in Int /\ \A o \in ProcurementIds : procurement[o].expires \in Int
  BY StockAssumption DEF Times
<1>3. \A S : Lapsed(S)[p].status \in {procurement[p].status, "expired"}
  BY <1>1 DEF Lapsed
<1>4. ASSUME NEW S, SweepProcurements(S)
      PROVE  procurement'[p].status \in {procurement[p].status, "expired"}
  BY <1>3, <1>4 DEF SweepProcurements
<1>5. ASSUME NEW n \in ProcurementIds, NEW r, NEW to, NEW q, NEW S,
             CreateProcurement(n, r, to, q, S)
      PROVE  procurement'[p].status \in {procurement[p].status, "expired"}
  <2>1. n # p
    BY <1>1, <1>5 DEF CreateProcurement, isActive
  <2>2. procurement'[p] = Lapsed(S)[p]
    BY <1>1, <1>5, <2>1 DEF CreateProcurement, Lapsed
  <2> QED
    BY <1>3, <2>2
<1>6. ASSUME NEW o \in ProcurementIds, TransitionLapsed(o) \/ ReceiveLapsed(o)
      PROVE  procurement'[p].status \in {procurement[p].status, "expired"}
  BY <1>3, <1>6 DEF TransitionLapsed, ReceiveLapsed
<1>7. ASSUME NEW o \in ProcurementIds, NEW next,
             AdvanceProcurement(o, next) \/ CloseProcurement(o, next)
      PROVE  procurement'[p].status \in {procurement[p].status, "expired"}
  <2>1. o # p
    BY <1>7 DEF AdvanceProcurement, CloseProcurement
  <2> QED
    BY <1>1, <1>7, <2>1 DEF AdvanceProcurement, CloseProcurement
<1>8. ASSUME NEW o \in ProcurementIds, Receive(o)
      PROVE  procurement'[p].status \in {procurement[p].status, "expired"}
  <2>1. o # p
    BY <1>1, <1>2, <1>8 DEF Receive
  <2> QED
    BY <1>1, <1>8, <2>1 DEF Receive
<1> QED
  BY <1>4, <1>5, <1>6, <1>7, <1>8 DEF ProcurementNext

-----------------------------------------------------------------------------
(* Theorems *)

(* DocInv holds at the start. *)
LEMMA DocInvInit == Init => DocInv
<1> SUFFICES ASSUME Init PROVE DocInv
  OBVIOUS
<1> USE DEF Init, StockInit, CounterInit, ReservationInit, ProcurementInit
<1>1. SalesInOrder /\ PurchasesInOrder /\ IsFiniteSet(adjustments)
  BY FS_EmptySet DEF SalesInOrder, PurchasesInOrder
<1>2. StockAccounted
  <2>1. \A dir : AdjustmentsTo(dir) = {}
    BY DEF AdjustmentsTo
  <2> QED
    BY <2>1, TotalEmpty, StockAssumption DEF StockAccounted
<1>3. HoldsHaveTheirDocuments
  BY DEF HoldsHaveTheirDocuments
<1> QED
  BY <1>1, <1>2, <1>3 DEF DocInv, BooksInv

(* DocInv is inductive beside HoldInv. *)
LEMMA DocInvNext == HoldInv /\ DocInv /\ [Next]_vars => DocInv'
<1> SUFFICES ASSUME HoldInv, DocInv, [Next]_vars PROVE DocInv'
  OBVIOUS
<1>1. BooksInv'
  BY BooksStep DEF DocInv
<1>2. ReservationDocuments /\ ProcurementDocuments
  BY DEF DocInv, HoldsHaveTheirDocuments, ReservationDocuments,
     ProcurementDocuments
<1>3. ReservationDocuments' /\ ProcurementDocuments'
  BY <1>2, OrderDocumentsStep
<1>4. HoldsHaveTheirDocuments'
  BY <1>3 DEF HoldsHaveTheirDocuments, ReservationDocuments,
     ProcurementDocuments
<1> QED
  BY <1>1, <1>4 DEF DocInv

(* The stock on hand is the opening stock and what the documents moved: no  *)
(* repeated request, fulfilment or receipt moves it twice or without a      *)
(* document.                                                                *)
THEOREM StockIsAccounted == Spec => []StockAccounted
<1>1. DocInv => StockAccounted
  BY DEF DocInv, BooksInv
<1> QED
  BY <1>1, HoldInvInit, HoldInvNext, DocInvInit, DocInvNext, PTL DEF Spec

(* An order has its sale and its purchase exactly when it was fulfilled or  *)
(* received, and they are for what it held.                                 *)
THEOREM OrdersHaveTheirDocuments == Spec => []HoldsHaveTheirDocuments
<1>1. DocInv => HoldsHaveTheirDocuments
  BY DEF DocInv
<1> QED
  BY <1>1, HoldInvInit, HoldInvNext, DocInvInit, DocInvNext, PTL DEF Spec

(* However many returns a line is spread over, no more comes back than was  *)
(* sold, or goes back than was bought.                                      *)
THEOREM ReturnsStayWithin == Spec => []ReturnsWithinDocument
<1>1. DocInv => ReturnsWithinDocument
  BY DEF DocInv, BooksInv, SalesInOrder, PurchasesInOrder, ReturnsWithinDocument
<1> QED
  BY <1>1, HoldInvInit, HoldInvNext, DocInvInit, DocInvNext, PTL DEF Spec

(* Whatever is asked for and however the four places compare the time, a    *)
(* hold past its time stays as it is or expires.                            *)
THEOREM OverdueHoldsOnlyExpire == Spec => OverdueOnlyExpires
<1> DEFINE A == /\ \A h \in ReservationIds :
                     Overdue(h) => reservation'[h].status
                                     \in {reservation[h].status, "expired"}
                /\ \A p \in DueProcurements :
                     procurement'[p].status
                       \in {procurement[p].status, "expired"}
<1>1. HoldInv /\ [Next]_vars => [A]_vars
  <2> SUFFICES ASSUME HoldInv, Next PROVE A
    OBVIOUS
  <2>1. \A h \in ReservationIds :
          Overdue(h) => reservation'[h].status
                          \in {reservation[h].status, "expired"}
    BY OverdueReservation DEF Next, HoldInv
  <2>2. \A p \in DueProcurements :
          procurement'[p].status \in {procurement[p].status, "expired"}
    BY OverdueProcurement DEF Next, HoldInv
  <2> QED
    BY <2>1, <2>2
<1> QED
  BY <1>1, HoldInvInit, HoldInvNext, PTL DEF Spec, OverdueOnlyExpires

-----------------------------------------------------------------------------
(* The refinement mapping *)

\* What stands for the variables of HoldPromise.
Free == [r \in Rows |-> onHand[r] - reserved[r]]
Phase == [h \in HoldIds |-> PhaseOf(OrderOf(h).status)]
Claim ==
  [h \in HoldIds |-> [row |-> OrderOf(h).row, qty |-> OrderOf(h).qty]]

HeldIds == ActiveReservations \cup ActiveProcurements

(* Sums are the same in both modules. *)
LEMMA PromiseTotal ==
  ASSUME NEW T, NEW r
  PROVE  Promise!Total(T, r) = Total(T, r)
BY DEF Promise!Total, Promise!Units, Promise!Qty, Total, Units, Qty,
   Cardinality, Promise!Cardinality

(* The phase of a status. *)
LEMMA PhaseValues ==
  /\ PhaseOf("none") = "unused"
  /\ \A status \in Holding \cup ActiveStatuses : PhaseOf(status) = "held"
  /\ \A status \in {"fulfilled", "received"} : PhaseOf(status) = "sold"
  /\ \A status \in {"rejected", "cancelled", "expired"} :
       PhaseOf(status) = "returned"
BY DEF PhaseOf, Holding, ActiveStatuses

(* The two kinds of orders are mapped apart. *)
LEMMA MapsReservations ==
  ASSUME NEW h \in ReservationIds
  PROVE  /\ h \in HoldIds
         /\ Phase[h] = PhaseOf(reservation[h].status)
         /\ Phase'[h] = PhaseOf(reservation'[h].status)
         /\ Claim[h] = [row |-> reservation[h].row, qty |-> reservation[h].qty]
         /\ Claim'[h] = [row |-> reservation'[h].row, qty |-> reservation'[h].qty]
BY DEF HoldIds, OrderOf, Phase, Claim

LEMMA MapsProcurements ==
  ASSUME NEW p \in ProcurementIds
  PROVE  /\ p \in HoldIds /\ p \notin ReservationIds
         /\ Phase[p] = PhaseOf(procurement[p].status)
         /\ Phase'[p] = PhaseOf(procurement'[p].status)
         /\ Claim[p] = [row |-> procurement[p].row, qty |-> procurement[p].qty]
         /\ Claim'[p] = [row |-> procurement'[p].row, qty |-> procurement'[p].qty]
BY KeyAssumption DEF HoldIds, OrderOf, Phase, Claim

(* What is held is what holds stock. *)
LEMMA PromiseHeld ==
  ASSUME TypeOK
  PROVE  /\ Promise!Held = HeldIds
         /\ HeldIds \subseteq HoldIds
<1>1. ASSUME NEW h \in ReservationIds
      PROVE  Phase[h] = "held" <=> h \in ActiveReservations
  <2>1. reservation[h].status \in ReservationStatus
    BY DEF TypeOK, ReservationRow
  <2> QED
    BY <2>1, MapsReservations
       DEF ReservationStatus, ActiveReservations, Holding, PhaseOf
<1>2. ASSUME NEW p \in ProcurementIds
      PROVE  Phase[p] = "held" <=> p \in ActiveProcurements
  <2>1. procurement[p].status \in ProcurementStatus
    BY DEF TypeOK, ProcurementRow
  <2> QED
    BY <2>1, MapsProcurements
       DEF ProcurementStatus, ActiveProcurements, isActive, Holding, PhaseOf
<1>3. Promise!Held = {h \in HoldIds : Phase[h] = "held"}
  BY DEF Promise!Held, Phase
<1> QED
  BY <1>1, <1>2, <1>3, KeyAssumption
     DEF HeldIds, HoldIds, ActiveReservations, ActiveProcurements

(* What the orders in S claim are the lines of their holds. *)
LEMMA PromiseLines ==
  /\ \A S \in SUBSET ReservationIds : Promise!ClaimLines(S) = ReservationLines(S)
  /\ \A S \in SUBSET ProcurementIds : Promise!ClaimLines(S) = ProcurementLines(S)
<1>1. \A S : Promise!ClaimLines(S) =
        {[key |-> h, row |-> Claim[h].row, qty |-> Claim[h].qty] : h \in S}
  BY DEF Promise!ClaimLines, Claim
<1>2. ASSUME NEW S \in SUBSET ReservationIds
      PROVE  Promise!ClaimLines(S) = ReservationLines(S)
  <2>1. \A h \in S : [key |-> h, row |-> Claim[h].row, qty |-> Claim[h].qty]
                       = ReservationLine(h)
    <3> SUFFICES ASSUME NEW h \in S
                 PROVE  /\ Claim[h].row = reservation[h].row
                        /\ Claim[h].qty = reservation[h].qty
      BY DEF ReservationLine
    <3>1. Claim[h] = [row |-> reservation[h].row, qty |-> reservation[h].qty]
      BY MapsReservations
    <3> QED
      BY <3>1
  <2> QED
    BY <1>1, <2>1 DEF ReservationLines
<1>3. ASSUME NEW S \in SUBSET ProcurementIds
      PROVE  Promise!ClaimLines(S) = ProcurementLines(S)
  <2>1. \A p \in S : [key |-> p, row |-> Claim[p].row, qty |-> Claim[p].qty]
                       = ProcurementLine(p)
    <3> SUFFICES ASSUME NEW p \in S
                 PROVE  /\ Claim[p].row = procurement[p].row
                        /\ Claim[p].qty = procurement[p].qty
      BY DEF ProcurementLine
    <3>1. Claim[p] = [row |-> procurement[p].row, qty |-> procurement[p].qty]
      BY MapsProcurements
    <3> QED
      BY <3>1
  <2> QED
    BY <1>1, <2>1 DEF ProcurementLines
<1> QED
  BY <1>2, <1>3

-----------------------------------------------------------------------------
(* The steps of the promise, in terms of the mapping *)

(* Holds end and their stock is free again. *)
LEMMA GivesBack ==
  ASSUME TypeOK, NEW S \in SUBSET HeldIds, NEW L \in SUBSET HoldLines,
         Promise!ClaimLines(S) = L,
         UpdateBalances(onHand, Released(L)),
         \A h \in HoldIds :
           /\ Phase'[h] = IF h \in S THEN "returned" ELSE Phase[h]
           /\ Claim'[h] = Claim[h]
  PROVE  Promise!Next
<1>1. S \subseteq Promise!Held
  BY PromiseHeld
<1>2. Free' = Promise!FreeAfter(S)
  <2>1. ASSUME NEW r \in Rows
        PROVE  onHand'[r] - reserved'[r] = onHand[r] - reserved[r] + Total(L, r)
    <3>1. Total(L, r) \in Nat
      BY HoldLinesFinite, TotalMinus
    <3>2. onHand'[r] = onHand[r] /\ reserved'[r] = reserved[r] - Total(L, r)
      BY DEF UpdateBalances, Released
    <3> QED
      BY <3>1, <3>2 DEF TypeOK
  <2>2. Promise!FreeAfter(S) = [r \in Rows |-> Free[r] + Total(L, r)]
    BY PromiseTotal DEF Promise!FreeAfter, Free
  <2> QED
    BY <2>1, <2>2 DEF Free
<1>3. Phase' = Promise!PhaseAfter(S)
  BY DEF Promise!PhaseAfter, Phase
<1>4. Claim' = Claim
  BY DEF Claim
<1>5. Promise!GiveBack(S)
  BY <1>1, <1>2, <1>3, <1>4 DEF Promise!GiveBack, Free, Phase, Claim
<1> QED
  BY <1>1, <1>5 DEF Promise!Next

(* Perhaps holds end, and a new one takes stock that is free then.          *)
LEMMA Places ==
  ASSUME TypeOK, NEW n \in HoldIds, Phase[n] = "unused",
         NEW r \in Rows, NEW q \in Qty,
         NEW S \in SUBSET HeldIds, NEW L \in SUBSET HoldLines,
         Promise!ClaimLines(S) = L,
         q <= onHand[r] - Released(L)[r],
         UpdateBalances(onHand, [Released(L) EXCEPT ![r] = @ + q]),
         Phase'[n] = "held", Claim'[n] = [row |-> r, qty |-> q],
         \A h \in HoldIds \ {n} :
           /\ Phase'[h] = IF h \in S THEN "returned" ELSE Phase[h]
           /\ Claim'[h] = Claim[h]
  PROVE  Promise!Next
<1>1. S \subseteq Promise!Held
  BY PromiseHeld
<1>2. Promise!FreeAfter(S) = [x \in Rows |-> Free[x] + Total(L, x)]
  BY PromiseTotal DEF Promise!FreeAfter, Free
<1>3. \A x \in Rows : /\ Total(L, x) \in Nat
                      /\ Released(L)[x] = reserved[x] - Total(L, x)
                      /\ onHand[x] \in Nat /\ reserved[x] \in Nat
                      /\ Free[x] = onHand[x] - reserved[x]
  BY HoldLinesFinite, TotalMinus DEF Released, TypeOK, Free
<1>4. q \in Nat
  BY MaxQtyAssumption DEF Qty
<1>5. q <= Promise!FreeAfter(S)[r]
  BY <1>2, <1>3, <1>4
<1>6. Free' = [Promise!FreeAfter(S) EXCEPT ![r] = @ - q]
  <2>1. ASSUME NEW x \in Rows
        PROVE  Free'[x] = IF x = r THEN Free[x] + Total(L, x) - q
                                   ELSE Free[x] + Total(L, x)
    <3>1. Released(L) \in [Rows -> Int]
      BY <1>3 DEF Released
    <3>2. /\ onHand'[x] = onHand[x]
          /\ reserved'[x] = IF x = r THEN Released(L)[x] + q ELSE Released(L)[x]
      BY <3>1 DEF UpdateBalances
    <3>3. Free'[x] = onHand'[x] - reserved'[x]
      BY DEF Free
    <3> QED
      BY <1>3, <1>4, <3>2, <3>3
  <2>2. Free' = [x \in Rows |-> Free'[x]]
    BY DEF Free
  <2>3. [Promise!FreeAfter(S) EXCEPT ![r] = @ - q]
          = [x \in Rows |-> IF x = r THEN Free[x] + Total(L, x) - q
                                     ELSE Free[x] + Total(L, x)]
    BY <1>2, <1>3, <1>4
  <2> HIDE DEF Free
  <2> QED
    BY <2>1, <2>2, <2>3
<1>7. Phase' = [Promise!PhaseAfter(S) EXCEPT ![n] = "held"]
  BY DEF Promise!PhaseAfter, Phase
<1>8. Claim' = [Claim EXCEPT ![n] = [row |-> r, qty |-> q]]
  BY DEF Claim
<1>9. Promise!Place(n, r, q, S)
  BY <1>1, <1>5, <1>6, <1>7, <1>8 DEF Promise!Place, Free, Phase, Claim
<1>10. q \in Promise!Qty
  BY DEF Qty, Promise!Qty
<1> QED
  BY <1>1, <1>9, <1>10 DEF Promise!Next

(* The held stock leaves with a sale. *)
LEMMA Sells ==
  ASSUME NEW h \in HoldIds, Phase[h] = "held", Phase'[h] = "sold",
         \A g \in HoldIds \ {h} : Phase'[g] = Phase[g],
         Claim' = Claim, Free' = Free
  PROVE  Promise!Next
<1>1. Phase' = [Phase EXCEPT ![h] = "sold"]
  BY DEF Phase
<1>2. Promise!Sell(h)
  BY <1>1 DEF Promise!Sell, Free, Phase, Claim
<1> QED
  BY <1>2 DEF Promise!Next

(* The held stock becomes free stock of another row. *)
LEMMA Delivers ==
  ASSUME NEW h \in HoldIds, Phase[h] = "held", Phase'[h] = "sold",
         \A g \in HoldIds \ {h} : Phase'[g] = Phase[g],
         NEW to \in Rows, to # Claim[h].row,
         Claim' = Claim, Free' = [Free EXCEPT ![to] = @ + Claim[h].qty]
  PROVE  Promise!Next
<1>1. Phase' = [Phase EXCEPT ![h] = "sold"]
  BY DEF Phase
<1>2. Promise!Deliver(h, to)
  BY <1>1 DEF Promise!Deliver, Free, Phase, Claim
<1> QED
  BY <1>2 DEF Promise!Next

-----------------------------------------------------------------------------
(* The actions of Reservations *)

LEMMA ReservationsPromise ==
  ASSUME HoldInv, ReservationNext, UNCHANGED <<counterVars, procurement>>
  PROVE  Promise!Next \/ UNCHANGED Promise!promiseVars
<1> USE DEF HoldInv
<1>1. \A p \in ProcurementIds : Phase'[p] = Phase[p] /\ Claim'[p] = Claim[p]
  BY MapsProcurements
<1>2. \A S \in SUBSET ActiveReservations :
        /\ S \in SUBSET HeldIds /\ S \in SUBSET ReservationIds
        /\ ReservationLines(S) \in SUBSET HoldLines
        /\ Promise!ClaimLines(S) = ReservationLines(S)
        /\ S \cap ProcurementIds = {}
  <2>1. ActiveReservations \subseteq ReservationIds
    BY DEF ActiveReservations
  <2> QED
    BY <2>1, PromiseLines, KeyAssumption DEF HeldIds, HoldLines, ReservationLines
<1>3. ASSUME NEW S \in SUBSET ActiveReservations, EndReservations(S),
             UpdateBalances(onHand, Released(ReservationLines(S)))
      PROVE  Promise!Next
  <2>1. ASSUME NEW h \in ReservationIds
        PROVE  /\ Phase'[h] = IF h \in S THEN "returned" ELSE Phase[h]
               /\ Claim'[h] = Claim[h]
    BY <1>3, MapsReservations, PhaseValues DEF EndReservations
  <2>2. \A h \in HoldIds :
          /\ Phase'[h] = IF h \in S THEN "returned" ELSE Phase[h]
          /\ Claim'[h] = Claim[h]
    BY <1>1, <1>2, <2>1 DEF HoldIds
  <2> QED
    BY <1>2, <1>3, <2>2, GivesBack
<1>4. ASSUME NEW n \in ReservationIds, NEW r \in Rows, NEW q \in Qty,
             NEW S \in SUBSET ActiveReservations,
             PlaceReservation(n, r, q, S),
             q <= onHand[r] - Released(ReservationLines(S))[r],
             UpdateBalances(onHand,
               [Released(ReservationLines(S)) EXCEPT ![r] = @ + q])
      PROVE  Promise!Next
  <2>1. ASSUME NEW h \in ReservationIds \ {n}
        PROVE  /\ Phase'[h] = IF h \in S THEN "returned" ELSE Phase[h]
               /\ Claim'[h] = Claim[h]
    <3>1. /\ h \in S => reservation'[h].status \in {"rejected", "cancelled", "expired"}
          /\ h \notin S => reservation'[h].status = reservation[h].status
          /\ reservation'[h].row = reservation[h].row
          /\ reservation'[h].qty = reservation[h].qty
      BY <1>4 DEF PlaceReservation
    <3>2. /\ Phase'[h] = PhaseOf(reservation'[h].status)
          /\ Phase[h] = PhaseOf(reservation[h].status)
          /\ Claim'[h] = Claim[h]
      BY <3>1, MapsReservations
    <3> QED
      BY <3>1, <3>2, PhaseValues
  <2>2. \A h \in HoldIds \ {n} :
          /\ Phase'[h] = IF h \in S THEN "returned" ELSE Phase[h]
          /\ Claim'[h] = Claim[h]
    BY <1>1, <1>2, <2>1 DEF HoldIds
  <2>3. /\ n \in HoldIds /\ Phase[n] = "unused" /\ Phase'[n] = "held"
        /\ Claim'[n] = [row |-> r, qty |-> q]
    BY <1>4, MapsReservations, PhaseValues DEF PlaceReservation, Holding
  <2> QED
    BY <1>2, <1>4, <2>2, <2>3, Places
<1>5. ASSUME NEW h \in ReservationIds, MoveReservation(h, Holding, Holding),
             UNCHANGED stockVars
      PROVE  UNCHANGED Promise!promiseVars
  <2>1. \A g \in ReservationIds : Phase'[g] = Phase[g] /\ Claim'[g] = Claim[g]
    <3>1. ASSUME NEW g \in ReservationIds
          PROVE  /\ PhaseOf(reservation'[g].status) = PhaseOf(reservation[g].status)
                 /\ reservation'[g].row = reservation[g].row
                 /\ reservation'[g].qty = reservation[g].qty
      BY <1>5, PhaseValues DEF MoveReservation
    <3> QED
      BY <3>1, MapsReservations
  <2>2. Phase' = Phase /\ Claim' = Claim
    BY <1>1, <2>1 DEF HoldIds, Phase, Claim
  <2>3. Free' = Free
    BY <1>5 DEF Free, stockVars
  <2> QED
    BY <2>2, <2>3 DEF Promise!promiseVars, Free, Phase, Claim
<1>6. ASSUME NEW h \in ReservationIds, FulfillReservation(h),
             MoveReservation(h, {"ready"}, {"fulfilled"})
      PROVE  Promise!Next
  <2>1. ASSUME NEW g \in ReservationIds
        PROVE  /\ g # h => Phase'[g] = Phase[g]
               /\ Claim'[g] = Claim[g]
    <3>1. /\ g # h => reservation'[g].status = reservation[g].status
          /\ reservation'[g].row = reservation[g].row
          /\ reservation'[g].qty = reservation[g].qty
      BY <1>6 DEF MoveReservation
    <3> QED
      BY <3>1, MapsReservations
  <2>2. \A g \in HoldIds \ {h} : Phase'[g] = Phase[g]
    BY <1>1, <2>1 DEF HoldIds
  <2>3. Claim' = Claim
    BY <1>1, <2>1 DEF HoldIds, Claim
  <2>4. h \in HoldIds /\ Phase[h] = "held" /\ Phase'[h] = "sold"
    BY <1>6, MapsReservations, PhaseValues DEF MoveReservation, Holding
  <2>5. Free' = Free
    <3>1. reservation[h].row \in Rows /\ reservation[h].qty \in Int
      BY <1>6, MaxQtyAssumption DEF FulfillReservation, OrdersPlaced, Qty
    <3>2. \A r \in Rows : onHand'[r] - reserved'[r] = onHand[r] - reserved[r]
      BY <1>6, <3>1 DEF FulfillReservation, UpdateBalances, TypeOK
    <3> QED
      BY <3>2 DEF Free
  <2> QED
    BY <2>2, <2>3, <2>4, <2>5, Sells
<1> QED
  BY <1>3, <1>4, <1>5, <1>6, ReservationShapes

-----------------------------------------------------------------------------
(* The actions of Procurements *)

LEMMA ProcurementsPromise ==
  ASSUME HoldInv, ProcurementNext, UNCHANGED <<counterVars, reservation>>
  PROVE  Promise!Next \/ UNCHANGED Promise!promiseVars
<1> USE DEF HoldInv
<1>1. \A h \in ReservationIds : Phase'[h] = Phase[h] /\ Claim'[h] = Claim[h]
  BY MapsReservations
<1>2. \A S \in SUBSET ActiveProcurements :
        /\ S \in SUBSET HeldIds /\ S \in SUBSET ProcurementIds
        /\ ProcurementLines(S) \in SUBSET HoldLines
        /\ Promise!ClaimLines(S) = ProcurementLines(S)
        /\ S \cap ReservationIds = {}
  <2>1. ActiveProcurements \subseteq ProcurementIds
    BY DEF ActiveProcurements
  <2> QED
    BY <2>1, PromiseLines, KeyAssumption DEF HeldIds, HoldLines, ProcurementLines
<1>3. ASSUME NEW S \in SUBSET ActiveProcurements, EndProcurements(S),
             UpdateBalances(onHand, Released(ProcurementLines(S)))
      PROVE  Promise!Next
  <2>1. ASSUME NEW p \in ProcurementIds
        PROVE  /\ Phase'[p] = IF p \in S THEN "returned" ELSE Phase[p]
               /\ Claim'[p] = Claim[p]
    <3>1. /\ p \in S => procurement'[p].status \in {"rejected", "cancelled", "expired"}
          /\ p \notin S => procurement'[p].status = procurement[p].status
          /\ procurement'[p].row = procurement[p].row
          /\ procurement'[p].qty = procurement[p].qty
      BY <1>3 DEF EndProcurements
    <3>2. /\ Phase'[p] = PhaseOf(procurement'[p].status)
          /\ Phase[p] = PhaseOf(procurement[p].status)
          /\ Claim'[p] = Claim[p]
      BY <3>1, MapsProcurements
    <3> QED
      BY <3>1, <3>2, PhaseValues
  <2>2. \A h \in HoldIds :
          /\ Phase'[h] = IF h \in S THEN "returned" ELSE Phase[h]
          /\ Claim'[h] = Claim[h]
    BY <1>1, <1>2, <2>1 DEF HoldIds
  <2> QED
    BY <1>2, <1>3, <2>2, GivesBack
<1>4. ASSUME NEW n \in ProcurementIds, NEW r \in Rows, NEW to \in Rows,
             NEW q \in Qty, NEW S \in SUBSET ActiveProcurements,
             PlaceProcurement(n, r, to, q, S),
             q <= onHand[r] - Released(ProcurementLines(S))[r],
             UpdateBalances(onHand,
               [Released(ProcurementLines(S)) EXCEPT ![r] = @ + q])
      PROVE  Promise!Next
  <2>1. ASSUME NEW p \in ProcurementIds \ {n}
        PROVE  /\ Phase'[p] = IF p \in S THEN "returned" ELSE Phase[p]
               /\ Claim'[p] = Claim[p]
    <3>1. /\ p \in S => procurement'[p].status \in {"rejected", "cancelled", "expired"}
          /\ p \notin S => procurement'[p].status = procurement[p].status
          /\ procurement'[p].row = procurement[p].row
          /\ procurement'[p].qty = procurement[p].qty
      BY <1>4 DEF PlaceProcurement
    <3>2. /\ Phase'[p] = PhaseOf(procurement'[p].status)
          /\ Phase[p] = PhaseOf(procurement[p].status)
          /\ Claim'[p] = Claim[p]
      BY <3>1, MapsProcurements
    <3> QED
      BY <3>1, <3>2, PhaseValues
  <2>2. \A h \in HoldIds \ {n} :
          /\ Phase'[h] = IF h \in S THEN "returned" ELSE Phase[h]
          /\ Claim'[h] = Claim[h]
    BY <1>1, <1>2, <2>1 DEF HoldIds
  <2>3. /\ n \in HoldIds /\ Phase[n] = "unused" /\ Phase'[n] = "held"
        /\ Claim'[n] = [row |-> r, qty |-> q]
    BY <1>4, MapsProcurements, PhaseValues DEF PlaceProcurement, ActiveStatuses
  <2> QED
    BY <1>2, <1>4, <2>2, <2>3, Places
<1>5. ASSUME NEW p \in ProcurementIds,
             MoveProcurement(p, ActiveStatuses, ActiveStatuses),
             UNCHANGED stockVars
      PROVE  UNCHANGED Promise!promiseVars
  <2>1. ASSUME NEW o \in ProcurementIds
        PROVE  Phase'[o] = Phase[o] /\ Claim'[o] = Claim[o]
    <3>1. /\ PhaseOf(procurement'[o].status) = PhaseOf(procurement[o].status)
          /\ procurement'[o].row = procurement[o].row
          /\ procurement'[o].qty = procurement[o].qty
      BY <1>5, PhaseValues DEF MoveProcurement
    <3> QED
      BY <3>1, MapsProcurements
  <2>2. Phase' = Phase /\ Claim' = Claim
    BY <1>1, <2>1 DEF HoldIds, Phase, Claim
  <2>3. Free' = Free
    BY <1>5 DEF Free, stockVars
  <2> QED
    BY <2>2, <2>3 DEF Promise!promiseVars, Free, Phase, Claim
<1>6. ASSUME NEW p \in ProcurementIds, Receive(p),
             MoveProcurement(p, {"ready"}, {"received"})
      PROVE  Promise!Next
  <2> DEFINE from == procurement[p].row
             to == procurement[p].to
             q == procurement[p].qty
  <2>1. ASSUME NEW o \in ProcurementIds
        PROVE  /\ o # p => Phase'[o] = Phase[o]
               /\ Claim'[o] = Claim[o]
    <3>1. /\ o # p => procurement'[o].status = procurement[o].status
          /\ procurement'[o].row = procurement[o].row
          /\ procurement'[o].qty = procurement[o].qty
      BY <1>6 DEF MoveProcurement
    <3> QED
      BY <3>1, MapsProcurements
  <2>2. \A g \in HoldIds \ {p} : Phase'[g] = Phase[g]
    BY <1>1, <2>1 DEF HoldIds
  <2>3. Claim' = Claim
    BY <1>1, <2>1 DEF HoldIds, Claim
  <2>4. p \in HoldIds /\ Phase[p] = "held" /\ Phase'[p] = "sold"
    BY <1>6, MapsProcurements, PhaseValues DEF MoveProcurement, ActiveStatuses
  <2>5. Claim[p] = [row |-> from, qty |-> q]
    BY MapsProcurements
  <2>6. from \in Rows /\ to \in Rows /\ from # to /\ q \in Int
    BY <1>6, MaxQtyAssumption DEF Receive, OrdersPlaced, Qty
  <2>7. /\ onHand' = [onHand EXCEPT ![from] = @ - q, ![to] = @ + q]
        /\ reserved' = [reserved EXCEPT ![from] = @ - q]
    BY <1>6 DEF Receive, UpdateBalances
  <2> HIDE DEF from, to, q
  <2>8. Free' = [Free EXCEPT ![to] = @ + q]
    <3>1. ASSUME NEW r \in Rows
          PROVE  onHand'[r] - reserved'[r]
                   = IF r = to THEN onHand[r] - reserved[r] + q
                               ELSE onHand[r] - reserved[r]
      BY <2>6, <2>7 DEF TypeOK
    <3> QED
      BY <2>6, <3>1 DEF Free
  <2>9. to # Claim[p].row /\ Free' = [Free EXCEPT ![to] = @ + Claim[p].qty]
    BY <2>5, <2>6, <2>8
  <2> QED
    BY <2>2, <2>3, <2>4, <2>6, <2>9, Delivers
<1> QED
  BY <1>3, <1>4, <1>5, <1>6, ProcurementShapes

-----------------------------------------------------------------------------
(* The documents of the counter *)

(* Whatever the counter does is trade in free stock. *)
LEMMA CounterPromise ==
  ASSUME HoldInv, HoldInv', UNCHANGED <<reservation, procurement>>
  PROVE  Promise!Next
<1>1. \A r \in Rows : onHand'[r] - reserved'[r] \in Nat
  BY DEF HoldInv, TypeOK, BalancesChecked, BalanceChecks
<1>2. Free' \in [Rows -> Nat]
  BY <1>1 DEF Free
<1>3. Phase' = Phase /\ Claim' = Claim
  BY DEF Phase, Claim, OrderOf
<1>4. Promise!Trade
  BY <1>2, <1>3 DEF Promise!Trade, Free, Phase, Claim
<1> QED
  BY <1>4 DEF Promise!Next

-----------------------------------------------------------------------------
(* The theorem *)

LEMMA PromiseInit == Init => Promise!Init
<1> SUFFICES ASSUME Init PROVE Promise!Init
  OBVIOUS
<1> USE DEF Init, StockInit, ReservationInit, ProcurementInit
<1>1. Free \in [Rows -> Nat]
  BY StockAssumption DEF Free
<1>2. ASSUME NEW h \in HoldIds
      PROVE  Phase[h] = "unused" /\ Claim[h] = [row |-> NoRow, qty |-> 0]
  <2>1. CASE h \in ReservationIds
    BY <2>1, MapsReservations, PhaseValues
  <2>2. CASE h \in ProcurementIds
    BY <2>2, MapsProcurements, PhaseValues
  <2> QED
    BY <2>1, <2>2 DEF HoldIds
<1>3. /\ Phase = [h \in HoldIds |-> "unused"]
      /\ Claim = [h \in HoldIds |-> Promise!NoClaim]
  BY <1>2 DEF Phase, Claim, Promise!NoClaim
<1> QED
  BY <1>1, <1>3 DEF Promise!Init, Free, Phase, Claim

LEMMA PromiseStep ==
  HoldInv /\ HoldInv' /\ [Next]_vars => [Promise!Next]_(Promise!promiseVars)
<1> SUFFICES ASSUME HoldInv, HoldInv', [Next]_vars
             PROVE  Promise!Next \/ UNCHANGED Promise!promiseVars
  OBVIOUS
<1>1. CASE UNCHANGED vars \/ (TickClock /\ UNCHANGED <<reservation, procurement>>)
  <2>1. UNCHANGED <<onHand, reserved, reservation, procurement>>
    BY <1>1 DEF vars, stockVars, TickClock
  <2> QED
    BY <2>1 DEF Promise!promiseVars, OrderOf
<1>2. CASE CounterNext /\ UNCHANGED <<reservation, procurement>>
  BY <1>2, CounterPromise
<1> QED
  BY <1>1, <1>2, ReservationsPromise, ProcurementsPromise DEF Next

(* For who holds stock, every interleaving of the transactions of all       *)
(* services is one of the promise: held stock is neither traded nor held    *)
(* again, and a hold ends once, by its stock being free again or sold.      *)
THEOREM ServicesKeepThePromise == Spec => KeepsPromise
  BY HoldInvInit, HoldInvNext, PromiseInit, PromiseStep, PTL
     DEF Spec, KeepsPromise, Promise!Spec
=============================================================================
