-------------------------- MODULE StoreBooksProofs --------------------------
(***************************************************************************)
(* Proofs about StoreBooks: trade accounts and requests, for any number of *)
(* mechanics, reservations, documents, cheques and requests.               *)
(***************************************************************************)
EXTENDS StoreBooks, LineTotalsProofs

-----------------------------------------------------------------------------
(* Trade accounts *)

RequestsTyped ==
  requests \subseteq
    [key : RequestIds, mechanic : Mechanics, type : DebitTypes \cup CreditTypes,
     amount : Qty, by : Sides, reservation : ReservationIds \cup {NoReservation},
     status : {"pending", "confirmed", "rejected"}]

\* A request is one row.
RequestKeysUnique == \A q1, q2 \in requests : q1.key = q2.key => q1 = q2

SaleKeysUnique == \A s1, s2 \in sales : s1.key = s2.key => s1 = s2
DuesTyped == \A s \in sales : s.due \in 0 .. MaxQty

ConfirmedFinite ==
  \A m \in Mechanics : /\ IsFiniteSet(RequestsOf(m, DebitTypes))
                       /\ IsFiniteSet(RequestsOf(m, CreditTypes))

\* Whatever charges a reservation, its sale has been posted and left as much due.
ChargesHaveSale ==
  \A q \in requests :
    (q.type = "charge" /\ q.reservation # NoReservation) =>
      \E s \in sales : s.key = q.reservation /\ q.amount <= s.due

TradeInv ==
  /\ RequestsTyped
  /\ RequestKeysUnique
  /\ tradeBalance \in [Mechanics -> Int]
  /\ SaleKeysUnique
  /\ DuesTyped
  /\ ConfirmedFinite
  /\ ChargesHaveSale
  /\ TradeBalanceConfirmed
  /\ ChargedOnce

-----------------------------------------------------------------------------
(* Lemmas about one request more and about a resolved one *)

\* A request is asked for.
RequestAdded(id, m, type, amount, r, side) ==
  /\ ~ Known(requests, id)
  /\ id \in RequestIds /\ m \in Mechanics /\ amount \in Qty
  /\ type \in DebitTypes \cup CreditTypes /\ side \in Sides
  /\ r \in ReservationIds \cup {NoReservation}
  /\ requests' = requests \cup {Request(id, m, type, amount, r, side)}
  /\ UNCHANGED tradeBalance

(* A request that is only pending leaves the accounts as they are.          *)
LEMMA PendingChangesNoBalance ==
  ASSUME TradeInv, NEW id, NEW m, NEW type, NEW amount, NEW r, NEW side,
         RequestAdded(id, m, type, amount, r, side)
  PROVE  /\ RequestsTyped'
         /\ RequestKeysUnique'
         /\ (tradeBalance \in [Mechanics -> Int])'
         /\ ConfirmedFinite'
         /\ TradeBalanceConfirmed'
<1> DEFINE q == Request(id, m, type, amount, r, side)
<1>1. q.key = id /\ q.status = "pending"
  BY DEF Request
<1>2. RequestsTyped'
  BY DEF TradeInv, RequestsTyped, RequestAdded, Request
<1>3. RequestKeysUnique'
  BY <1>1 DEF TradeInv, RequestKeysUnique, RequestAdded, Known
<1>4. \A n, types : RequestsOf(n, types)' = RequestsOf(n, types)
  BY <1>1 DEF RequestAdded, RequestsOf
<1>5. ConfirmedFinite' /\ TradeBalanceConfirmed'
  BY <1>4 DEF TradeInv, ConfirmedFinite, TradeBalanceConfirmed, RequestAdded
<1> QED
  BY <1>2, <1>3, <1>5 DEF TradeInv, RequestAdded

(* Resolving a request moves its amount once, to the side its type says.    *)
LEMMA ResolveMovesBalance ==
  ASSUME TradeInv, NEW q \in requests, NEW side, NEW confirm \in BOOLEAN,
         Resolve(q, side, confirm)
  PROVE  /\ RequestsTyped'
         /\ RequestKeysUnique'
         /\ (tradeBalance \in [Mechanics -> Int])'
         /\ ConfirmedFinite'
         /\ TradeBalanceConfirmed'
<1> DEFINE status == IF confirm THEN "confirmed" ELSE "rejected"
           d == [q EXCEPT !.status = status]
           line(x) == [doc |-> x, row |-> x.mechanic, qty |-> x.amount]
<1>1. /\ q.mechanic \in Mechanics /\ q.amount \in Qty /\ q.key \in RequestIds
      /\ q.type \in DebitTypes \cup CreditTypes
  BY DEF TradeInv, RequestsTyped
<1>2. /\ d.key = q.key /\ d.mechanic = q.mechanic /\ d.amount = q.amount
      /\ d.type = q.type /\ d.status = status
  BY DEF TradeInv, RequestsTyped
<1>3. requests' = (requests \ {q}) \cup {d} /\ q.status = "pending"
  BY DEF Resolve
<1>4. d \notin requests \ {q}
  BY <1>2 DEF TradeInv, RequestKeysUnique
<1>5. RequestsTyped'
  BY <1>3 DEF TradeInv, RequestsTyped
<1>6. RequestKeysUnique'
  <2> HIDE DEF d
  <2>1. \A x \in requests \ {q} : x.key # d.key
    BY <1>2 DEF TradeInv, RequestKeysUnique
  <2>2. \A x, y \in requests \ {q} : x.key = y.key => x = y
    BY DEF TradeInv, RequestKeysUnique
  <2> QED
    BY <1>3, <2>1, <2>2 DEF RequestKeysUnique
<1>7. (tradeBalance \in [Mechanics -> Int])'
  BY <1>1, MaxQtyAssumption DEF TradeInv, Resolve, Qty
<1>8. DebitTypes \cap CreditTypes = {}
  BY DEF DebitTypes, CreditTypes
<1>9. ASSUME NEW m \in Mechanics
      PROVE  /\ IsFiniteSet(RequestsOf(m, DebitTypes)')
             /\ IsFiniteSet(RequestsOf(m, CreditTypes)')
             /\ tradeBalance'[m] = Total(RequestsOf(m, DebitTypes)', m)
                                     - Total(RequestsOf(m, CreditTypes)', m)
  <2>1. /\ IsFiniteSet(RequestsOf(m, DebitTypes))
        /\ IsFiniteSet(RequestsOf(m, CreditTypes))
        /\ tradeBalance[m] = Total(RequestsOf(m, DebitTypes), m)
                               - Total(RequestsOf(m, CreditTypes), m)
    BY <1>9 DEF TradeInv, ConfirmedFinite, TradeBalanceConfirmed
  <2>2. /\ Total(RequestsOf(m, DebitTypes), m) \in Nat
        /\ Total(RequestsOf(m, CreditTypes), m) \in Nat
    BY <2>1, TotalType
  <2>3. \A types : RequestsOf(m, types)' =
          IF confirm /\ q.mechanic = m /\ q.type \in types
          THEN RequestsOf(m, types) \cup {line(d)}
          ELSE RequestsOf(m, types)
    <3> HIDE DEF d
    <3>1. d.status = "confirmed" <=> confirm
      BY <1>2
    <3>2. ASSUME NEW types
          PROVE  RequestsOf(m, types)' =
                   IF confirm /\ q.mechanic = m /\ q.type \in types
                   THEN RequestsOf(m, types) \cup
                          {[doc |-> d, row |-> m, qty |-> d.amount]}
                   ELSE RequestsOf(m, types)
      BY <1>2, <1>3, <3>1 DEF RequestsOf
    <3> QED
      BY <3>2, <1>2
  <2>4. \A types : line(d) \notin RequestsOf(m, types)
    <3>1. ASSUME NEW types, line(d) \in RequestsOf(m, types)
          PROVE  FALSE
      <4>1. PICK x \in requests : /\ x.status = "confirmed"
                                  /\ line(d) = [doc |-> x, row |-> m, qty |-> x.amount]
        BY <3>1 DEF RequestsOf
      <4>2. line(d).doc = x
        BY <4>1
      <4>3. d = x
        BY <4>2
      <4>4. d \in requests /\ d # q
        BY <4>1, <4>3, <1>3
      <4> QED
        BY <4>4, <1>4
    <3> QED
      BY <3>1
  <2>5. line(d).qty = q.amount /\ line(d).row = q.mechanic
    BY <1>2
  <2>6. CASE ~ (confirm /\ q.mechanic = m)
    <3>1. tradeBalance'[m] = tradeBalance[m]
      BY <2>6, <1>1 DEF Resolve, TradeInv
    <3>2. \A types : RequestsOf(m, types)' = RequestsOf(m, types)
      BY <2>3, <2>6
    <3> QED
      BY <2>1, <3>1, <3>2
  <2>7. CASE confirm /\ q.mechanic = m /\ q.type \in DebitTypes
    <3>1. tradeBalance'[m] = tradeBalance[m] + q.amount
      BY <2>7 DEF Resolve, TradeInv
    <3>2. /\ RequestsOf(m, DebitTypes)' = RequestsOf(m, DebitTypes) \cup {line(d)}
          /\ RequestsOf(m, CreditTypes)' = RequestsOf(m, CreditTypes)
      BY <2>3, <2>7, <1>8
    <3> HIDE DEF line
    <3>3. /\ IsFiniteSet(RequestsOf(m, DebitTypes) \cup {line(d)})
          /\ Total(RequestsOf(m, DebitTypes) \cup {line(d)}, m)
               = Total(RequestsOf(m, DebitTypes), m) + q.amount
      <4>1. line(d).qty \in Qty /\ line(d).row = m /\ line(d).qty = q.amount
        BY <2>5, <2>7, <1>1
      <4> QED
        BY <2>1, <2>4, <4>1, TotalAdd
    <3>4. q.amount \in Nat
      BY <1>1, MaxQtyAssumption DEF Qty
    <3> QED
      BY <2>1, <2>2, <3>1, <3>2, <3>3, <3>4
  <2>8. CASE confirm /\ q.mechanic = m /\ q.type \notin DebitTypes
    <3>1. tradeBalance'[m] = tradeBalance[m] - q.amount
      BY <2>8 DEF Resolve, TradeInv
    <3>2. /\ RequestsOf(m, DebitTypes)' = RequestsOf(m, DebitTypes)
          /\ RequestsOf(m, CreditTypes)' = RequestsOf(m, CreditTypes) \cup {line(d)}
      BY <2>3, <2>8, <1>1
    <3> HIDE DEF line
    <3>3. /\ IsFiniteSet(RequestsOf(m, CreditTypes) \cup {line(d)})
          /\ Total(RequestsOf(m, CreditTypes) \cup {line(d)}, m)
               = Total(RequestsOf(m, CreditTypes), m) + q.amount
      <4>1. line(d).qty \in Qty /\ line(d).row = m /\ line(d).qty = q.amount
        BY <2>5, <2>8, <1>1
      <4> QED
        BY <2>1, <2>4, <4>1, TotalAdd
    <3>4. q.amount \in Nat
      BY <1>1, MaxQtyAssumption DEF Qty
    <3> QED
      BY <2>1, <2>2, <3>1, <3>2, <3>3, <3>4
  <2> QED
    BY <2>6, <2>7, <2>8
<1>10. ConfirmedFinite' /\ TradeBalanceConfirmed'
  BY <1>9 DEF ConfirmedFinite, TradeBalanceConfirmed
<1> QED
  BY <1>5, <1>6, <1>7, <1>10

(* A step that touches neither accounts nor requests.                       *)
LEMMA NoRequestNoBalance ==
  ASSUME TradeInv, UNCHANGED tradeVars
  PROVE  /\ RequestsTyped'
         /\ RequestKeysUnique'
         /\ (tradeBalance \in [Mechanics -> Int])'
         /\ ConfirmedFinite'
         /\ TradeBalanceConfirmed'
  BY DEF TradeInv, tradeVars, RequestsTyped, RequestKeysUnique, ConfirmedFinite,
         TradeBalanceConfirmed, RequestsOf

-----------------------------------------------------------------------------
(* Lemmas about sales *)

\* A sale with a new key and a due amount.
SaleAdded(s) ==
  /\ ~ Known(sales, s.key)
  /\ s.due \in 0 .. MaxQty
  /\ sales' = sales \cup {s}

(* A sale more keeps keys unique and charges covered.                       *)
LEMMA SaleMore ==
  ASSUME TradeInv, NEW s, SaleAdded(s)
  PROVE  /\ SaleKeysUnique'
         /\ DuesTyped'
         /\ requests' = requests => ChargesHaveSale'
         /\ ChargesFor(s.key) = {} \/ s.key \notin ReservationIds
<1>1. SaleKeysUnique' /\ DuesTyped'
  BY DEF TradeInv, SaleKeysUnique, DuesTyped, SaleAdded, Known
<1>2. requests' = requests => ChargesHaveSale'
  BY DEF TradeInv, ChargesHaveSale, SaleAdded
<1>3. ASSUME s.key \in ReservationIds, NEW q \in ChargesFor(s.key)
      PROVE  FALSE
  <2>1. q \in requests /\ q.type = "charge" /\ q.reservation = s.key
    BY <1>3 DEF ChargesFor
  <2>2. s.key # NoReservation
    BY <1>3, TradeAssumption
  <2>3. \E t \in sales : t.key = s.key
    BY <2>1, <2>2 DEF TradeInv, ChargesHaveSale
  <2> QED
    BY <2>3 DEF SaleAdded, Known
<1> QED
  BY <1>1, <1>2, <1>3

(* The documents of the counter: no sale, or one of a counter key.          *)
LEMMA CounterSales ==
  ASSUME LedgerNext
  PROVE  \/ sales' = sales
         \/ \E s : SaleAdded(s) /\ s.key \in SaleKeys
<1>1. ASSUME NEW k \in SaleKeys, NEW c, NEW n, NEW total \in Qty,
             NEW paid \in 0 .. MaxQty, CreateSale(k, c, n, total, paid)
      PROVE  \E s : SaleAdded(s) /\ s.key \in SaleKeys
  <2> DEFINE s == [key |-> k, party |-> c, units |-> n, total |-> total,
                   due |-> total - paid]
  <2>1. s.key = k /\ s.due = total - paid
    OBVIOUS
  <2>2. total - paid \in 0 .. MaxQty
    BY <1>1, MaxQtyAssumption DEF CreateSale, PostSale, Qty
  <2>3. ~ Known(sales, k) /\ sales' = sales \cup {s}
    BY <1>1 DEF CreateSale, PostSale
  <2> QED
    BY <2>1, <2>2, <2>3 DEF SaleAdded
<1>2. ASSUME NEW k, NEW s, NEW n, NEW cost, NEW paid,
             CreatePurchase(k, s, n, cost, paid)
      PROVE  sales' = sales
  BY <1>2 DEF CreatePurchase
<1>3. ASSUME NEW k, NEW s, NEW q, NEW method, CreateSaleReturn(k, s, q, method)
      PROVE  sales' = sales
  BY <1>3 DEF CreateSaleReturn
<1>4. ASSUME NEW k, NEW s, NEW q, NEW method, CreatePurchaseReturn(k, s, q, method)
      PROVE  sales' = sales
  BY <1>4 DEF CreatePurchaseReturn
<1>5. ASSUME NEW k, NEW s, NEW amount, CreateSettlement(k, s, amount)
      PROVE  sales' = sales
  BY <1>5 DEF CreateSettlement
<1> QED
  BY <1>1, <1>2, <1>3, <1>4, <1>5 DEF LedgerNext

(* Cheques leave sales alone.                                               *)
LEMMA ChequeSales ==
  ASSUME ChecksNext
  PROVE  sales' = sales
<1>1. ASSUME NEW k, NEW p, NEW amount, CreateCheck(k, p, amount)
      PROVE  sales' = sales
  BY <1>1 DEF CreateCheck, documentVars
<1>2. ASSUME NEW k, NEW c, NEW action, NEW d, Becomes(k, c, action, d)
      PROVE  sales' = sales
  BY <1>2 DEF Becomes, documentVars
<1>3. ASSUME NEW k, NEW role, NEW c, TransitionCheck(k, role, c)
      PROVE  \E action, d : Becomes(k, c, action, d)
  BY <1>3 DEF TransitionCheck, Deposit, Clear, Bounce, Endorse, ReturnEndorsement,
              CancelReceivable, TakeBackPayable
<1> QED
  BY <1>1, <1>2, <1>3 DEF ChecksNext

(* The sale of a reservation, with the request for what nobody else owes.   *)
LEMMA FulfillmentSale ==
  ASSUME NEW r \in ReservationIds, NEW id \in RequestIds, NEW c, NEW n,
         NEW paid \in 0 .. MaxQty, FulfillReservation(r, id, c, n, paid)
  PROVE  \E s : /\ SaleAdded(s) /\ s.key = r
                /\ \/ /\ s.due > 0 /\ s.party = NoParty
                      /\ RequestAdded(id, Buyer[r], "charge", s.due, r, "store")
                   \/ /\ ~ (s.due > 0 /\ s.party = NoParty)
                      /\ UNCHANGED tradeVars
<1> DEFINE due == Price[r] - paid
           s == [key |-> r, party |-> c, units |-> n, total |-> Price[r], due |-> due]
<1>1. s.key = r /\ s.due = due /\ s.party = c
  OBVIOUS
<1>2. Price[r] \in Qty
  BY TradeAssumption
<1>3. due \in 0 .. MaxQty
  BY <1>2, MaxQtyAssumption DEF FulfillReservation, PostSale, Qty
<1>4. ~ Known(sales, r) /\ sales' = sales \cup {s}
  BY DEF FulfillReservation, PostSale
<1>5. SaleAdded(s)
  BY <1>1, <1>3, <1>4 DEF SaleAdded
<1>6. CASE due > 0 /\ c = NoParty
  <2>1. Buyer[r] \in Mechanics
    BY <1>6, TradeAssumption DEF FulfillReservation
  <2>2. due \in Qty
    BY <1>3, <1>6, MaxQtyAssumption DEF Qty
  <2>3. /\ ~ Known(requests, id)
        /\ requests' = requests \cup {Request(id, Buyer[r], "charge", due, r, "store")}
        /\ UNCHANGED tradeBalance
    BY <1>6 DEF FulfillReservation
  <2>4. "charge" \in DebitTypes \cup CreditTypes /\ "store" \in Sides
    BY DEF DebitTypes, Sides
  <2>5. RequestAdded(id, Buyer[r], "charge", due, r, "store")
    BY <2>1, <2>2, <2>3, <2>4 DEF RequestAdded
  <2> QED
    BY <1>1, <1>5, <1>6, <2>5
<1>7. CASE ~ (due > 0 /\ c = NoParty)
  <2>1. UNCHANGED tradeVars
    BY <1>7 DEF FulfillReservation, tradeVars
  <2> QED
    BY <1>1, <1>5, <1>7, <2>1
<1> QED
  BY <1>6, <1>7

-----------------------------------------------------------------------------
(* The steps *)

\* What the lemmas above leave of TradeInv to show for a step.
LeftToShow ==
  SaleKeysUnique /\ DuesTyped /\ ChargesHaveSale /\ ChargedOnce

(* Steps of the counter and of the cheques.                                 *)
LEMMA CounterStep ==
  ASSUME TradeInv, UNCHANGED tradeVars,
         \/ sales' = sales
         \/ \E s : SaleAdded(s) /\ s.key \in SaleKeys
  PROVE  LeftToShow'
<1>1. requests' = requests
  BY DEF tradeVars
<1>2. \A r : ChargesFor(r)' = ChargesFor(r)
  BY <1>1 DEF ChargesFor
<1>3. CASE sales' = sales
  BY <1>1, <1>2, <1>3
  DEF TradeInv, LeftToShow, SaleKeysUnique, DuesTyped, ChargesHaveSale, ChargedOnce
<1>4. ASSUME NEW s, SaleAdded(s), s.key \in SaleKeys
      PROVE  LeftToShow'
  <2>1. SaleKeysUnique' /\ DuesTyped' /\ ChargesHaveSale'
    BY <1>1, <1>4, SaleMore
  <2>2. s.key \notin ReservationIds
    BY <1>4, TradeAssumption
  <2>3. {t \in sales' : t.key \in ReservationIds}
          = {t \in sales : t.key \in ReservationIds}
    BY <1>4, <2>2 DEF SaleAdded
  <2>4. ChargedOnce'
    BY <1>1, <1>2, <2>3 DEF TradeInv, ChargedOnce
  <2> QED
    BY <2>1, <2>4 DEF LeftToShow
<1> QED
  BY <1>3, <1>4

(* The sale of a reservation, charged to the mechanic or not.               *)
LEMMA FulfillmentStep ==
  ASSUME TradeInv, NEW r \in ReservationIds, NEW id \in RequestIds, NEW c, NEW n,
         NEW paid \in 0 .. MaxQty, FulfillReservation(r, id, c, n, paid)
  PROVE  TradeInv'
<1>1. PICK s : /\ SaleAdded(s) /\ s.key = r
               /\ \/ /\ s.due > 0 /\ s.party = NoParty
                     /\ RequestAdded(id, Buyer[r], "charge", s.due, r, "store")
                  \/ /\ ~ (s.due > 0 /\ s.party = NoParty)
                     /\ UNCHANGED tradeVars
  BY FulfillmentSale
<1>2. SaleKeysUnique' /\ DuesTyped' /\ ChargesFor(r) = {}
  BY <1>1, SaleMore
<1>3. \A t \in sales : t.key # r
  BY <1>1 DEF SaleAdded, Known
<1>4. sales' = sales \cup {s}
  BY <1>1 DEF SaleAdded
<1>5. r # NoReservation
  BY TradeAssumption
<1>6. CASE UNCHANGED tradeVars /\ ~ (s.due > 0 /\ s.party = NoParty)
  <2>1. requests' = requests
    BY <1>6 DEF tradeVars
  <2>2. ChargesHaveSale'
    BY <1>1, <2>1, SaleMore
  <2>3. ChargedOnce'
    BY <1>1, <1>2, <1>4, <1>6, <2>1 DEF TradeInv, ChargedOnce, ChargesFor
  <2>4. /\ RequestsTyped' /\ RequestKeysUnique'
        /\ (tradeBalance \in [Mechanics -> Int])'
        /\ ConfirmedFinite' /\ TradeBalanceConfirmed'
    BY <1>6, NoRequestNoBalance
  <2> QED
    BY <1>2, <2>2, <2>3, <2>4 DEF TradeInv
<1>7. CASE RequestAdded(id, Buyer[r], "charge", s.due, r, "store")
  <2> DEFINE q == Request(id, Buyer[r], "charge", s.due, r, "store")
  <2>1. /\ q.type = "charge" /\ q.reservation = r /\ q.amount = s.due
        /\ q.status = "pending"
    BY DEF Request
  <2>2. requests' = requests \cup {q}
    BY <1>7 DEF RequestAdded
  <2> HIDE DEF q
  <2>3. ChargesHaveSale'
    <3>1. ASSUME NEW x \in requests, x.type = "charge",
                 x.reservation # NoReservation
          PROVE  \E t \in sales' : t.key = x.reservation /\ x.amount <= t.due
      BY <3>1, <1>4 DEF TradeInv, ChargesHaveSale
    <3>2. s.due <= s.due
      BY <1>1 DEF SaleAdded
    <3>3. \E t \in sales' : t.key = q.reservation /\ q.amount <= t.due
      BY <1>1, <1>4, <2>1, <3>2
    <3> QED
      BY <2>2, <3>1, <3>3 DEF ChargesHaveSale
  <2>4. \A x : x # r => ChargesFor(x)' = ChargesFor(x)
    BY <2>1, <2>2 DEF ChargesFor
  <2>5. ChargesFor(r)' = {q}
    BY <1>2, <2>1, <2>2 DEF ChargesFor
  <2>6. ChargedOnce'
    <3>1. ASSUME NEW t \in sales, t.key \in ReservationIds
          PROVE  /\ \A q1, q2 \in ChargesFor(t.key)' : q1 = q2
                 /\ \A q1 \in ChargesFor(t.key)' : q1.amount <= t.due
                 /\ (t.party = NoParty /\ t.due > 0)
                      => \E q1 \in requests' : q1.reservation = t.key
      BY <3>1, <1>3, <2>2, <2>4 DEF TradeInv, ChargedOnce
    <3>2. s.due <= s.due
      BY <1>1 DEF SaleAdded
    <3>3. /\ \A q1, q2 \in ChargesFor(s.key)' : q1 = q2
          /\ \A q1 \in ChargesFor(s.key)' : q1.amount <= s.due
          /\ \E q1 \in requests' : q1.reservation = s.key
      BY <1>1, <2>1, <2>2, <2>5, <3>2
    <3> QED
      BY <3>1, <3>3, <1>4 DEF ChargedOnce
  <2>7. /\ RequestsTyped' /\ RequestKeysUnique'
        /\ (tradeBalance \in [Mechanics -> Int])'
        /\ ConfirmedFinite' /\ TradeBalanceConfirmed'
    BY <1>7, PendingChangesNoBalance
  <2> QED
    BY <1>2, <2>3, <2>6, <2>7 DEF TradeInv
<1> QED
  BY <1>1, <1>6, <1>7

(* A mechanic asks for the charge of its reservation.                       *)
LEMMA ChargeStep ==
  ASSUME TradeInv, NEW id \in RequestIds, NEW m \in Mechanics, NEW s \in sales,
         CreateReservationCharge(id, m, s)
  PROVE  TradeInv'
<1> DEFINE q == Request(id, m, "charge", s.due, s.key, "mechanic")
<1>1. sales' = sales /\ requests' = requests \cup {q}
  BY DEF CreateReservationCharge, documentVars
<1>2. s.key \in ReservationIds /\ ChargesFor(s.key) = {} /\ s.due \in Qty
  BY MaxQtyAssumption DEF CreateReservationCharge, TradeInv, DuesTyped, Qty
<1>3. RequestAdded(id, m, "charge", s.due, s.key, "mechanic")
  BY <1>2 DEF CreateReservationCharge, RequestAdded, DebitTypes, Sides
<1>4. /\ RequestsTyped' /\ RequestKeysUnique'
      /\ (tradeBalance \in [Mechanics -> Int])'
      /\ ConfirmedFinite' /\ TradeBalanceConfirmed'
  BY <1>3, PendingChangesNoBalance
<1>5. q.type = "charge" /\ q.reservation = s.key /\ q.amount = s.due
      /\ q.status = "pending"
  BY DEF Request
<1> HIDE DEF q
<1>6. s.due <= s.due
  BY <1>2, MaxQtyAssumption DEF Qty
<1>7. ChargesHaveSale'
  BY <1>1, <1>5, <1>6 DEF TradeInv, ChargesHaveSale
<1>8. SaleKeysUnique' /\ DuesTyped'
  BY <1>1 DEF TradeInv, SaleKeysUnique, DuesTyped
<1>9. ChargedOnce'
  <2>1. ChargesFor(s.key)' = {q}
    BY <1>1, <1>2, <1>5 DEF ChargesFor
  <2>2. \A x : x # s.key => ChargesFor(x)' = ChargesFor(x)
    BY <1>1, <1>5 DEF ChargesFor
  <2>3. ASSUME NEW t \in sales, t.key \in ReservationIds
        PROVE  /\ \A q1, q2 \in ChargesFor(t.key)' : q1 = q2
               /\ \A q1 \in ChargesFor(t.key)' : q1.amount <= t.due
               /\ (t.party = NoParty /\ t.due > 0)
                    => \E q1 \in requests' : q1.reservation = t.key
    <3>1. CASE t.key # s.key
      BY <2>3, <3>1, <1>1, <2>2 DEF TradeInv, ChargedOnce
    <3>2. CASE t.key = s.key
      <4>1. t = s
        BY <3>2 DEF TradeInv, SaleKeysUnique
      <4> QED
        BY <4>1, <1>1, <1>5, <1>6, <2>1
    <3> QED
      BY <3>1, <3>2
  <2> QED
    BY <2>3, <1>1 DEF ChargedOnce
<1> QED
  BY <1>4, <1>7, <1>8, <1>9 DEF TradeInv

(* A request that is about no reservation.                                  *)
LEMMA OtherRequestStep ==
  ASSUME TradeInv, NEW id, NEW m, NEW type, NEW amount, NEW side,
         RequestAdded(id, m, type, amount, NoReservation, side),
         sales' = sales
  PROVE  TradeInv'
<1> DEFINE q == Request(id, m, type, amount, NoReservation, side)
<1>1. requests' = requests \cup {q} /\ q.reservation = NoReservation
  BY DEF RequestAdded, Request
<1> HIDE DEF q
<1>2. \A r : r # NoReservation => ChargesFor(r)' = ChargesFor(r)
  BY <1>1 DEF ChargesFor
<1>3. \A r \in ReservationIds : r # NoReservation
  BY TradeAssumption
<1>4. ChargedOnce'
  BY <1>1, <1>2, <1>3 DEF TradeInv, ChargedOnce
<1>5. SaleKeysUnique' /\ DuesTyped' /\ ChargesHaveSale'
  BY <1>1 DEF TradeInv, SaleKeysUnique, DuesTyped, ChargesHaveSale
<1>6. /\ RequestsTyped' /\ RequestKeysUnique'
      /\ (tradeBalance \in [Mechanics -> Int])'
      /\ ConfirmedFinite' /\ TradeBalanceConfirmed'
  BY PendingChangesNoBalance
<1> QED
  BY <1>4, <1>5, <1>6 DEF TradeInv

(* A request is confirmed or rejected: a rejected charge frees its          *)
(* reservation, and nothing else changes about charges.                     *)
LEMMA ResolveStep ==
  ASSUME TradeInv, NEW q \in requests, NEW side, NEW confirm \in BOOLEAN,
         Resolve(q, side, confirm)
  PROVE  TradeInv'
<1> DEFINE status == IF confirm THEN "confirmed" ELSE "rejected"
           d == [q EXCEPT !.status = status]
<1>1. /\ sales' = sales /\ requests' = (requests \ {q}) \cup {d}
      /\ q.status = "pending"
  BY DEF Resolve, documentVars
<1>2. /\ d.type = q.type /\ d.reservation = q.reservation
      /\ d.amount = q.amount
  BY DEF TradeInv, RequestsTyped
<1> HIDE DEF d
<1>3. SaleKeysUnique' /\ DuesTyped' /\ ChargesHaveSale'
  BY <1>1, <1>2 DEF TradeInv, SaleKeysUnique, DuesTyped, ChargesHaveSale
<1>4. ASSUME NEW s \in sales, s.key \in ReservationIds
      PROVE  /\ \A q1, q2 \in ChargesFor(s.key)' : q1 = q2
             /\ \A q1 \in ChargesFor(s.key)' : q1.amount <= s.due
             /\ (s.party = NoParty /\ s.due > 0)
                  => \E q1 \in requests' : q1.reservation = s.key
  <2>1. /\ \A q1, q2 \in ChargesFor(s.key) : q1 = q2
        /\ \A q1 \in ChargesFor(s.key) : q1.amount <= s.due
        /\ (s.party = NoParty /\ s.due > 0)
             => \E q1 \in requests : q1.reservation = s.key
    BY <1>4 DEF TradeInv, ChargedOnce
  <2>2. \A x \in ChargesFor(s.key)' :
          (x \in ChargesFor(s.key) /\ x # q) \/ (x = d /\ q \in ChargesFor(s.key))
    BY <1>1, <1>2 DEF ChargesFor
  <2>3. \A q1, q2 \in ChargesFor(s.key)' : q1 = q2
    BY <2>1, <2>2
  <2>4. \A q1 \in ChargesFor(s.key)' : q1.amount <= s.due
    BY <1>2, <2>1, <2>2
  <2>5. (s.party = NoParty /\ s.due > 0)
          => \E q1 \in requests' : q1.reservation = s.key
    BY <1>1, <1>2, <2>1
  <2> QED
    BY <2>3, <2>4, <2>5
<1>5. ChargedOnce'
  BY <1>1, <1>4 DEF ChargedOnce
<1>6. /\ RequestsTyped' /\ RequestKeysUnique'
      /\ (tradeBalance \in [Mechanics -> Int])'
      /\ ConfirmedFinite' /\ TradeBalanceConfirmed'
  BY ResolveMovesBalance
<1> QED
  BY <1>3, <1>5, <1>6 DEF TradeInv

(* Every step of the store preserves the invariant of its trade accounts.   *)
LEMMA TradeInvStep ==
  ASSUME TradeInv, [Next]_vars
  PROVE  TradeInv'
<1>1. ASSUME UNCHANGED tradeVars,
             \/ sales' = sales
             \/ \E s : SaleAdded(s) /\ s.key \in SaleKeys
      PROVE  TradeInv'
  BY <1>1, CounterStep, NoRequestNoBalance DEF TradeInv, LeftToShow
<1>2. CASE LedgerNext /\ UNCHANGED <<checkVars, tradeVars>>
  BY <1>1, <1>2, CounterSales
<1>3. CASE ChecksNext /\ UNCHANGED tradeVars
  BY <1>1, <1>3, ChequeSales
<1>4. CASE TradeNext
  <2>1. ASSUME NEW r \in ReservationIds, NEW id \in RequestIds,
               NEW c \in Customers \cup {NoParty}, NEW n \in 1 .. MaxUnits,
               NEW paid \in 0 .. MaxQty, FulfillReservation(r, id, c, n, paid)
        PROVE  TradeInv'
    BY <2>1, FulfillmentStep
  <2>2. ASSUME NEW id \in RequestIds, NEW m \in Mechanics, NEW s \in sales,
               CreateReservationCharge(id, m, s)
        PROVE  TradeInv'
    BY <2>2, ChargeStep
  <2>3. ASSUME NEW id \in RequestIds, NEW m \in Mechanics, NEW amount \in Qty,
               CreateMechanicPayment(id, m, amount)
        PROVE  TradeInv'
    <3>1. /\ RequestAdded(id, m, "payment", amount, NoReservation, "mechanic")
          /\ sales' = sales
      BY <2>3 DEF CreateMechanicPayment, RequestAdded, documentVars, CreditTypes, Sides
    <3> QED
      BY <3>1, OtherRequestStep
  <2>4. ASSUME NEW id \in RequestIds, NEW m \in Mechanics,
               NEW type \in RequestTypes, NEW amount \in Qty,
               CreateStoreRequest(id, m, type, amount)
        PROVE  TradeInv'
    <3>1. type \in DebitTypes \cup CreditTypes
      BY <2>4, TradeAssumption
    <3>2. /\ RequestAdded(id, m, type, amount, NoReservation, "store")
          /\ sales' = sales
      BY <2>4, <3>1 DEF CreateStoreRequest, RequestAdded, documentVars, Sides
    <3> QED
      BY <3>2, OtherRequestStep
  <2>5. ASSUME NEW q \in requests, NEW side \in Sides, NEW confirm \in BOOLEAN,
               Resolve(q, side, confirm)
        PROVE  TradeInv'
    BY <2>5, ResolveStep
  <2> QED
    BY <1>4, <2>1, <2>2, <2>3, <2>4, <2>5 DEF TradeNext
<1>5. CASE UNCHANGED vars
  BY <1>1, <1>5 DEF vars, documentVars, tradeVars
<1> QED
  BY <1>2, <1>3, <1>4, <1>5 DEF Next

(* A store begins without requests and without balances.                    *)
LEMMA TradeInvInit ==
  ASSUME Init
  PROVE  TradeInv
<1>1. /\ requests = {} /\ sales = {}
      /\ tradeBalance = [m \in Mechanics |-> 0]
  BY DEF Init, LedgerInit, TradeInit
<1>2. \A m, types : RequestsOf(m, types) = {}
  BY <1>1 DEF RequestsOf
<1>3. \A m : Total({}, m) = 0
  BY TotalEmpty
<1>4. IsFiniteSet({})
  BY FS_EmptySet
<1>5. ConfirmedFinite /\ TradeBalanceConfirmed
  BY <1>1, <1>2, <1>3, <1>4 DEF ConfirmedFinite, TradeBalanceConfirmed
<1>6. /\ RequestsTyped /\ RequestKeysUnique /\ SaleKeysUnique /\ DuesTyped
      /\ ChargesHaveSale /\ ChargedOnce
  BY <1>1 DEF RequestsTyped, RequestKeysUnique, SaleKeysUnique, DuesTyped,
              ChargesHaveSale, ChargedOnce
<1> QED
  BY <1>1, <1>5, <1>6 DEF TradeInv

LEMMA TradeInvAlways == Spec => []TradeInv
<1>1. Init => TradeInv
  BY TradeInvInit
<1>2. TradeInv /\ [Next]_vars => TradeInv'
  BY TradeInvStep
<1> QED
  BY <1>1, <1>2, PTL DEF Spec

(* The balance of a mechanic is what was confirmed, each request once,      *)
(* whatever requests and answers of the two sides interleave                *)
(* (tradeaccount/service.go, Resolve).                                      *)
THEOREM TradeBalanceIsConfirmed == Spec => []TradeBalanceConfirmed
<1>1. TradeInv => TradeBalanceConfirmed
  BY DEF TradeInv
<1> QED
  BY <1>1, TradeInvAlways, PTL

(* However many charges the store and the mechanic ask for, one stands for  *)
(* a reservation at most, for no more than was left due on its sale, and a  *)
(* sale on nobody's account was asked of the mechanic                       *)
(* (sales/reservation_fulfillment.go, FulfillReservation).                  *)
THEOREM ReservationsChargedOnce == Spec => []ChargedOnce
<1>1. TradeInv => ChargedOnce
  BY DEF TradeInv
<1> QED
  BY <1>1, TradeInvAlways, PTL

-----------------------------------------------------------------------------
(* Cheques *)

ChecksTyped ==
  checks \subseteq
    [key : CheckKeys, party : Parties, amount : Qty,
     bank : BankAccounts \cup {NoBank}, endorsee : Suppliers \cup {NoParty},
     direction : {"receivable", "payable"}, status : Statuses]

ChecksInv == ChecksTyped /\ ChequeMetadata

\* What a transition makes of a cheque.
SoundCheck(d) ==
  /\ d \in [key : CheckKeys, party : Parties, amount : Qty,
            bank : BankAccounts \cup {NoBank}, endorsee : Suppliers \cup {NoParty},
            direction : {"receivable", "payable"}, status : Statuses]
  /\ d.status \in {"deposited", "cleared"} => d.bank # NoBank
  /\ d.status = "endorsed" <=> d.endorsee # NoParty

(* Every transition makes a sound cheque of a sound one.                    *)
LEMMA TransitionsAreSound ==
  ASSUME NEW k, NEW role, NEW c \in checks, SoundCheck(c), TransitionCheck(k, role, c)
  PROVE  \E action, d : Becomes(k, c, action, d) /\ SoundCheck(d)
<1> USE DEF SoundCheck, Statuses
<1>1. ASSUME NEW b \in BankAccounts \cup {NoBank}, Deposit(k, c, b)
      PROVE  \E action, d : Becomes(k, c, action, d) /\ SoundCheck(d)
  <2> DEFINE d == [c EXCEPT !.status = "deposited", !.bank = BankOf(c, b)]
  <2>1. Becomes(k, c, "deposit", d)
    BY <1>1 DEF Deposit
  <2>2. SoundCheck(d)
    BY <1>1 DEF Deposit, BankOf
  <2> QED
    BY <2>1, <2>2
<1>2. ASSUME NEW b \in BankAccounts \cup {NoBank}, Clear(k, c, b)
      PROVE  \E action, d : Becomes(k, c, action, d) /\ SoundCheck(d)
  <2> DEFINE d == [c EXCEPT !.status = "cleared", !.bank = BankOf(c, b)]
  <2>1. Becomes(k, c, "clear", d)
    BY <1>2 DEF Clear
  <2>2. SoundCheck(d)
    BY <1>2 DEF Clear, BankOf, InHand
  <2> QED
    BY <2>1, <2>2
<1>3. ASSUME Bounce(k, c)
      PROVE  \E action, d : Becomes(k, c, action, d) /\ SoundCheck(d)
  <2> DEFINE d == [c EXCEPT !.status = "bounced"]
  <2>1. Becomes(k, c, "bounce", d)
    BY <1>3 DEF Bounce
  <2>2. SoundCheck(d)
    BY <1>3 DEF Bounce, InHand
  <2> QED
    BY <2>1, <2>2
<1>4. ASSUME NEW s \in Suppliers, Endorse(k, c, s)
      PROVE  \E action, d : Becomes(k, c, action, d) /\ SoundCheck(d)
  <2> DEFINE d == [c EXCEPT !.status = "endorsed", !.endorsee = s]
  <2>1. Becomes(k, c, "endorse", d)
    BY <1>4 DEF Endorse
  <2>2. SoundCheck(d)
    BY PartyAssumption
  <2> QED
    BY <2>1, <2>2
<1>5. ASSUME ReturnEndorsement(k, c)
      PROVE  \E action, d : Becomes(k, c, action, d) /\ SoundCheck(d)
  <2> DEFINE d == [c EXCEPT !.status = "returned", !.endorsee = NoParty]
  <2>1. Becomes(k, c, "return_endorsement", d)
    BY <1>5 DEF ReturnEndorsement
  <2>2. SoundCheck(d)
    OBVIOUS
  <2> QED
    BY <2>1, <2>2
<1>6. ASSUME CancelReceivable(k, c)
      PROVE  \E action, d : Becomes(k, c, action, d) /\ SoundCheck(d)
  <2> DEFINE d == [c EXCEPT !.status = "cancelled"]
  <2>1. Becomes(k, c, "cancel", d)
    BY <1>6 DEF CancelReceivable
  <2>2. SoundCheck(d)
    BY <1>6 DEF CancelReceivable
  <2> QED
    BY <2>1, <2>2
<1>7. ASSUME NEW action \in {"return", "cancel"}, TakeBackPayable(k, c, action)
      PROVE  \E act, d : Becomes(k, c, act, d) /\ SoundCheck(d)
  <2> DEFINE d == [c EXCEPT !.status = IF action = "cancel" THEN "cancelled"
                                       ELSE "returned"]
  <2>1. Becomes(k, c, action, d)
    BY <1>7 DEF TakeBackPayable
  <2>2. SoundCheck(d)
    BY <1>7 DEF TakeBackPayable
  <2> QED
    BY <2>1, <2>2
<1> QED
  BY <1>1, <1>2, <1>3, <1>4, <1>5, <1>6, <1>7 DEF TransitionCheck

(* Cheques are sound after every step of the store.                         *)
LEMMA ChecksInvStep ==
  ASSUME ChecksInv, [Next]_vars
  PROVE  ChecksInv'
<1>1. CASE checks' = checks
  BY <1>1 DEF ChecksInv, ChecksTyped, ChequeMetadata
<1>2. ASSUME NEW k \in CheckKeys, NEW p \in Parties, NEW amount \in Qty,
             CreateCheck(k, p, amount)
      PROVE  ChecksInv'
  <2> DEFINE d == [key |-> k, party |-> p, amount |-> amount, bank |-> NoBank,
                   endorsee |-> NoParty,
                   direction |-> IF p \in Customers THEN "receivable"
                                 ELSE "payable",
                   status |-> IF p \in Customers THEN "held" ELSE "issued"]
  <2>1. checks' = checks \cup {d}
    BY <1>2 DEF CreateCheck
  <2>2. SoundCheck(d)
    BY <1>2 DEF SoundCheck, Statuses
  <2> HIDE DEF d
  <2> QED
    BY <2>1, <2>2 DEF ChecksInv, ChecksTyped, ChequeMetadata, SoundCheck
<1>3. ASSUME NEW k \in TransitionKeys, NEW role \in Roles, NEW c \in checks,
             TransitionCheck(k, role, c)
      PROVE  ChecksInv'
  <2>1. SoundCheck(c)
    BY DEF ChecksInv, ChecksTyped, ChequeMetadata, SoundCheck
  <2>2. PICK action, d : Becomes(k, c, action, d) /\ SoundCheck(d)
    BY <1>3, <2>1, TransitionsAreSound
  <2>3. checks' = (checks \ {c}) \cup {d}
    BY <2>2 DEF Becomes
  <2> QED
    BY <2>2, <2>3 DEF ChecksInv, ChecksTyped, ChequeMetadata, SoundCheck
<1> QED
  BY <1>1, <1>2, <1>3 DEF Next, ChecksNext, vars, checkVars

(* A deposited or cleared cheque names its bank account, and exactly an     *)
(* endorsed one its supplier, after any history of transitions: the gate    *)
(* ops/rc-db-check.sh:105 never finds a violation.                          *)
THEOREM ChequesKeepMetadata == Spec => []ChequeMetadata
<1>1. Init => ChecksInv
  BY DEF Init, ChecksInit, ChecksInv, ChecksTyped, ChequeMetadata
<1>2. ChecksInv /\ [Next]_vars => ChecksInv'
  BY ChecksInvStep
<1>3. ChecksInv => ChequeMetadata
  BY DEF ChecksInv
<1> QED
  BY <1>1, <1>2, <1>3, PTL DEF Spec

(* Whatever statuses a cheque passes through, a transition requested under  *)
(* one key is carried out once (finance/checks.go, TransitionCheck).        *)
THEOREM TransitionsActOnce == Spec => []RequestsActOnce
<1>1. Init => RequestsActOnce
  BY DEF Init, ChecksInit, RequestsActOnce
<1>2. ASSUME RequestsActOnce, [Next]_vars
      PROVE  RequestsActOnce'
  <2>1. CASE checkEvents' = checkEvents
    BY <1>2, <2>1 DEF RequestsActOnce
  <2>2. ASSUME NEW k \in TransitionKeys, NEW role \in Roles, NEW c \in checks,
               TransitionCheck(k, role, c)
        PROVE  RequestsActOnce'
    <3>1. ~ Known(checkEvents, k)
      BY <2>2 DEF TransitionCheck, MayTransition
    <3>2. \E action, d : Becomes(k, c, action, d)
      BY <2>2 DEF TransitionCheck, Deposit, Clear, Bounce, Endorse,
                  ReturnEndorsement, CancelReceivable, TakeBackPayable
    <3>3. \E e : e.key = k /\ checkEvents' = checkEvents \cup {e}
      BY <3>2 DEF Becomes
    <3> QED
      BY <1>2, <3>1, <3>3 DEF RequestsActOnce, Known
  <2>3. ASSUME NEW k, NEW p, NEW amount, CreateCheck(k, p, amount)
        PROVE  checkEvents' = checkEvents
    BY <2>3 DEF CreateCheck
  <2> QED
    BY <1>2, <2>1, <2>2, <2>3 DEF Next, ChecksNext, vars, checkVars
<1> QED
  BY <1>1, <1>2, PTL DEF Spec
=============================================================================
