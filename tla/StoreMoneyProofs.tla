-------------------------- MODULE StoreMoneyProofs --------------------------
(***************************************************************************)
(* Proofs about StoreBooks: the balances of the parties, the two ledgers,  *)
(* the cheques and the returns, for any number of parties, documents,      *)
(* cheques and accounts.  The invariant of the money, MoneyInv, is carried *)
(* next to TradeInv and ChecksInv of StoreBooksProofs.                     *)
(***************************************************************************)
EXTENDS StoreBooksProofs

-----------------------------------------------------------------------------
(* What the documents of a table add up to *)

\* The sum of a field over the documents of one party, or source.
FieldSum(docs, who, what, p) == Total(Lines(docs, who, what), p)
Part(d, who, what, p) == IF d[who] = p THEN d[what] ELSE 0

(* Finitely many documents have finitely many lines.                        *)
LEMMA LinesFinite ==
  ASSUME NEW docs, IsFiniteSet(docs), NEW who, NEW what
  PROVE  /\ IsFiniteSet(Lines(docs, who, what))
         /\ \A p : FieldSum(docs, who, what, p) \in Nat
<1> DEFINE D == {e \in docs : e[what] > 0}
           line == [d \in D |-> [doc |-> d, row |-> d[who], qty |-> d[what]]]
<1>1. IsFiniteSet(D)
  BY FS_Subset
<1>2. line \in Surjection(D, Lines(docs, who, what))
  <2>1. line \in [D -> Lines(docs, who, what)]
    BY DEF Lines
  <2>2. \A t \in Lines(docs, who, what) : \E d \in D : line[d] = t
    BY DEF Lines
  <2> QED
    BY <2>1, <2>2 DEF Surjection
<1>3. IsFiniteSet(Lines(docs, who, what))
  <2> HIDE DEF D, line
  <2> QED
    BY <1>1, <1>2, FS_Surjection
<1> QED
  BY <1>3, TotalType DEF FieldSum

(* A document more adds its part.                                           *)
LEMMA SumMore ==
  ASSUME NEW docs, IsFiniteSet(docs), NEW d, d \notin docs, NEW who, NEW what,
         d[what] \in 0 .. MaxQty, NEW p
  PROVE  FieldSum(docs \cup {d}, who, what, p)
           = FieldSum(docs, who, what, p) + Part(d, who, what, p)
<1> DEFINE T == Lines(docs, who, what)
           t == [doc |-> d, row |-> d[who], qty |-> d[what]]
<1>1. IsFiniteSet(T) /\ FieldSum(docs, who, what, p) \in Nat
  BY LinesFinite
<1>2. CASE d[what] = 0
  <2>1. Lines(docs \cup {d}, who, what) = T
    BY <1>2 DEF Lines
  <2>2. Part(d, who, what, p) = 0
    BY <1>2 DEF Part
  <2> QED
    BY <1>1, <2>1, <2>2 DEF FieldSum
<1>3. CASE d[what] # 0
  <2>1. d[what] \in Qty /\ d[what] > 0
    BY <1>3, MaxQtyAssumption DEF Qty
  <2>2. Lines(docs \cup {d}, who, what) = T \cup {t}
    BY <2>1 DEF Lines
  <2>3. t.doc = d /\ t.row = d[who] /\ t.qty = d[what]
    OBVIOUS
  <2>4. t \notin T
    BY <2>3 DEF Lines
  <2>5. t.qty \in Qty
    BY <2>1, <2>3
  <2> HIDE DEF T, t
  <2>6. Total(T \cup {t}, p) = Total(T, p) + (IF t.row = p THEN t.qty ELSE 0)
    BY <1>1, <2>4, <2>5, TotalAdd
  <2> QED
    BY <2>2, <2>3, <2>6 DEF FieldSum, Part, T
<1> QED
  BY <1>2, <1>3

(* Of a set of cheques c leaves and d joins, where they were and are in it. *)
LEMMA SumSwap ==
  ASSUME NEW F, IsFiniteSet(F), NEW G, NEW c, NEW d, d \notin F \ {c},
         F \ {c} \subseteq G, G \subseteq (F \ {c}) \cup {d}, NEW who, NEW what,
         c[what] \in 0 .. MaxQty, d[what] \in 0 .. MaxQty, NEW p
  PROVE  FieldSum(G, who, what, p)
           = FieldSum(F, who, what, p)
               - (IF c \in F THEN Part(c, who, what, p) ELSE 0)
               + (IF d \in G THEN Part(d, who, what, p) ELSE 0)
<1> DEFINE R == F \ {c}
<1>1. IsFiniteSet(R) /\ c \notin R /\ d \notin R
  BY FS_RemoveElement
<1>2. FieldSum(R, who, what, p) \in Nat
  BY <1>1, LinesFinite
<1>3. FieldSum(F, who, what, p)
        = FieldSum(R, who, what, p) + (IF c \in F THEN Part(c, who, what, p) ELSE 0)
  <2>1. CASE c \in F
    <3>1. F = R \cup {c}
      BY <2>1
    <3>2. FieldSum(R \cup {c}, who, what, p)
            = FieldSum(R, who, what, p) + Part(c, who, what, p)
      BY <1>1, SumMore
    <3> QED
      BY <2>1, <3>1, <3>2
  <2>2. CASE c \notin F
    BY <1>2, <2>2
  <2> QED
    BY <2>1, <2>2
<1>4. FieldSum(G, who, what, p)
        = FieldSum(R, who, what, p) + (IF d \in G THEN Part(d, who, what, p) ELSE 0)
  <2>1. CASE d \in G
    <3>1. G = R \cup {d}
      BY <2>1
    <3>2. FieldSum(R \cup {d}, who, what, p)
            = FieldSum(R, who, what, p) + Part(d, who, what, p)
      BY <1>1, SumMore
    <3> QED
      BY <2>1, <3>1, <3>2
  <2>2. CASE d \notin G
    <3>1. G = R
      BY <2>2
    <3> QED
      BY <1>2, <2>2, <3>1
  <2> QED
    BY <2>1, <2>2
<1>5. Part(c, who, what, p) \in Int /\ Part(d, who, what, p) \in Int
  BY MaxQtyAssumption DEF Part
<1> HIDE DEF R
<1> QED
  BY <1>2, <1>3, <1>4, <1>5

(* Documents of which there are none add up to nothing.                     *)
LEMMA SumNone ==
  ASSUME NEW who, NEW what, NEW p
  PROVE  FieldSum({}, who, what, p) = 0
<1>1. Lines({}, who, what) = {}
  BY DEF Lines
<1> QED
  BY <1>1, TotalEmpty DEF FieldSum

-----------------------------------------------------------------------------
(* The invariant of the books *)

LedgersTyped ==
  /\ accounts \in [Accounts -> Int]
  /\ owed \in [Parties -> Int]
  /\ sales \subseteq [key : SaleKeys \cup ReservationIds,
                      party : Customers \cup {NoParty}, units : 1 .. MaxUnits,
                      total : Qty, due : 0 .. MaxQty]
  /\ purchases \subseteq [key : PurchaseKeys, party : Suppliers,
                          units : 1 .. MaxUnits, cost : Qty, due : 0 .. MaxQty]
  /\ saleReturns \subseteq
       [key : SaleReturnKeys, source : SaleKeys \cup ReservationIds,
        party : Customers \cup {NoParty}, units : 1 .. MaxUnits, amount : Qty,
        method : RefundMethods]
  /\ purchaseReturns \subseteq
       [key : PurchaseReturnKeys, source : PurchaseKeys, party : Suppliers,
        units : 1 .. MaxUnits, amount : Qty, method : RefundMethods]
  /\ settlements \subseteq [key : SettlementKeys, party : Parties, amount : Qty]

EventsTyped ==
  checkEvents \subseteq
    [key : TransitionKeys, check : CheckKeys, from : Statuses, to : Statuses,
     action : {"deposit", "clear", "bounce", "endorse", "return_endorsement",
               "cancel", "return"}]

TablesFinite ==
  /\ IsFiniteSet(sales) /\ IsFiniteSet(purchases)
  /\ IsFiniteSet(saleReturns) /\ IsFiniteSet(purchaseReturns)
  /\ IsFiniteSet(settlements) /\ IsFiniteSet(checks)

\* No purchase is worth more than the largest amount.
PurchasesInBounds == \A p \in purchases : p.units * p.cost <= MaxQty

\* A cheque is one row, and a receivable one is a customer's.
CheckKeysUnique == \A c, d \in checks : c.key = d.key => c = d
DirectionFollowsParty ==
  \A c \in checks : c.direction = "receivable" <=> c.party \in Customers

\* No more units come back than were sold, each to the sale it came from.
ReturnsHaveSale == \A t \in saleReturns : \E s \in sales : s.key = t.source
UnitsWithin == \A s \in sales : UnitsBack(saleReturns, s) <= s.units

Reconciled ==
  /\ Summable(owed, Customers) /\ Summable(owed, Suppliers)
  /\ LedgersReconcile

TablesInv ==
  /\ LedgersTyped /\ EventsTyped /\ TablesFinite
  /\ PurchasesInBounds /\ CheckKeysUnique /\ DirectionFollowsParty

MoneyInv ==
  /\ TablesInv
  /\ DebtsFollowDocuments /\ Reconciled /\ ChequePortfolio /\ NobodyOverpays
  /\ ReturnsHaveSale /\ UnitsWithin /\ WholeReturnsAddUp

-----------------------------------------------------------------------------
(* The steps, by what they write *)

SaleBooked(k, c, n, total, paid) ==
  /\ PostSale(k, c, n, total, paid)
  /\ UNCHANGED <<purchases, saleReturns, purchaseReturns, settlements, checkVars>>

(* Every step posts one document, moves one cheque, or leaves the books.    *)
LEMMA StepShapes ==
  ASSUME [Next]_vars
  PROVE  \/ \E k \in SaleKeys \cup ReservationIds, c \in Customers \cup {NoParty},
               n \in 1 .. MaxUnits, total \in Qty, paid \in 0 .. MaxQty :
              SaleBooked(k, c, n, total, paid)
         \/ \E k \in PurchaseKeys, s \in Suppliers, n \in 1 .. MaxUnits,
               cost \in Qty, paid \in 0 .. MaxQty :
              /\ n * cost <= MaxQty /\ CreatePurchase(k, s, n, cost, paid)
              /\ UNCHANGED checkVars
         \/ \E k \in SaleReturnKeys, s \in sales, q \in 1 .. MaxUnits,
               method \in RefundMethods :
              CreateSaleReturn(k, s, q, method) /\ UNCHANGED checkVars
         \/ \E k \in PurchaseReturnKeys, p \in purchases, q \in 1 .. MaxUnits,
               method \in RefundMethods :
              CreatePurchaseReturn(k, p, q, method) /\ UNCHANGED checkVars
         \/ \E k \in SettlementKeys, p \in Parties, amount \in Qty :
              CreateSettlement(k, p, amount) /\ UNCHANGED checkVars
         \/ \E k \in CheckKeys, p \in Parties, amount \in Qty :
              CreateCheck(k, p, amount)
         \/ \E k \in TransitionKeys, role \in Roles, c \in checks :
              TransitionCheck(k, role, c)
         \/ UNCHANGED <<bookVars, documentVars, checkVars>>
<1>1. ASSUME NEW k \in SaleKeys, NEW c \in Customers \cup {NoParty},
             NEW n \in 1 .. MaxUnits, NEW total \in Qty, NEW paid \in 0 .. MaxQty,
             CreateSale(k, c, n, total, paid), UNCHANGED checkVars
      PROVE  SaleBooked(k, c, n, total, paid)
  BY <1>1 DEF CreateSale, SaleBooked
<1>2. ASSUME NEW r \in ReservationIds, NEW id, NEW c \in Customers \cup {NoParty},
             NEW n \in 1 .. MaxUnits, NEW paid \in 0 .. MaxQty,
             FulfillReservation(r, id, c, n, paid), UNCHANGED checkVars
      PROVE  SaleBooked(r, c, n, Price[r], paid) /\ Price[r] \in Qty
  BY <1>2, TradeAssumption DEF FulfillReservation, SaleBooked
<1>3. CASE LedgerNext /\ UNCHANGED <<checkVars, tradeVars>>
  <2>1. UNCHANGED checkVars
    BY <1>3
  <2> QED
    BY <1>1, <1>3, <2>1 DEF LedgerNext
<1>4. CASE ChecksNext
  BY <1>4 DEF ChecksNext
<1>5. CASE TradeNext /\ UNCHANGED checkVars
  <2>1. ASSUME NEW id, NEW m, NEW s, CreateReservationCharge(id, m, s)
        PROVE  UNCHANGED <<bookVars, documentVars>>
    BY <2>1 DEF CreateReservationCharge
  <2>2. ASSUME NEW id, NEW m, NEW amount, CreateMechanicPayment(id, m, amount)
        PROVE  UNCHANGED <<bookVars, documentVars>>
    BY <2>2 DEF CreateMechanicPayment
  <2>3. ASSUME NEW id, NEW m, NEW type, NEW amount,
               CreateStoreRequest(id, m, type, amount)
        PROVE  UNCHANGED <<bookVars, documentVars>>
    BY <2>3 DEF CreateStoreRequest
  <2>4. ASSUME NEW q, NEW side, NEW confirm, Resolve(q, side, confirm)
        PROVE  UNCHANGED <<bookVars, documentVars>>
    BY <2>4 DEF Resolve
  <2>5. CASE \E r \in ReservationIds, id \in RequestIds,
               c \in Customers \cup {NoParty}, n \in 1 .. MaxUnits,
               paid \in 0 .. MaxQty : FulfillReservation(r, id, c, n, paid)
    <3>1. PICK r \in ReservationIds, id \in RequestIds,
               c \in Customers \cup {NoParty}, n \in 1 .. MaxUnits,
               paid \in 0 .. MaxQty : FulfillReservation(r, id, c, n, paid)
      BY <2>5
    <3>2. SaleBooked(r, c, n, Price[r], paid) /\ Price[r] \in Qty
      BY <1>2, <1>5, <3>1
    <3>3. r \in SaleKeys \cup ReservationIds
      OBVIOUS
    <3> QED
      BY <3>2, <3>3
  <2>6. CASE UNCHANGED <<bookVars, documentVars>>
    BY <1>5, <2>6
  <2> QED
    BY <1>5, <2>1, <2>2, <2>3, <2>4, <2>5, <2>6 DEF TradeNext
<1>6. CASE UNCHANGED vars
  BY <1>6 DEF vars
<1> QED
  BY <1>3, <1>4, <1>5, <1>6 DEF Next

-----------------------------------------------------------------------------
(* What a step does to the accounts and to the debts *)

(* An entry in the party ledger moves the debt of its party alone.          *)
LEMMA OweMoves ==
  ASSUME owed \in [Parties -> Int], NEW p, NEW a \in Int, Owe(p, a)
  PROVE  /\ owed' \in [Parties -> Int]
         /\ \A q \in Parties : owed'[q] = owed[q] + (IF q = p THEN a ELSE 0)
  BY DEF Owe

(* A journal moves the accounts it names, each by its amount.               *)
LEMMA PostMoves ==
  ASSUME accounts \in [Accounts -> Int], NEW moves,
         \A a \in DOMAIN moves : moves[a] \in Int, Post(moves)
  PROVE  /\ accounts' \in [Accounts -> Int]
         /\ \A a \in Accounts :
              accounts'[a] = accounts[a]
                               + (IF a \in DOMAIN moves THEN moves[a] ELSE 0)
  BY DEF Post

(* A settlement is a transfer to or from the account of the debts.          *)
LEMMA SettlingMoves ==
  ASSUME accounts \in [Accounts -> Int], NEW p \in Parties, NEW amount \in Int,
         NEW money \in Accounts \ {"AR", "AP"}, Settling(p, money, amount)
  PROVE  /\ accounts' \in [Accounts -> Int]
         /\ \A a \in Accounts :
              accounts'[a] =
                accounts[a]
                  + (IF p \in Customers
                     THEN IF a = money THEN amount
                          ELSE IF a = "AR" THEN 0 - amount ELSE 0
                     ELSE IF a = money THEN 0 - amount
                          ELSE IF a = "AP" THEN amount ELSE 0)
<1>1. CASE p \in Customers
  <2> DEFINE moves == [a \in {money, "AR"} |-> IF a = money THEN amount ELSE 0 - amount]
  <2>1. Post(moves)
    BY <1>1 DEF Settling
  <2>2. \A a \in DOMAIN moves : moves[a] \in Int
    OBVIOUS
  <2>3. /\ accounts' \in [Accounts -> Int]
        /\ \A a \in Accounts :
             accounts'[a] = accounts[a] + (IF a \in DOMAIN moves THEN moves[a] ELSE 0)
    <3> HIDE DEF moves
    <3> QED
      BY <2>1, <2>2, PostMoves
  <2> QED
    BY <1>1, <2>3
<1>2. CASE p \notin Customers
  <2> DEFINE moves == [a \in {money, "AP"} |-> IF a = money THEN 0 - amount ELSE amount]
  <2>1. Post(moves)
    BY <1>2 DEF Settling
  <2>2. \A a \in DOMAIN moves : moves[a] \in Int
    OBVIOUS
  <2>3. /\ accounts' \in [Accounts -> Int]
        /\ \A a \in Accounts :
             accounts'[a] = accounts[a] + (IF a \in DOMAIN moves THEN moves[a] ELSE 0)
    <3> HIDE DEF moves
    <3> QED
      BY <2>1, <2>2, PostMoves
  <2> QED
    BY <1>2, <2>3
<1> QED
  BY <1>1, <1>2

(* When what p owes and the account of its debts move together, the        *)
(* ledgers stay reconciled; x is what a sale leaves due without a customer. *)
LEMMA ReconcileMoves ==
  ASSUME Reconciled, LedgersTyped, NEW p, NEW a \in Int, Owe(p, a), NEW x \in Int,
         Due(sales, NoParty) \in Int,
         Due(sales, NoParty)' = Due(sales, NoParty) + x,
         accounts'["AR"] = accounts["AR"] + (IF p \in Customers THEN a ELSE 0) + x,
         accounts'["AP"] = accounts["AP"] - (IF p \in Suppliers THEN a ELSE 0)
  PROVE  Reconciled'
<1>1. \A q \in Parties : owed[q] \in Int /\ owed'[q] = owed[q] + (IF q = p THEN a ELSE 0)
  BY OweMoves DEF LedgersTyped
<1>2. Customers \subseteq Parties /\ Suppliers \subseteq Parties
  BY DEF Parties
<1>3. Summable(owed, Customers) /\ Summable(owed, Suppliers)
  BY DEF Reconciled
<1>4. ASSUME NEW S \in SUBSET Parties, Summable(owed, S)
      PROVE  /\ Summable(owed', S)
             /\ SumOf(owed', S) = SumOf(owed, S) + (IF p \in S THEN a ELSE 0)
             /\ SumOf(owed, S) \in Int
  <2>1. SumOf(owed, S) \in Int
    <3>1. /\ Cardinality(Heap(owed, S)) \in Nat
          /\ Cardinality(Heap([y \in S |-> 0 - owed[y]], S)) \in Nat
      BY <1>4, FS_CardinalityType DEF Summable
    <3> QED
      BY <3>1 DEF SumOf
  <2>2. CASE p \in S
    <3>1. owed[p] \in Int /\ owed'[p] = owed[p] + a
      BY <1>1, <2>2
    <3>2. \A y \in S \ {p} : owed'[y] = owed[y]
      BY <1>1
    <3>3. Summable(owed', S) /\ SumOf(owed', S) = SumOf(owed, S) + a
      BY <1>4, <2>2, <3>1, <3>2, SumMoves
    <3> QED
      BY <2>1, <2>2, <3>3
  <2>3. CASE p \notin S
    <3>1. \A y \in S : owed'[y] = owed[y]
      BY <1>1, <2>3
    <3>2. SumOf(owed', S) = SumOf(owed, S) /\ Summable(owed', S)
      BY <1>4, <3>1, SumStays
    <3> QED
      BY <2>1, <2>3, <3>2
  <2> QED
    BY <2>2, <2>3
<1>5. /\ Summable(owed', Customers) /\ Summable(owed', Suppliers)
      /\ SumOf(owed', Customers)
           = SumOf(owed, Customers) + (IF p \in Customers THEN a ELSE 0)
      /\ SumOf(owed', Suppliers)
           = SumOf(owed, Suppliers) + (IF p \in Suppliers THEN a ELSE 0)
      /\ SumOf(owed, Customers) \in Int /\ SumOf(owed, Suppliers) \in Int
  BY <1>2, <1>3, <1>4
<1>6. /\ accounts["AR"] = SumOf(owed, Customers) + Due(sales, NoParty)
      /\ accounts["AP"] = 0 - SumOf(owed, Suppliers)
  BY DEF Reconciled, LedgersReconcile
<1>7. /\ accounts'["AR"] = SumOf(owed', Customers) + Due(sales, NoParty)'
      /\ accounts'["AP"] = 0 - SumOf(owed', Suppliers)
  BY <1>5, <1>6
<1>8. /\ Summable(owed, Customers)' /\ Summable(owed, Suppliers)'
      /\ SumOf(owed, Customers)' = SumOf(owed', Customers)
      /\ SumOf(owed, Suppliers)' = SumOf(owed', Suppliers)
  BY <1>5 DEF Summable, SumOf, Heap
<1> QED
  BY <1>7, <1>8 DEF Reconciled, LedgersReconcile

(* When a party's documents and its balance move together, the balance      *)
(* still is what the documents say.                                         *)
LEMMA DebtMoves ==
  ASSUME DebtsFollowDocuments, LedgersTyped, NEW p, NEW a \in Int, Owe(p, a),
         \A q \in Parties : DebtOf(q)' = DebtOf(q) + (IF q = p THEN a ELSE 0)
  PROVE  DebtsFollowDocuments'
<1>1. \A q \in Parties : owed'[q] = owed[q] + (IF q = p THEN a ELSE 0)
  BY OweMoves DEF LedgersTyped
<1> QED
  BY <1>1 DEF DebtsFollowDocuments

\* What came back of a party's goods and was taken off its balance.
Back(p) == Amount(OnBalance(saleReturns), p) + Amount(OnBalance(purchaseReturns), p)

(* The sums over the tables are natural numbers.                            *)
LEMMA SumsAreNat ==
  ASSUME TablesFinite, NEW p
  PROVE  /\ Due(sales, p) \in Nat /\ Due(purchases, p) \in Nat
         /\ Amount(OnBalance(saleReturns), p) \in Nat
         /\ Amount(OnBalance(purchaseReturns), p) \in Nat
         /\ Amount(settlements, p) \in Nat /\ Amount(Standing(p), p) \in Nat
         /\ Total(Lines(EndorsedTo(p), "endorsee", "amount"), p) \in Nat
         /\ Back(p) \in Nat
<1>1. /\ IsFiniteSet(OnBalance(saleReturns)) /\ IsFiniteSet(OnBalance(purchaseReturns))
      /\ IsFiniteSet(Standing(p)) /\ IsFiniteSet(EndorsedTo(p))
  BY FS_Subset DEF TablesFinite, OnBalance, Standing, EndorsedTo
<1>2. ASSUME NEW docs, IsFiniteSet(docs), NEW who, NEW what
      PROVE  Total(Lines(docs, who, what), p) \in Nat
  BY <1>2, LinesFinite DEF FieldSum
<1>3. Back(p) \in Nat
  BY <1>1, <1>2 DEF Back, Amount
<1> QED
  BY <1>1, <1>2, <1>3 DEF TablesFinite, Due, Amount

(* Nobody overpays when a debt falls by no more than it is, or by what is   *)
(* returned.                                                                *)
LEMMA OverpaysMoves ==
  ASSUME NobodyOverpays, LedgersTyped, TablesFinite, TablesFinite',
         NEW p, NEW a \in Int, Owe(p, a), NEW r \in Nat,
         \A q \in Parties : Back(q)' = Back(q) + (IF q = p THEN r ELSE 0),
         p \in Parties => (a + r >= 0 \/ owed[p] + a >= 0)
  PROVE  NobodyOverpays'
<1>1. \A q \in Parties : owed[q] \in Int /\ owed'[q] = owed[q] + (IF q = p THEN a ELSE 0)
  BY OweMoves DEF LedgersTyped
<1>2. \A q \in Parties : Back(q) \in Nat /\ owed[q] + Back(q) >= 0
  <2>1. \A q \in Parties : /\ Amount(OnBalance(saleReturns), q) \in Nat
                           /\ Amount(OnBalance(purchaseReturns), q) \in Nat
    BY SumsAreNat
  <2> QED
    BY <1>1, <2>1 DEF NobodyOverpays, Back
<1>3. ASSUME NEW q \in Parties
      PROVE  owed'[q] + Back(q)' >= 0
  BY <1>1, <1>2
<1>4. \A q \in Parties : /\ Amount(OnBalance(saleReturns), q)' \in Nat
                         /\ Amount(OnBalance(purchaseReturns), q)' \in Nat
  <2>1. IsFiniteSet(OnBalance(saleReturns)') /\ IsFiniteSet(OnBalance(purchaseReturns)')
    BY FS_Subset DEF TablesFinite, OnBalance
  <2>2. ASSUME NEW docs, IsFiniteSet(docs), NEW q
        PROVE  Amount(docs, q) \in Nat
    BY <2>2, LinesFinite DEF FieldSum, Amount
  <2> QED
    BY <2>1, <2>2
<1>5. \A q \in Parties : owed'[q] \in Int
  BY <1>1
<1> QED
  BY <1>3, <1>4, <1>5 DEF NobodyOverpays, Back

(* The cheques and the accounts that hold them stay as they are.            *)
LEMMA PortfolioStays ==
  ASSUME ChequePortfolio, checks' = checks,
         accounts'["BANK"] = accounts["BANK"],
         accounts'["CHEQUES_RECEIVABLE"] = accounts["CHEQUES_RECEIVABLE"],
         accounts'["CHEQUES_PAYABLE"] = accounts["CHEQUES_PAYABLE"]
  PROVE  ChequePortfolio'
  BY DEF ChequePortfolio, ChequesIn

(* No sale is posted and nothing comes back of one.                         *)
LEMMA ReturnsStay ==
  ASSUME ReturnsHaveSale, UnitsWithin, WholeReturnsAddUp,
         sales' = sales, saleReturns' = saleReturns
  PROVE  ReturnsHaveSale' /\ UnitsWithin' /\ WholeReturnsAddUp'
  BY DEF ReturnsHaveSale, UnitsWithin, WholeReturnsAddUp

(* The debt of a party, when no cheque moves.                               *)
LEMMA DebtWithoutCheques ==
  ASSUME checks' = checks, NEW p
  PROVE  DebtOf(p)' =
           Due(sales', p) + Due(purchases', p)
             - Amount(OnBalance(saleReturns'), p) - Amount(OnBalance(purchaseReturns'), p)
             - Amount(settlements', p) - Amount(Standing(p), p)
             - Total(Lines(EndorsedTo(p), "endorsee", "amount"), p)
<1>1. Standing(p)' = Standing(p) /\ EndorsedTo(p)' = EndorsedTo(p)
  BY DEF Standing, EndorsedTo
<1> QED
  BY <1>1 DEF DebtOf, Due, Amount, OnBalance

-----------------------------------------------------------------------------
(* Sales, purchases and settlements *)

(* What a sale leaves due is owed by its customer, or by nobody in the      *)
(* ledger, and Accounts Receivable holds it.                                *)
LEMMA SaleStep ==
  ASSUME MoneyInv,
         NEW k \in SaleKeys \cup ReservationIds, NEW c \in Customers \cup {NoParty},
         NEW n \in 1 .. MaxUnits, NEW total \in Qty, NEW paid \in 0 .. MaxQty,
         SaleBooked(k, c, n, total, paid)
  PROVE  MoneyInv'
<1> DEFINE a == total - paid
           s == [key |-> k, party |-> c, units |-> n, total |-> total, due |-> a]
           moves == [CASH |-> paid, AR |-> a]
<1>1. a \in 0 .. MaxQty /\ a \in Nat
  BY MaxQtyAssumption DEF SaleBooked, PostSale, Qty
<1>2. /\ ~ Known(sales, k) /\ sales' = sales \cup {s} /\ Owe(c, a) /\ Post(moves)
      /\ UNCHANGED <<purchases, saleReturns, purchaseReturns, settlements, checks,
                     checkEvents>>
  BY DEF SaleBooked, PostSale, checkVars
<1>3. /\ s.key = k /\ s.party = c /\ s.units = n /\ s.due = a
      /\ s["party"] = c /\ s["due"] = a
  OBVIOUS
<1>4. s \notin sales
  BY <1>2, <1>3 DEF Known
<1>5. LedgersTyped /\ TablesFinite
  BY DEF MoneyInv, TablesInv
<1>6. s \in [key : SaleKeys \cup ReservationIds,
             party : Customers \cup {NoParty}, units : 1 .. MaxUnits,
             total : Qty, due : 0 .. MaxQty]
  BY <1>1
<1>7. /\ accounts' \in [Accounts -> Int]
      /\ \A b \in Accounts \ {"CASH", "AR"} : accounts'[b] = accounts[b]
      /\ accounts'["AR"] = accounts["AR"] + a
  <2>1. DOMAIN moves = {"CASH", "AR"} /\ moves["CASH"] = paid /\ moves["AR"] = a
    OBVIOUS
  <2>2. \A b \in DOMAIN moves : moves[b] \in Int
    BY <1>1, <2>1
  <2> HIDE DEF moves
  <2>3. /\ accounts' \in [Accounts -> Int]
        /\ \A b \in Accounts :
             accounts'[b] = accounts[b] + (IF b \in DOMAIN moves THEN moves[b] ELSE 0)
    BY <1>2, <1>5, <2>2, PostMoves DEF LedgersTyped
  <2>4. \A b \in Accounts : accounts[b] \in Int
    BY <1>5 DEF LedgersTyped
  <2> QED
    BY <2>1, <2>3, <2>4 DEF Accounts
<1> HIDE DEF s, moves, a
<1>8. TablesInv'
  <2>1. owed' \in [Parties -> Int]
    BY <1>1, <1>2, <1>5, OweMoves DEF LedgersTyped
  <2>2. LedgersTyped'
    BY <1>2, <1>5, <1>6, <1>7, <2>1 DEF LedgersTyped
  <2>3. TablesFinite'
    BY <1>2, <1>5, FS_AddElement DEF TablesFinite
  <2> QED
    BY <1>2, <2>2, <2>3 DEF MoneyInv, TablesInv, EventsTyped, PurchasesInBounds,
       CheckKeysUnique, DirectionFollowsParty
<1>9. \A p : Due(sales', p) = Due(sales, p) + (IF p = c THEN a ELSE 0)
  <2>1. IsFiniteSet(sales) /\ s["due"] \in 0 .. MaxQty
    BY <1>1, <1>3, <1>5 DEF TablesFinite
  <2>2. \A p : FieldSum(sales \cup {s}, "party", "due", p)
                = FieldSum(sales, "party", "due", p) + Part(s, "party", "due", p)
    BY <1>4, <2>1, SumMore
  <2> QED
    BY <1>2, <1>3, <2>2 DEF FieldSum, Part, Due
<1>10. DebtsFollowDocuments'
  <2>1. ASSUME NEW p \in Parties
        PROVE  DebtOf(p)' = DebtOf(p) + (IF p = c THEN a ELSE 0)
    <3>1. DebtOf(p)' =
            Due(sales', p) + Due(purchases, p)
              - Amount(OnBalance(saleReturns), p) - Amount(OnBalance(purchaseReturns), p)
              - Amount(settlements, p) - Amount(Standing(p), p)
              - Total(Lines(EndorsedTo(p), "endorsee", "amount"), p)
      BY <1>2, DebtWithoutCheques
    <3> QED
      BY <1>1, <1>5, <1>9, <3>1, SumsAreNat DEF DebtOf
  <2> QED
    BY <1>1, <1>2, <1>5, <2>1, DebtMoves DEF MoneyInv
<1>11. Reconciled'
  <2> DEFINE x == IF c = NoParty THEN a ELSE 0
  <2>1. Due(sales, NoParty) \in Int /\ x \in Int
    BY <1>1, <1>5, SumsAreNat
  <2>2. Due(sales, NoParty)' = Due(sales, NoParty) + x
    BY <1>9 DEF Due
  <2>3. c \in Customers <=> c # NoParty
    BY PartyAssumption
  <2>4. c \notin Suppliers
    BY PartyAssumption
  <2>5. accounts["AR"] \in Int /\ accounts["AP"] \in Int
    BY <1>5 DEF LedgersTyped, Accounts
  <2>6. accounts'["AR"] = accounts["AR"] + (IF c \in Customers THEN a ELSE 0) + x
    BY <1>1, <1>7, <2>3, <2>5
  <2>7. accounts'["AP"] = accounts["AP"] - (IF c \in Suppliers THEN a ELSE 0)
    BY <1>7, <2>4, <2>5 DEF Accounts
  <2>8. Reconciled /\ a \in Int
    BY <1>1 DEF MoneyInv
  <2> HIDE DEF x
  <2> QED
    BY <1>2, <1>5, <2>1, <2>2, <2>6, <2>7, <2>8, ReconcileMoves
<1>12. ChequePortfolio'
  BY <1>2, <1>7, PortfolioStays DEF MoneyInv, Accounts
<1>13. NobodyOverpays'
  <2>1. \A q \in Parties : Back(q)' = Back(q) /\ Back(q) \in Nat
    BY <1>2, <1>5, SumsAreNat DEF Back, OnBalance
  <2>2. \A q \in Parties : Back(q)' = Back(q) + (IF q = c THEN 0 ELSE 0)
    BY <2>1
  <2>3. TablesFinite'
    BY <1>8 DEF TablesInv
  <2>4. a + 0 >= 0
    BY <1>1
  <2> QED
    BY <1>1, <1>2, <1>5, <2>2, <2>3, <2>4, OverpaysMoves DEF MoneyInv
<1>14. ReturnsHaveSale' /\ UnitsWithin' /\ WholeReturnsAddUp'
  <2>1. ReturnsHaveSale /\ UnitsWithin /\ WholeReturnsAddUp
    BY DEF MoneyInv
  <2>2. ReturnsHaveSale'
    BY <1>2, <2>1 DEF ReturnsHaveSale
  <2>3. ReturnsOf(saleReturns, s) = {}
    BY <1>2, <1>3, <2>1 DEF ReturnsHaveSale, ReturnsOf, Known
  <2>4. UnitsBack(saleReturns, s) = 0
    BY <2>3, SumNone DEF UnitsBack, FieldSum
  <2>5. s.units \in Nat /\ s.units > 0
    BY <1>3, PartyAssumption
  <2>6. UnitsWithin'
    BY <1>2, <2>1, <2>4, <2>5 DEF UnitsWithin
  <2>7. WholeReturnsAddUp'
    BY <1>2, <2>1, <2>4, <2>5 DEF WholeReturnsAddUp
  <2> QED
    BY <2>2, <2>6, <2>7
<1> QED
  BY <1>8, <1>10, <1>11, <1>12, <1>13, <1>14 DEF MoneyInv

(* What a purchase leaves due is owed to its supplier, and Accounts Payable *)
(* holds it.                                                                *)
LEMMA PurchaseStep ==
  ASSUME MoneyInv,
         NEW k \in PurchaseKeys, NEW s \in Suppliers, NEW n \in 1 .. MaxUnits,
         NEW cost \in Qty, NEW paid \in 0 .. MaxQty, n * cost <= MaxQty,
         CreatePurchase(k, s, n, cost, paid), UNCHANGED checkVars
  PROVE  MoneyInv'
<1> DEFINE a == n * cost - paid
           d == [key |-> k, party |-> s, units |-> n, cost |-> cost, due |-> a]
           moves == [CASH |-> 0 - paid, AP |-> paid - n * cost]
<1>1. n * cost \in Nat /\ a \in 0 .. MaxQty /\ a \in Nat
  <2>1. n \in Nat /\ cost \in Nat
    BY MaxQtyAssumption, PartyAssumption DEF Qty
  <2>2. n * cost \in Nat
    BY <2>1
  <2>3. paid <= n * cost /\ paid \in Nat
    BY MaxQtyAssumption DEF CreatePurchase
  <2> DEFINE worth == n * cost
  <2> HIDE DEF worth
  <2>4. worth \in Nat /\ paid <= worth /\ worth <= MaxQty
    BY <2>2, <2>3 DEF worth
  <2>5. worth - paid \in 0 .. MaxQty /\ worth - paid \in Nat
    BY <2>3, <2>4, MaxQtyAssumption
  <2> QED
    BY <2>2, <2>5 DEF worth
<1>2. /\ ~ Known(purchases, k) /\ purchases' = purchases \cup {d} /\ Owe(s, a)
      /\ Post(moves)
      /\ UNCHANGED <<sales, saleReturns, purchaseReturns, settlements, checks,
                     checkEvents>>
  BY DEF CreatePurchase, checkVars
<1>3. /\ d.key = k /\ d.party = s /\ d.units = n /\ d.cost = cost /\ d.due = a
      /\ d["party"] = s /\ d["due"] = a
  OBVIOUS
<1>4. d \notin purchases
  BY <1>2, <1>3 DEF Known
<1>5. LedgersTyped /\ TablesFinite
  BY DEF MoneyInv, TablesInv
<1>6. d \in [key : PurchaseKeys, party : Suppliers, units : 1 .. MaxUnits,
             cost : Qty, due : 0 .. MaxQty]
  BY <1>1
<1>7. /\ accounts' \in [Accounts -> Int]
      /\ \A b \in Accounts \ {"CASH", "AP"} : accounts'[b] = accounts[b]
      /\ accounts'["AP"] = accounts["AP"] - a
  <2>1. DOMAIN moves = {"CASH", "AP"} /\ moves["CASH"] = 0 - paid /\ moves["AP"] = 0 - a
    BY <1>1
  <2>2. \A b \in DOMAIN moves : moves[b] \in Int
    BY <1>1, <2>1
  <2> HIDE DEF moves
  <2>3. /\ accounts' \in [Accounts -> Int]
        /\ \A b \in Accounts :
             accounts'[b] = accounts[b] + (IF b \in DOMAIN moves THEN moves[b] ELSE 0)
    BY <1>2, <1>5, <2>2, PostMoves DEF LedgersTyped
  <2>4. \A b \in Accounts : accounts[b] \in Int
    BY <1>5 DEF LedgersTyped
  <2> HIDE DEF a
  <2> QED
    BY <1>1, <2>1, <2>3, <2>4 DEF Accounts
<1> HIDE DEF d, moves, a
<1>8. TablesInv'
  <2>1. owed' \in [Parties -> Int]
    BY <1>1, <1>2, <1>5, OweMoves DEF LedgersTyped
  <2>2. LedgersTyped'
    BY <1>2, <1>5, <1>6, <1>7, <2>1 DEF LedgersTyped
  <2>3. TablesFinite'
    BY <1>2, <1>5, FS_AddElement DEF TablesFinite
  <2>4. PurchasesInBounds'
    BY <1>2, <1>3 DEF MoneyInv, TablesInv, PurchasesInBounds
  <2> QED
    BY <1>2, <2>2, <2>3, <2>4 DEF MoneyInv, TablesInv, EventsTyped,
       CheckKeysUnique, DirectionFollowsParty
<1>9. \A p : Due(purchases', p) = Due(purchases, p) + (IF p = s THEN a ELSE 0)
  <2>1. IsFiniteSet(purchases) /\ d["due"] \in 0 .. MaxQty
    BY <1>1, <1>3, <1>5 DEF TablesFinite
  <2>2. \A p : FieldSum(purchases \cup {d}, "party", "due", p)
                = FieldSum(purchases, "party", "due", p) + Part(d, "party", "due", p)
    BY <1>4, <2>1, SumMore
  <2> QED
    BY <1>2, <1>3, <2>2 DEF FieldSum, Part, Due
<1>10. DebtsFollowDocuments'
  <2>1. ASSUME NEW p \in Parties
        PROVE  DebtOf(p)' = DebtOf(p) + (IF p = s THEN a ELSE 0)
    <3>1. DebtOf(p)' =
            Due(sales, p) + Due(purchases', p)
              - Amount(OnBalance(saleReturns), p) - Amount(OnBalance(purchaseReturns), p)
              - Amount(settlements, p) - Amount(Standing(p), p)
              - Total(Lines(EndorsedTo(p), "endorsee", "amount"), p)
      BY <1>2, DebtWithoutCheques
    <3> QED
      BY <1>1, <1>5, <1>9, <3>1, SumsAreNat DEF DebtOf
  <2> QED
    BY <1>1, <1>2, <1>5, <2>1, DebtMoves DEF MoneyInv
<1>11. Reconciled'
  <2>1. Due(sales, NoParty) \in Int
    BY <1>5, SumsAreNat
  <2>2. Due(sales, NoParty)' = Due(sales, NoParty) + 0
    BY <1>2, <2>1 DEF Due
  <2>3. s \notin Customers
    BY PartyAssumption
  <2>4. accounts["AR"] \in Int /\ accounts["AP"] \in Int
    BY <1>5 DEF LedgersTyped, Accounts
  <2>5. accounts'["AR"] = accounts["AR"] + (IF s \in Customers THEN a ELSE 0) + 0
    BY <1>7, <2>3, <2>4 DEF Accounts
  <2>6. accounts'["AP"] = accounts["AP"] - (IF s \in Suppliers THEN a ELSE 0)
    BY <1>7
  <2>7. a \in Int /\ 0 \in Int
    BY <1>1
  <2> QED
    BY <1>2, <1>5, <2>1, <2>2, <2>5, <2>6, <2>7, ReconcileMoves DEF MoneyInv
<1>12. ChequePortfolio'
  BY <1>2, <1>7, PortfolioStays DEF MoneyInv, Accounts
<1>13. NobodyOverpays'
  <2>1. \A q \in Parties : Back(q)' = Back(q) /\ Back(q) \in Nat
    BY <1>2, <1>5, SumsAreNat DEF Back, OnBalance
  <2>2. \A q \in Parties : Back(q)' = Back(q) + (IF q = s THEN 0 ELSE 0)
    BY <2>1
  <2>3. TablesFinite'
    BY <1>8 DEF TablesInv
  <2>4. a + 0 >= 0
    BY <1>1
  <2> QED
    BY <1>1, <1>2, <1>5, <2>2, <2>3, <2>4, OverpaysMoves DEF MoneyInv
<1>14. ReturnsHaveSale' /\ UnitsWithin' /\ WholeReturnsAddUp'
  BY <1>2, ReturnsStay DEF MoneyInv
<1> QED
  BY <1>8, <1>10, <1>11, <1>12, <1>13, <1>14 DEF MoneyInv

(* A settlement takes its amount off the debt and off its account.          *)
LEMMA SettlementStep ==
  ASSUME MoneyInv,
         NEW k \in SettlementKeys, NEW p \in Parties, NEW amount \in Qty,
         CreateSettlement(k, p, amount), UNCHANGED checkVars
  PROVE  MoneyInv'
<1> DEFINE a == 0 - amount
           d == [key |-> k, party |-> p, amount |-> amount]
<1>1. amount \in Nat /\ amount \in 0 .. MaxQty /\ a \in Int
  BY MaxQtyAssumption DEF Qty
<1>2. /\ ~ Known(settlements, k) /\ settlements' = settlements \cup {d} /\ Owe(p, a)
      /\ Settling(p, "CASH", amount) /\ Payable(p, amount)
      /\ UNCHANGED <<sales, purchases, saleReturns, purchaseReturns, checks,
                     checkEvents>>
  BY DEF CreateSettlement, checkVars
<1>3. d.key = k /\ d["party"] = p /\ d["amount"] = amount
  OBVIOUS
<1>4. d \notin settlements
  BY <1>2, <1>3 DEF Known
<1>5. LedgersTyped /\ TablesFinite
  BY DEF MoneyInv, TablesInv
<1>6. d \in [key : SettlementKeys, party : Parties, amount : Qty]
  OBVIOUS
<1>7. /\ accounts' \in [Accounts -> Int]
      /\ \A b \in Accounts \ {"CASH", "AR", "AP"} : accounts'[b] = accounts[b]
      /\ accounts'["AR"] = accounts["AR"] + (IF p \in Customers THEN a ELSE 0)
      /\ accounts'["AP"] = accounts["AP"] - (IF p \in Suppliers THEN a ELSE 0)
  <2>1. "CASH" \in Accounts \ {"AR", "AP"}
    BY DEF Accounts
  <2>2. p \in Suppliers <=> p \notin Customers
    BY PartyAssumption DEF Parties
  <2>3. \A b \in Accounts : accounts[b] \in Int
    BY <1>5 DEF LedgersTyped
  <2>4. /\ accounts' \in [Accounts -> Int]
        /\ \A b \in Accounts :
             accounts'[b] =
               accounts[b]
                 + (IF p \in Customers
                    THEN IF b = "CASH" THEN amount
                         ELSE IF b = "AR" THEN 0 - amount ELSE 0
                    ELSE IF b = "CASH" THEN 0 - amount
                         ELSE IF b = "AP" THEN amount ELSE 0)
    BY <1>1, <1>2, <1>5, <2>1, SettlingMoves DEF LedgersTyped
  <2> QED
    BY <1>1, <2>2, <2>3, <2>4 DEF Accounts
<1> HIDE DEF d
<1>8. TablesInv'
  <2>1. owed' \in [Parties -> Int]
    BY <1>1, <1>2, <1>5, OweMoves DEF LedgersTyped
  <2>2. LedgersTyped'
    BY <1>2, <1>5, <1>6, <1>7, <2>1 DEF LedgersTyped
  <2>3. TablesFinite'
    BY <1>2, <1>5, FS_AddElement DEF TablesFinite
  <2> QED
    BY <1>2, <2>2, <2>3 DEF MoneyInv, TablesInv, EventsTyped, PurchasesInBounds,
       CheckKeysUnique, DirectionFollowsParty
<1>9. \A q : Amount(settlements', q)
              = Amount(settlements, q) + (IF q = p THEN amount ELSE 0)
  <2>1. IsFiniteSet(settlements) /\ d["amount"] \in 0 .. MaxQty
    BY <1>1, <1>3, <1>5 DEF TablesFinite
  <2>2. \A q : FieldSum(settlements \cup {d}, "party", "amount", q)
                = FieldSum(settlements, "party", "amount", q)
                    + Part(d, "party", "amount", q)
    BY <1>4, <2>1, SumMore
  <2> QED
    BY <1>2, <1>3, <2>2 DEF FieldSum, Part, Amount
<1>10. DebtsFollowDocuments'
  <2>1. ASSUME NEW q \in Parties
        PROVE  DebtOf(q)' = DebtOf(q) + (IF q = p THEN a ELSE 0)
    <3>1. DebtOf(q)' =
            Due(sales, q) + Due(purchases, q)
              - Amount(OnBalance(saleReturns), q) - Amount(OnBalance(purchaseReturns), q)
              - Amount(settlements', q) - Amount(Standing(q), q)
              - Total(Lines(EndorsedTo(q), "endorsee", "amount"), q)
      BY <1>2, DebtWithoutCheques
    <3> QED
      BY <1>1, <1>5, <1>9, <3>1, SumsAreNat DEF DebtOf
  <2> HIDE DEF a
  <2> QED
    BY <1>1, <1>2, <1>5, <2>1, DebtMoves DEF MoneyInv
<1>11. Reconciled'
  <2>1. Due(sales, NoParty) \in Int
    BY <1>5, SumsAreNat
  <2>2. Due(sales, NoParty)' = Due(sales, NoParty) + 0
    BY <1>2, <2>1 DEF Due
  <2>3. accounts["AR"] \in Int
    BY <1>5 DEF LedgersTyped, Accounts
  <2>4. accounts'["AR"] = accounts["AR"] + (IF p \in Customers THEN a ELSE 0) + 0
    BY <1>1, <1>7, <2>3
  <2>5. accounts'["AP"] = accounts["AP"] - (IF p \in Suppliers THEN a ELSE 0)
    BY <1>7
  <2>6. 0 \in Int
    OBVIOUS
  <2> HIDE DEF a
  <2> QED
    BY <1>1, <1>2, <1>5, <2>1, <2>2, <2>4, <2>5, <2>6, ReconcileMoves DEF MoneyInv
<1>12. ChequePortfolio'
  BY <1>2, <1>7, PortfolioStays DEF MoneyInv, Accounts
<1>13. NobodyOverpays'
  <2>1. \A q \in Parties : Back(q)' = Back(q) /\ Back(q) \in Nat
    BY <1>2, <1>5, SumsAreNat DEF Back, OnBalance
  <2>2. \A q \in Parties : Back(q)' = Back(q) + (IF q = p THEN 0 ELSE 0)
    BY <2>1
  <2>3. TablesFinite'
    BY <1>8 DEF TablesInv
  <2>4. owed[p] + a >= 0
    BY <1>1, <1>2, <1>5 DEF Payable, LedgersTyped
  <2> HIDE DEF a
  <2> QED
    BY <1>1, <1>2, <1>5, <2>2, <2>3, <2>4, OverpaysMoves DEF MoneyInv
<1>14. ReturnsHaveSale' /\ UnitsWithin' /\ WholeReturnsAddUp'
  BY <1>2, ReturnsStay DEF MoneyInv
<1> QED
  BY <1>8, <1>10, <1>11, <1>12, <1>13, <1>14 DEF MoneyInv

-----------------------------------------------------------------------------
(* Returns *)

(* A product is divided with a remainder below the divisor.                 *)
LEMMA QuotientAndRest ==
  ASSUME NEW x \in Nat, NEW d \in Nat \ {0}
  PROVE  /\ x \div d \in Nat
         /\ x % d \in 0 .. d - 1
         /\ x = d * (x \div d) + (x % d)
  OBVIOUS

(* A refund in proportion to the units is never more than the whole.        *)
LEMMA RoundedWithin ==
  ASSUME NEW total \in Nat, NEW m \in Nat \ {0}, NEW q \in 0 .. m
  PROVE  Rounded(total * q, m) \in 0 .. total
<1> DEFINE x == 2 * (total * q) + m
           b == 2 * m
           r == x \div b
<1>1. x \in Nat /\ b \in Nat \ {0}
  OBVIOUS
<1>2. r \in Nat /\ x % b \in 0 .. b - 1 /\ x = b * r + (x % b)
  <2> HIDE DEF x, b
  <2> QED
    BY <1>1, QuotientAndRest
<1>3. total * q <= total * m
  <2>1. PICK j \in Nat : m = q + j
    <3>1. m - q \in Nat /\ m = q + (m - q)
      OBVIOUS
    <3> QED
      BY <3>1
  <2>2. total * m = total * q + total * j /\ total * j \in Nat /\ total * q \in Nat
    BY <2>1
  <2> QED
    BY <2>2
<1>4. ASSUME r >= total + 1
      PROVE  FALSE
  <2>1. PICK j \in Nat : r = total + 1 + j
    <3>1. r - total - 1 \in Nat /\ r = total + 1 + (r - total - 1)
      BY <1>2, <1>4
    <3> HIDE DEF r
    <3> QED
      BY <3>1
  <2>2. b * r = b * total + b + b * j /\ b * j \in Nat /\ b * r \in Nat
    <3> HIDE DEF b, r
    <3> QED
      BY <1>1, <2>1
  <2>3. b * total = 2 * (total * m)
    OBVIOUS
  <2>4. x <= 2 * (total * m) + m
    BY <1>3
  <2>5. x >= 2 * (total * m) + b
    <3>1. total * m \in Nat
      OBVIOUS
    <3> HIDE DEF x, r
    <3> QED
      BY <1>1, <1>2, <2>2, <2>3, <3>1
  <2> QED
    BY <2>4, <2>5
<1>5. Rounded(total * q, m) = r
  BY DEF Rounded
<1> HIDE DEF r
<1> QED
  BY <1>2, <1>4, <1>5

(* What a sale return refunds is an amount within bounds.                   *)
LEMMA RefundTyped ==
  ASSUME LedgersTyped, TablesFinite, NEW s \in sales, NEW q \in 1 .. MaxUnits,
         q <= s.units - UnitsBack(saleReturns, s), Refund(s, q) > 0
  PROVE  Refund(s, q) \in Qty
<1>1. s.total \in 1 .. MaxQty /\ s.units \in 1 .. MaxUnits
  BY DEF LedgersTyped, Qty
<1>2. UnitsBack(saleReturns, s) \in Nat /\ MoneyBack(saleReturns, s) \in Nat
  <2>1. IsFiniteSet(ReturnsOf(saleReturns, s))
    BY FS_Subset DEF TablesFinite, ReturnsOf
  <2> QED
    BY <2>1, LinesFinite DEF UnitsBack, MoneyBack, FieldSum
<1>3. s.total \in Nat /\ s.units \in Nat \ {0} /\ q \in 0 .. s.units
  BY <1>1, <1>2, MaxQtyAssumption, PartyAssumption
<1>4. Rounded(s.total * q, s.units) \in 0 .. s.total
  <2> DEFINE total == s.total
             m == s.units
  <2>1. total \in Nat /\ m \in Nat \ {0} /\ q \in 0 .. m
    BY <1>3
  <2> HIDE DEF total, m
  <2>2. Rounded(total * q, m) \in 0 .. total
    BY <2>1, RoundedWithin
  <2> QED
    BY <2>2 DEF total, m
<1>5. Refund(s, q) \in Int /\ Refund(s, q) <= s.total
  BY <1>2, <1>3, <1>4 DEF Refund
<1> QED
  BY <1>1, <1>5, MaxQtyAssumption DEF Qty

(* What comes back of a sale adds up: a return adds its units and money to  *)
(* those of its sale, and to no other.                                      *)
LEMMA ReturnsAdd ==
  ASSUME IsFiniteSet(saleReturns), NEW t, t \notin saleReturns,
         t.units \in 0 .. MaxQty, t.amount \in 0 .. MaxQty, NEW s
  PROVE  /\ UnitsBack(saleReturns \cup {t}, s)
              = UnitsBack(saleReturns, s) + (IF t.source = s.key THEN t.units ELSE 0)
         /\ MoneyBack(saleReturns \cup {t}, s)
              = MoneyBack(saleReturns, s) + (IF t.source = s.key THEN t.amount ELSE 0)
         /\ UnitsBack(saleReturns, s) \in Nat /\ MoneyBack(saleReturns, s) \in Nat
<1> DEFINE F == ReturnsOf(saleReturns, s)
<1>1. IsFiniteSet(F) /\ t \notin F
  BY FS_Subset DEF ReturnsOf
<1>2. ReturnsOf(saleReturns \cup {t}, s) = IF t.source = s.key THEN F \cup {t} ELSE F
  BY DEF ReturnsOf
<1>3. /\ FieldSum(F, "source", "units", s.key) \in Nat
      /\ FieldSum(F, "source", "amount", s.key) \in Nat
  <2> HIDE DEF F
  <2> QED
    BY <1>1, LinesFinite
<1>4. /\ FieldSum(F \cup {t}, "source", "units", s.key)
           = FieldSum(F, "source", "units", s.key) + Part(t, "source", "units", s.key)
      /\ FieldSum(F \cup {t}, "source", "amount", s.key)
           = FieldSum(F, "source", "amount", s.key) + Part(t, "source", "amount", s.key)
  <2>1. t["units"] \in 0 .. MaxQty /\ t["amount"] \in 0 .. MaxQty
    OBVIOUS
  <2> HIDE DEF F
  <2> QED
    BY <1>1, <2>1, SumMore
<1> HIDE DEF F
<1> QED
  BY <1>2, <1>3, <1>4 DEF F, UnitsBack, MoneyBack, FieldSum, Part

(* A refund is paid out or taken off the balance of its customer; Accounts  *)
(* Receivable follows, and the money back of the last units completes the   *)
(* total of the sale.                                                       *)
LEMMA SaleReturnStep ==
  ASSUME MoneyInv, SaleKeysUnique,
         NEW k \in SaleReturnKeys, NEW s \in sales, NEW q \in 1 .. MaxUnits,
         NEW method \in RefundMethods,
         CreateSaleReturn(k, s, q, method), UNCHANGED checkVars
  PROVE  MoneyInv'
<1> DEFINE amount == Refund(s, q)
           party == IF method = "credit_balance" THEN s.party ELSE NoParty
           a == 0 - amount
           t == [key |-> k, source |-> s.key, party |-> s.party, units |-> q,
                 amount |-> amount, method |-> method]
           account == RefundAccount(method, "AR")
           moves == [b \in {account} |-> a]
<1>1. LedgersTyped /\ TablesFinite
  BY DEF MoneyInv, TablesInv
<1>2. amount \in Qty /\ amount \in Nat /\ amount \in 0 .. MaxQty /\ a \in Int
  <2>1. amount \in Qty
    BY <1>1, RefundTyped DEF CreateSaleReturn
  <2> HIDE DEF amount
  <2> QED
    BY <2>1, MaxQtyAssumption DEF Qty
<1>3. /\ ~ Known(saleReturns, k) /\ saleReturns' = saleReturns \cup {t}
      /\ Post(moves) /\ OweLess(method, s.party, amount)
      /\ q <= s.units - UnitsBack(saleReturns, s)
      /\ method = "credit_balance" => s.party # NoParty
      /\ UNCHANGED <<sales, purchases, purchaseReturns, settlements, checks,
                     checkEvents>>
  BY DEF CreateSaleReturn, checkVars
<1>4. Owe(party, a)
  BY <1>3 DEF OweLess
<1>5. /\ s.key \in SaleKeys \cup ReservationIds /\ s.party \in Customers \cup {NoParty}
      /\ s.units \in 1 .. MaxUnits /\ s.total \in Qty
  BY <1>1 DEF LedgersTyped
<1>6. t \in [key : SaleReturnKeys, source : SaleKeys \cup ReservationIds,
             party : Customers \cup {NoParty}, units : 1 .. MaxUnits, amount : Qty,
             method : RefundMethods]
  <2> HIDE DEF amount
  <2> QED
    BY <1>2, <1>5
<1>7. /\ t.key = k /\ t.source = s.key /\ t.party = s.party /\ t.units = q
      /\ t.amount = amount /\ t.method = method
      /\ t["party"] = s.party /\ t["amount"] = amount
  OBVIOUS
<1>8. /\ accounts' \in [Accounts -> Int]
      /\ \A b \in Accounts \ {"CASH", "AR"} : accounts'[b] = accounts[b]
      /\ accounts'["AR"] = accounts["AR"] + (IF method = "cash" THEN 0 ELSE a)
  <2>1. DOMAIN moves = {account} /\ moves[account] = a
    OBVIOUS
  <2>2. \A b \in DOMAIN moves : moves[b] \in Int
    BY <1>2, <2>1
  <2>3. account = IF method = "cash" THEN "CASH" ELSE "AR"
    BY DEF RefundAccount
  <2> HIDE DEF moves, account, a
  <2>4. /\ accounts' \in [Accounts -> Int]
        /\ \A b \in Accounts :
             accounts'[b] = accounts[b] + (IF b \in DOMAIN moves THEN moves[b] ELSE 0)
    BY <1>1, <1>3, <2>2, PostMoves DEF LedgersTyped
  <2>5. \A b \in Accounts : accounts[b] \in Int
    BY <1>1 DEF LedgersTyped
  <2> QED
    BY <1>2, <2>1, <2>3, <2>4, <2>5 DEF Accounts
<1>9. method \in {"cash", "credit_balance"}
  BY DEF RefundMethods
<1>10. /\ IsFiniteSet(saleReturns) /\ IsFiniteSet(OnBalance(saleReturns))
       /\ t \notin saleReturns
  BY <1>1, <1>3, <1>7, FS_Subset DEF TablesFinite, OnBalance, Known
<1> HIDE DEF t, moves, account, amount, a
<1>11. TablesInv'
  <2>1. owed' \in [Parties -> Int]
    BY <1>1, <1>2, <1>4, OweMoves DEF LedgersTyped
  <2>2. LedgersTyped'
    BY <1>1, <1>3, <1>6, <1>8, <2>1 DEF LedgersTyped
  <2>3. TablesFinite'
    BY <1>1, <1>3, FS_AddElement DEF TablesFinite
  <2> QED
    BY <1>3, <2>2, <2>3 DEF MoneyInv, TablesInv, EventsTyped, PurchasesInBounds,
       CheckKeysUnique, DirectionFollowsParty
<1>12. \A p \in Parties :
         Amount(OnBalance(saleReturns'), p)
           = Amount(OnBalance(saleReturns), p) + (IF p = party THEN amount ELSE 0)
  <2>1. NoParty \notin Parties
    BY PartyAssumption DEF Parties
  <2>2. CASE method = "cash"
    <3>1. OnBalance(saleReturns') = OnBalance(saleReturns)
      BY <1>3, <1>7, <2>2 DEF OnBalance
    <3>2. \A p : Amount(OnBalance(saleReturns), p) \in Nat
      BY <1>1, SumsAreNat
    <3> QED
      BY <2>1, <2>2, <3>1, <3>2
  <2>3. CASE method = "credit_balance"
    <3>1. OnBalance(saleReturns') = OnBalance(saleReturns) \cup {t}
      BY <1>3, <1>7, <2>3 DEF OnBalance
    <3>2. t["amount"] \in 0 .. MaxQty /\ t \notin OnBalance(saleReturns)
      BY <1>2, <1>7, <1>10 DEF OnBalance
    <3>3. \A p : FieldSum(OnBalance(saleReturns) \cup {t}, "party", "amount", p)
                   = FieldSum(OnBalance(saleReturns), "party", "amount", p)
                       + Part(t, "party", "amount", p)
      BY <1>10, <3>2, SumMore
    <3> QED
      BY <1>7, <2>3, <3>1, <3>3 DEF FieldSum, Part, Amount
  <2> QED
    BY <1>9, <2>2, <2>3
<1> HIDE DEF party
<1>13. DebtsFollowDocuments'
  <2>1. ASSUME NEW p \in Parties
        PROVE  DebtOf(p)' = DebtOf(p) + (IF p = party THEN a ELSE 0)
    <3>1. DebtOf(p)' =
            Due(sales, p) + Due(purchases, p)
              - Amount(OnBalance(saleReturns'), p)
              - Amount(OnBalance(purchaseReturns), p)
              - Amount(settlements, p) - Amount(Standing(p), p)
              - Total(Lines(EndorsedTo(p), "endorsee", "amount"), p)
      BY <1>3, DebtWithoutCheques
    <3> QED
      BY <1>1, <1>2, <1>12, <3>1, SumsAreNat DEF DebtOf, a
  <2> QED
    BY <1>1, <1>2, <1>4, <2>1, DebtMoves DEF MoneyInv
<1>14. Reconciled'
  <2>1. Due(sales, NoParty) \in Int
    BY <1>1, SumsAreNat
  <2>2. Due(sales, NoParty)' = Due(sales, NoParty) + 0
    BY <1>3, <2>1 DEF Due
  <2>3. accounts["AR"] \in Int /\ accounts["AP"] \in Int
    BY <1>1 DEF LedgersTyped, Accounts
  <2>4. party \in Customers <=> method = "credit_balance"
    BY <1>3, <1>5, PartyAssumption DEF party
  <2>5. party \notin Suppliers
    BY <1>5, PartyAssumption DEF party
  <2>6. accounts'["AR"] = accounts["AR"] + (IF party \in Customers THEN a ELSE 0) + 0
    BY <1>2, <1>8, <1>9, <2>3, <2>4
  <2>7. accounts'["AP"] = accounts["AP"] - (IF party \in Suppliers THEN a ELSE 0)
    BY <1>8, <2>3, <2>5 DEF Accounts
  <2>8. Reconciled /\ 0 \in Int
    BY DEF MoneyInv
  <2> QED
    BY <1>1, <1>2, <1>4, <2>1, <2>2, <2>6, <2>7, <2>8, ReconcileMoves
<1>15. ChequePortfolio'
  BY <1>3, <1>8, PortfolioStays DEF MoneyInv, Accounts
<1>16. NobodyOverpays'
  <2>1. \A p \in Parties : /\ Amount(OnBalance(saleReturns), p) \in Nat
                           /\ Amount(OnBalance(purchaseReturns), p) \in Nat
    BY <1>1, SumsAreNat
  <2>2. \A p \in Parties : Back(p)' = Amount(OnBalance(saleReturns'), p)
                                        + Amount(OnBalance(purchaseReturns), p)
    BY <1>3 DEF Back, OnBalance
  <2>3. \A p \in Parties : Back(p)' = Back(p) + (IF p = party THEN amount ELSE 0)
    BY <1>2, <1>12, <2>1, <2>2 DEF Back
  <2>4. TablesFinite'
    BY <1>11 DEF TablesInv
  <2>5. a + amount >= 0
    BY <1>2 DEF a
  <2>6. NobodyOverpays
    BY DEF MoneyInv
  <2> QED
    BY <1>1, <1>2, <1>4, <2>3, <2>4, <2>5, <2>6, OverpaysMoves
<1>17. ReturnsHaveSale'
  BY <1>3, <1>7 DEF MoneyInv, ReturnsHaveSale
<1>18. ASSUME NEW s1 \in sales
       PROVE  /\ UnitsBack(saleReturns', s1) <= s1.units
              /\ UnitsBack(saleReturns', s1) = s1.units
                   => MoneyBack(saleReturns', s1) = s1.total
  <2>1. t.units \in 0 .. MaxQty /\ t.amount \in 0 .. MaxQty
    BY <1>2, <1>7, PartyAssumption, MaxQtyAssumption
  <2>2. /\ UnitsBack(saleReturns', s1)
             = UnitsBack(saleReturns, s1) + (IF s.key = s1.key THEN q ELSE 0)
        /\ MoneyBack(saleReturns', s1)
             = MoneyBack(saleReturns, s1) + (IF s.key = s1.key THEN amount ELSE 0)
        /\ UnitsBack(saleReturns, s1) \in Nat /\ MoneyBack(saleReturns, s1) \in Nat
    BY <1>3, <1>7, <1>10, <2>1, ReturnsAdd
  <2>3. CASE s.key # s1.key
    <3>1. /\ UnitsBack(saleReturns, s1) <= s1.units
          /\ UnitsBack(saleReturns, s1) = s1.units
               => MoneyBack(saleReturns, s1) = s1.total
      BY DEF MoneyInv, UnitsWithin, WholeReturnsAddUp
    <3> QED
      BY <2>2, <2>3, <3>1
  <2>4. CASE s.key = s1.key
    <3>1. s1 = s
      BY <2>4 DEF SaleKeysUnique
    <3>2. s.units \in Nat /\ s.total \in Nat /\ q \in Nat
      BY <1>5, PartyAssumption, MaxQtyAssumption DEF Qty
    <3>3. UnitsBack(saleReturns', s) <= s.units
      BY <1>3, <2>2, <3>1, <3>2
    <3>4. ASSUME UnitsBack(saleReturns', s) = s.units
          PROVE  MoneyBack(saleReturns', s) = s.total
      <4>1. q = s.units - UnitsBack(saleReturns, s)
        BY <2>2, <3>1, <3>2, <3>4
      <4>2. amount = s.total - MoneyBack(saleReturns, s)
        BY <4>1 DEF amount, Refund
      <4> QED
        BY <2>2, <3>1, <3>2, <4>2
    <3> QED
      BY <3>1, <3>3, <3>4
  <2> QED
    BY <2>3, <2>4
<1>19. UnitsWithin' /\ WholeReturnsAddUp'
  BY <1>3, <1>18 DEF UnitsWithin, WholeReturnsAddUp
<1> QED
  BY <1>11, <1>13, <1>14, <1>15, <1>16, <1>17, <1>19 DEF MoneyInv

(* Goods that go back to a supplier are worth what they cost, in money or   *)
(* off its balance, which Accounts Payable follows.                         *)
LEMMA PurchaseReturnStep ==
  ASSUME MoneyInv,
         NEW k \in PurchaseReturnKeys, NEW p \in purchases, NEW q \in 1 .. MaxUnits,
         NEW method \in RefundMethods,
         CreatePurchaseReturn(k, p, q, method), UNCHANGED checkVars
  PROVE  MoneyInv'
<1> DEFINE amount == q * p.cost
           party == IF method = "credit_balance" THEN p.party ELSE NoParty
           a == 0 - amount
           t == [key |-> k, source |-> p.key, party |-> p.party, units |-> q,
                 amount |-> amount, method |-> method]
           account == RefundAccount(method, "AP")
           moves == [b \in {account} |-> amount]
<1>1. LedgersTyped /\ TablesFinite
  BY DEF MoneyInv, TablesInv
<1>2. /\ ~ Known(purchaseReturns, k) /\ purchaseReturns' = purchaseReturns \cup {t}
      /\ Post(moves) /\ OweLess(method, p.party, amount)
      /\ q <= p.units - UnitsBack(purchaseReturns, p)
      /\ UNCHANGED <<sales, purchases, saleReturns, settlements, checks, checkEvents>>
  BY DEF CreatePurchaseReturn, checkVars
<1>3. /\ p.key \in PurchaseKeys /\ p.party \in Suppliers
      /\ p.units \in 1 .. MaxUnits /\ p.cost \in Qty
  BY <1>1 DEF LedgersTyped
<1>4. amount \in Qty /\ amount \in Nat /\ amount \in 0 .. MaxQty /\ a \in Int
  <2> DEFINE cost == p.cost
             units == p.units
  <2>1. UnitsBack(purchaseReturns, p) \in Nat
    <3>1. IsFiniteSet(ReturnsOf(purchaseReturns, p))
      BY <1>1, FS_Subset DEF TablesFinite, ReturnsOf
    <3> QED
      BY <3>1, LinesFinite DEF UnitsBack, FieldSum
  <2>2. q \in Nat \ {0} /\ cost \in Nat \ {0} /\ units \in Nat /\ q <= units
    BY <1>2, <1>3, <2>1, MaxQtyAssumption, PartyAssumption DEF Qty
  <2>3. units * cost <= MaxQty
    BY DEF MoneyInv, TablesInv, PurchasesInBounds
  <2> HIDE DEF cost, units
  <2>4. PICK j \in Nat : units = q + j
    <3>1. units - q \in Nat /\ units = q + (units - q)
      BY <2>2
    <3> QED
      BY <3>1
  <2>5. units * cost = q * cost + j * cost /\ j * cost \in Nat /\ q * cost \in Nat
    BY <2>2, <2>4
  <2>6. q * cost >= 1
    <3>1. PICK i \in Nat : q = 1 + i
      <4>1. q - 1 \in Nat /\ q = 1 + (q - 1)
        BY <2>2
      <4> QED
        BY <4>1
    <3>2. q * cost = cost + i * cost /\ i * cost \in Nat
      BY <2>2, <3>1
    <3> QED
      BY <2>2, <3>2
  <2>7. q * cost \in Qty /\ q * cost \in Nat /\ q * cost \in 0 .. MaxQty
        /\ 0 - q * cost \in Int
    BY <2>3, <2>5, <2>6, MaxQtyAssumption DEF Qty
  <2> QED
    BY <2>7 DEF cost
<1>5. Owe(party, a)
  BY <1>2 DEF OweLess
<1>6. t \in [key : PurchaseReturnKeys, source : PurchaseKeys, party : Suppliers,
             units : 1 .. MaxUnits, amount : Qty, method : RefundMethods]
  <2> HIDE DEF amount
  <2> QED
    BY <1>3, <1>4
<1>7. /\ t.key = k /\ t.method = method
      /\ t["party"] = p.party /\ t["amount"] = amount
  OBVIOUS
<1>8. /\ accounts' \in [Accounts -> Int]
      /\ \A b \in Accounts \ {"CASH", "AP"} : accounts'[b] = accounts[b]
      /\ accounts'["AP"] = accounts["AP"] + (IF method = "cash" THEN 0 ELSE amount)
  <2>1. DOMAIN moves = {account} /\ moves[account] = amount
    OBVIOUS
  <2> HIDE DEF amount
  <2>2. \A b \in DOMAIN moves : moves[b] \in Int
    BY <1>4, <2>1
  <2>3. account = IF method = "cash" THEN "CASH" ELSE "AP"
    BY DEF RefundAccount
  <2> HIDE DEF moves, account
  <2>4. /\ accounts' \in [Accounts -> Int]
        /\ \A b \in Accounts :
             accounts'[b] = accounts[b] + (IF b \in DOMAIN moves THEN moves[b] ELSE 0)
    BY <1>1, <1>2, <2>2, PostMoves DEF LedgersTyped
  <2>5. \A b \in Accounts : accounts[b] \in Int
    BY <1>1 DEF LedgersTyped
  <2> QED
    BY <1>4, <2>1, <2>3, <2>4, <2>5 DEF Accounts
<1>9. method \in {"cash", "credit_balance"}
  BY DEF RefundMethods
<1>10. /\ IsFiniteSet(purchaseReturns) /\ IsFiniteSet(OnBalance(purchaseReturns))
       /\ t \notin purchaseReturns
  BY <1>1, <1>2, <1>7, FS_Subset DEF TablesFinite, OnBalance, Known
<1> HIDE DEF t, moves, account, amount, a
<1>11. TablesInv'
  <2>1. owed' \in [Parties -> Int]
    BY <1>1, <1>4, <1>5, OweMoves DEF LedgersTyped
  <2>2. LedgersTyped'
    BY <1>1, <1>2, <1>6, <1>8, <2>1 DEF LedgersTyped
  <2>3. TablesFinite'
    BY <1>1, <1>2, FS_AddElement DEF TablesFinite
  <2> QED
    BY <1>2, <2>2, <2>3 DEF MoneyInv, TablesInv, EventsTyped, PurchasesInBounds,
       CheckKeysUnique, DirectionFollowsParty
<1>12. \A r \in Parties :
         Amount(OnBalance(purchaseReturns'), r)
           = Amount(OnBalance(purchaseReturns), r) + (IF r = party THEN amount ELSE 0)
  <2>1. NoParty \notin Parties
    BY PartyAssumption DEF Parties
  <2>2. CASE method = "cash"
    <3>1. OnBalance(purchaseReturns') = OnBalance(purchaseReturns)
      BY <1>2, <1>7, <2>2 DEF OnBalance
    <3>2. \A r : Amount(OnBalance(purchaseReturns), r) \in Nat
      BY <1>1, SumsAreNat
    <3> QED
      BY <2>1, <2>2, <3>1, <3>2
  <2>3. CASE method = "credit_balance"
    <3>1. OnBalance(purchaseReturns') = OnBalance(purchaseReturns) \cup {t}
      BY <1>2, <1>7, <2>3 DEF OnBalance
    <3>2. t["amount"] \in 0 .. MaxQty /\ t \notin OnBalance(purchaseReturns)
      BY <1>4, <1>7, <1>10 DEF OnBalance
    <3>3. \A r : FieldSum(OnBalance(purchaseReturns) \cup {t}, "party", "amount", r)
                   = FieldSum(OnBalance(purchaseReturns), "party", "amount", r)
                       + Part(t, "party", "amount", r)
      BY <1>10, <3>2, SumMore
    <3> QED
      BY <1>7, <2>3, <3>1, <3>3 DEF FieldSum, Part, Amount
  <2> QED
    BY <1>9, <2>2, <2>3
<1> HIDE DEF party
<1>13. DebtsFollowDocuments'
  <2>1. ASSUME NEW r \in Parties
        PROVE  DebtOf(r)' = DebtOf(r) + (IF r = party THEN a ELSE 0)
    <3>1. DebtOf(r)' =
            Due(sales, r) + Due(purchases, r)
              - Amount(OnBalance(saleReturns), r)
              - Amount(OnBalance(purchaseReturns'), r)
              - Amount(settlements, r) - Amount(Standing(r), r)
              - Total(Lines(EndorsedTo(r), "endorsee", "amount"), r)
      BY <1>2, DebtWithoutCheques
    <3> QED
      BY <1>1, <1>4, <1>12, <3>1, SumsAreNat DEF DebtOf, a
  <2> QED
    BY <1>1, <1>4, <1>5, <2>1, DebtMoves DEF MoneyInv
<1>14. Reconciled'
  <2>1. Due(sales, NoParty) \in Int
    BY <1>1, SumsAreNat
  <2>2. Due(sales, NoParty)' = Due(sales, NoParty) + 0
    BY <1>2, <2>1 DEF Due
  <2>3. accounts["AR"] \in Int /\ accounts["AP"] \in Int
    BY <1>1 DEF LedgersTyped, Accounts
  <2>4. party \in Suppliers <=> method = "credit_balance"
    BY <1>3, PartyAssumption DEF party
  <2>5. party \notin Customers
    BY <1>3, PartyAssumption DEF party
  <2>6. accounts'["AR"] = accounts["AR"] + (IF party \in Customers THEN a ELSE 0) + 0
    BY <1>8, <2>3, <2>5 DEF Accounts
  <2>7. accounts'["AP"] = accounts["AP"] - (IF party \in Suppliers THEN a ELSE 0)
    BY <1>4, <1>8, <1>9, <2>3, <2>4 DEF a
  <2>8. Reconciled /\ 0 \in Int
    BY DEF MoneyInv
  <2> QED
    BY <1>1, <1>4, <1>5, <2>1, <2>2, <2>6, <2>7, <2>8, ReconcileMoves
<1>15. ChequePortfolio'
  BY <1>2, <1>8, PortfolioStays DEF MoneyInv, Accounts
<1>16. NobodyOverpays'
  <2>1. \A r \in Parties : /\ Amount(OnBalance(saleReturns), r) \in Nat
                           /\ Amount(OnBalance(purchaseReturns), r) \in Nat
    BY <1>1, SumsAreNat
  <2>2. \A r \in Parties : Back(r)' = Amount(OnBalance(saleReturns), r)
                                        + Amount(OnBalance(purchaseReturns'), r)
    BY <1>2 DEF Back, OnBalance
  <2>3. \A r \in Parties : Back(r)' = Back(r) + (IF r = party THEN amount ELSE 0)
    BY <1>4, <1>12, <2>1, <2>2 DEF Back
  <2>4. TablesFinite'
    BY <1>11 DEF TablesInv
  <2>5. a + amount >= 0
    BY <1>4 DEF a
  <2>6. NobodyOverpays
    BY DEF MoneyInv
  <2> QED
    BY <1>1, <1>4, <1>5, <2>3, <2>4, <2>5, <2>6, OverpaysMoves
<1>17. ReturnsHaveSale' /\ UnitsWithin' /\ WholeReturnsAddUp'
  BY <1>2, ReturnsStay DEF MoneyInv
<1> QED
  BY <1>11, <1>13, <1>14, <1>15, <1>16, <1>17 DEF MoneyInv

-----------------------------------------------------------------------------
(* Cheques *)

\* Whether cheque x counts for party q, as its own or as endorsed to it, and
\* whether it is one of those in some direction and statuses.
Stands(x, q) ==
  /\ x.party = q
  /\ IF q \in Customers THEN x.status \notin {"bounced", "cancelled"}
     ELSE x.status \in {"issued", "cleared"}
Names(x, q) == x.status = "endorsed" /\ x.endorsee = q
IsIn(x, direction, statuses) == x.direction = direction /\ x.status \in statuses
Share(counts, amount) == IF counts THEN amount ELSE 0

(* The worth of a set of cheques of which c leaves and d joins.             *)
LEMMA WorthSwap ==
  ASSUME NEW F, IsFiniteSet(F), NEW G, NEW c, NEW d, d \notin F \ {c},
         F \ {c} \subseteq G, G \subseteq (F \ {c}) \cup {d},
         c.amount \in 0 .. MaxQty, d.amount \in 0 .. MaxQty,
         c.direction \in {"receivable", "payable"},
         d.direction \in {"receivable", "payable"}
  PROVE  /\ Worth(G) = Worth(F) - Share(c \in F, c.amount) + Share(d \in G, d.amount)
         /\ Worth(F) \in Nat
<1>1. c["amount"] \in 0 .. MaxQty /\ d["amount"] \in 0 .. MaxQty
  OBVIOUS
<1>2. \A p : FieldSum(G, "direction", "amount", p)
               = FieldSum(F, "direction", "amount", p)
                   - (IF c \in F THEN Part(c, "direction", "amount", p) ELSE 0)
                   + (IF d \in G THEN Part(d, "direction", "amount", p) ELSE 0)
  BY <1>1, SumSwap
<1>3. \A p : FieldSum(F, "direction", "amount", p) \in Nat
  BY LinesFinite
<1>4. /\ Part(c, "direction", "amount", "receivable")
           + Part(c, "direction", "amount", "payable") = c.amount
      /\ Part(d, "direction", "amount", "receivable")
           + Part(d, "direction", "amount", "payable") = d.amount
      /\ \A p : /\ Part(c, "direction", "amount", p) \in Nat
                /\ Part(d, "direction", "amount", p) \in Nat
  BY MaxQtyAssumption DEF Part
<1>5. \A S : Worth(S) = FieldSum(S, "direction", "amount", "receivable")
                          + FieldSum(S, "direction", "amount", "payable")
  BY DEF Worth, FieldSum
<1> QED
  BY <1>2, <1>3, <1>4, <1>5 DEF Share

(* One cheque more.                                                         *)
LEMMA WorthMore ==
  ASSUME NEW F, IsFiniteSet(F), NEW d, d \notin F, d.amount \in 0 .. MaxQty,
         d.direction \in {"receivable", "payable"}
  PROVE  Worth(F \cup {d}) = Worth(F) + d.amount /\ Worth(F) \in Nat
<1>1. d["amount"] \in 0 .. MaxQty
  OBVIOUS
<1>2. \A p : FieldSum(F \cup {d}, "direction", "amount", p)
               = FieldSum(F, "direction", "amount", p)
                   + Part(d, "direction", "amount", p)
  BY <1>1, SumMore
<1>3. \A p : FieldSum(F, "direction", "amount", p) \in Nat
  BY LinesFinite
<1>4. /\ Part(d, "direction", "amount", "receivable")
           + Part(d, "direction", "amount", "payable") = d.amount
      /\ \A p : Part(d, "direction", "amount", p) \in Nat
  BY MaxQtyAssumption DEF Part
<1>5. \A S : Worth(S) = FieldSum(S, "direction", "amount", "receivable")
                          + FieldSum(S, "direction", "amount", "payable")
  BY DEF Worth, FieldSum
<1> QED
  BY <1>2, <1>3, <1>4, <1>5

(* A cheque taken settles as much of the debt as it is worth.               *)
LEMMA CreateCheckStep ==
  ASSUME MoneyInv, ChecksTyped,
         NEW k \in CheckKeys, NEW p \in Parties, NEW amount \in Qty,
         CreateCheck(k, p, amount)
  PROVE  MoneyInv'
<1> DEFINE receivable == p \in Customers
           money == IF receivable THEN "CHEQUES_RECEIVABLE" ELSE "CHEQUES_PAYABLE"
           a == 0 - amount
           d == [key |-> k, party |-> p, amount |-> amount, bank |-> NoBank,
                 endorsee |-> NoParty,
                 direction |-> IF receivable THEN "receivable" ELSE "payable",
                 status |-> IF receivable THEN "held" ELSE "issued"]
<1>1. amount \in Nat /\ amount \in 0 .. MaxQty /\ a \in Int
  BY MaxQtyAssumption DEF Qty
<1>2. /\ ~ Known(checks, k) /\ checks' = checks \cup {d} /\ Owe(p, a)
      /\ Settling(p, money, amount) /\ Payable(p, amount)
      /\ UNCHANGED <<sales, purchases, saleReturns, purchaseReturns, settlements,
                     checkEvents>>
  BY DEF CreateCheck, documentVars
<1>3. /\ d.key = k /\ d.party = p /\ d.amount = amount
      /\ d.direction = (IF receivable THEN "receivable" ELSE "payable")
      /\ d.status = (IF receivable THEN "held" ELSE "issued")
      /\ d["party"] = p /\ d["amount"] = amount
  OBVIOUS
<1>4. d \notin checks
  BY <1>2, <1>3 DEF Known
<1>5. LedgersTyped /\ TablesFinite
  BY DEF MoneyInv, TablesInv
<1>6. /\ accounts' \in [Accounts -> Int]
      /\ \A b \in Accounts \ {money, "AR", "AP"} : accounts'[b] = accounts[b]
      /\ accounts'["AR"] = accounts["AR"] + (IF p \in Customers THEN a ELSE 0)
      /\ accounts'["AP"] = accounts["AP"] - (IF p \in Suppliers THEN a ELSE 0)
      /\ accounts'[money] = accounts[money] + (IF receivable THEN amount ELSE a)
  <2>1. money \in Accounts \ {"AR", "AP"}
    BY DEF Accounts
  <2>2. p \in Suppliers <=> p \notin Customers
    BY PartyAssumption DEF Parties
  <2>3. \A b \in Accounts : accounts[b] \in Int
    BY <1>5 DEF LedgersTyped
  <2> HIDE DEF money
  <2>4. /\ accounts' \in [Accounts -> Int]
        /\ \A b \in Accounts :
             accounts'[b] =
               accounts[b]
                 + (IF p \in Customers
                    THEN IF b = money THEN amount
                         ELSE IF b = "AR" THEN 0 - amount ELSE 0
                    ELSE IF b = money THEN 0 - amount
                         ELSE IF b = "AP" THEN amount ELSE 0)
    BY <1>1, <1>2, <1>5, <2>1, SettlingMoves DEF LedgersTyped
  <2> QED
    BY <1>1, <2>1, <2>2, <2>3, <2>4 DEF Accounts
<1> HIDE DEF d
<1>7. TablesInv'
  <2>1. owed' \in [Parties -> Int]
    BY <1>1, <1>2, <1>5, OweMoves DEF LedgersTyped
  <2>2. LedgersTyped'
    BY <1>2, <1>5, <1>6, <2>1 DEF LedgersTyped
  <2>3. TablesFinite'
    BY <1>2, <1>5, FS_AddElement DEF TablesFinite
  <2>4. CheckKeysUnique'
    BY <1>2, <1>3 DEF MoneyInv, TablesInv, CheckKeysUnique, Known
  <2>5. DirectionFollowsParty'
    BY <1>2, <1>3 DEF MoneyInv, TablesInv, DirectionFollowsParty
  <2> QED
    BY <1>2, <2>2, <2>3, <2>4, <2>5 DEF MoneyInv, TablesInv, EventsTyped,
       PurchasesInBounds
<1>8. ASSUME NEW q \in Parties
      PROVE  DebtOf(q)' = DebtOf(q) + (IF q = p THEN a ELSE 0)
  <2>1. EndorsedTo(q)' = EndorsedTo(q)
    BY <1>2, <1>3 DEF EndorsedTo
  <2>2. Amount(Standing(q)', q)
          = Amount(Standing(q), q) + (IF q = p THEN amount ELSE 0)
    <3>1. CASE q = p
      <4>1. Standing(q)' = Standing(q) \cup {d}
        BY <1>2, <1>3, <3>1 DEF Standing
      <4>2. IsFiniteSet(Standing(q)) /\ d \notin Standing(q)
        BY <1>4, <1>5, FS_Subset DEF TablesFinite, Standing
      <4>3. d["amount"] \in 0 .. MaxQty
        BY <1>1, <1>3
      <4>4. FieldSum(Standing(q) \cup {d}, "party", "amount", q)
              = FieldSum(Standing(q), "party", "amount", q)
                  + Part(d, "party", "amount", q)
        BY <4>2, <4>3, SumMore
      <4> QED
        BY <1>3, <3>1, <4>1, <4>4 DEF FieldSum, Part, Amount
    <3>2. CASE q # p
      <4>1. Standing(q)' = Standing(q)
        BY <1>2, <1>3, <3>2 DEF Standing
      <4> QED
        BY <1>5, <3>2, <4>1, SumsAreNat
    <3> QED
      BY <3>1, <3>2
  <2>3. DebtOf(q)' =
          Due(sales, q) + Due(purchases, q)
            - Amount(OnBalance(saleReturns), q) - Amount(OnBalance(purchaseReturns), q)
            - Amount(settlements, q) - Amount(Standing(q)', q)
            - Total(Lines(EndorsedTo(q), "endorsee", "amount"), q)
    BY <1>2, <2>1 DEF DebtOf, Due, Amount, OnBalance
  <2> QED
    BY <1>1, <1>5, <2>2, <2>3, SumsAreNat DEF DebtOf
<1>9. DebtsFollowDocuments'
  <2> HIDE DEF a
  <2> QED
    BY <1>1, <1>2, <1>5, <1>8, DebtMoves DEF MoneyInv
<1>10. Reconciled'
  <2>1. Due(sales, NoParty) \in Int
    BY <1>5, SumsAreNat
  <2>2. Due(sales, NoParty)' = Due(sales, NoParty) + 0
    BY <1>2, <2>1 DEF Due
  <2>3. accounts["AR"] \in Int
    BY <1>5 DEF LedgersTyped, Accounts
  <2>4. accounts'["AR"] = accounts["AR"] + (IF p \in Customers THEN a ELSE 0) + 0
    BY <1>1, <1>6, <2>3
  <2>5. accounts'["AP"] = accounts["AP"] - (IF p \in Suppliers THEN a ELSE 0)
    BY <1>6
  <2>6. Reconciled /\ 0 \in Int
    BY DEF MoneyInv
  <2> HIDE DEF a
  <2> QED
    BY <1>1, <1>2, <1>5, <2>1, <2>2, <2>4, <2>5, <2>6, ReconcileMoves
<1>11. ChequePortfolio'
  <2>1. /\ ChequesIn("receivable", InHand)'
             = IF receivable THEN ChequesIn("receivable", InHand) \cup {d}
               ELSE ChequesIn("receivable", InHand)
        /\ ChequesIn("payable", {"issued"})'
             = IF receivable THEN ChequesIn("payable", {"issued"})
               ELSE ChequesIn("payable", {"issued"}) \cup {d}
        /\ \A direction : ChequesIn(direction, {"cleared"})'
                            = ChequesIn(direction, {"cleared"})
    BY <1>2, <1>3 DEF ChequesIn, InHand
  <2>2. \A direction, statuses : /\ IsFiniteSet(ChequesIn(direction, statuses))
                                 /\ d \notin ChequesIn(direction, statuses)
    BY <1>4, <1>5, FS_Subset DEF TablesFinite, ChequesIn
  <2>3. \A direction, statuses :
          /\ Worth(ChequesIn(direction, statuses) \cup {d})
               = Worth(ChequesIn(direction, statuses)) + amount
          /\ Worth(ChequesIn(direction, statuses)) \in Nat
    <3>1. d.amount \in 0 .. MaxQty /\ d.direction \in {"receivable", "payable"}
      BY <1>1, <1>3
    <3> QED
      BY <1>3, <2>2, <3>1, WorthMore
  <2>4. /\ accounts'["CHEQUES_RECEIVABLE"]
             = accounts["CHEQUES_RECEIVABLE"] + (IF receivable THEN amount ELSE 0)
        /\ accounts'["CHEQUES_PAYABLE"]
             = accounts["CHEQUES_PAYABLE"] - (IF receivable THEN 0 ELSE amount)
        /\ accounts'["BANK"] = accounts["BANK"]
        /\ accounts["CHEQUES_RECEIVABLE"] \in Int /\ accounts["CHEQUES_PAYABLE"] \in Int
    <3>1. \A b \in Accounts : accounts[b] \in Int
      BY <1>5 DEF LedgersTyped
    <3> QED
      BY <1>1, <1>6, <3>1 DEF Accounts
  <2>5. ChequePortfolio
    BY DEF MoneyInv
  <2> HIDE DEF receivable
  <2> QED
    BY <1>1, <2>1, <2>3, <2>4, <2>5 DEF ChequePortfolio
<1>12. NobodyOverpays'
  <2>1. \A q \in Parties : Back(q)' = Back(q) /\ Back(q) \in Nat
    BY <1>2, <1>5, SumsAreNat DEF Back, OnBalance
  <2>2. \A q \in Parties : Back(q)' = Back(q) + (IF q = p THEN 0 ELSE 0)
    BY <2>1
  <2>3. TablesFinite'
    BY <1>7 DEF TablesInv
  <2>4. owed[p] + a >= 0
    BY <1>1, <1>2, <1>5 DEF Payable, LedgersTyped
  <2>5. NobodyOverpays /\ 0 \in Nat
    BY DEF MoneyInv
  <2> HIDE DEF a
  <2> QED
    BY <1>1, <1>2, <1>5, <2>2, <2>3, <2>4, <2>5, OverpaysMoves
<1>13. ReturnsHaveSale' /\ UnitsWithin' /\ WholeReturnsAddUp'
  BY <1>2, ReturnsStay DEF MoneyInv
<1> QED
  BY <1>7, <1>9, <1>10, <1>11, <1>12, <1>13 DEF MoneyInv

CheckActions == {"deposit", "clear", "bounce", "endorse", "return_endorsement",
                 "cancel", "return"}

\* A transition turns c into d, which keeps its key, party, amount and direction.
Turned(k, c, action, d) ==
  /\ Becomes(k, c, action, d)
  /\ d.key = c.key /\ d.party = c.party
  /\ d.amount = c.amount /\ d.direction = c.direction

(* A transition keeps the tables in order.                                  *)
LEMMA TurnedTables ==
  ASSUME TablesInv, ChecksTyped, ChecksTyped', accounts' \in [Accounts -> Int],
         owed' \in [Parties -> Int],
         NEW k \in TransitionKeys, NEW c \in checks, NEW d,
         NEW action \in CheckActions,
         Turned(k, c, action, d)
  PROVE  TablesInv' /\ d \notin checks \ {c}
<1>1. /\ checks' = (checks \ {c}) \cup {d}
      /\ checkEvents' = checkEvents \cup
           {[key |-> k, check |-> c.key, action |-> action,
             from |-> c.status, to |-> d.status]}
      /\ UNCHANGED <<sales, purchases, saleReturns, purchaseReturns, settlements>>
      /\ d.key = c.key /\ d.party = c.party /\ d.direction = c.direction
  BY DEF Turned, Becomes, documentVars
<1>2. d \notin checks \ {c}
  BY <1>1 DEF TablesInv, CheckKeysUnique
<1>3. LedgersTyped' /\ PurchasesInBounds'
  BY <1>1 DEF TablesInv, LedgersTyped, PurchasesInBounds
<1>4. EventsTyped'
  <2>1. c.key \in CheckKeys /\ c.status \in Statuses
    BY DEF ChecksTyped
  <2>2. d.status \in Statuses
    BY <1>1 DEF ChecksTyped
  <2> QED
    BY <1>1, <2>1, <2>2 DEF TablesInv, EventsTyped, CheckActions
<1>5. TablesFinite'
  <2>1. IsFiniteSet(checks \ {c})
    BY FS_RemoveElement DEF TablesInv, TablesFinite
  <2>2. IsFiniteSet(checks')
    BY <1>1, <2>1, FS_AddElement
  <2> QED
    BY <1>1, <2>2 DEF TablesInv, TablesFinite
<1>6. CheckKeysUnique'
  <2>1. \A x \in checks \ {c} : x.key # d.key
    BY <1>1 DEF TablesInv, CheckKeysUnique
  <2> QED
    BY <1>1, <2>1 DEF TablesInv, CheckKeysUnique
<1>7. DirectionFollowsParty'
  BY <1>1 DEF TablesInv, DirectionFollowsParty
<1> QED
  BY <1>2, <1>3, <1>4, <1>5, <1>6, <1>7 DEF TablesInv

(* A transition moves the debt of a party by what the cheque counted for it *)
(* before and counts for it now.                                            *)
LEMMA TurnedDebts ==
  ASSUME TablesInv, ChecksTyped, NEW k, NEW c \in checks, NEW action, NEW d,
         Turned(k, c, action, d), d \notin checks \ {c}, NEW q \in Parties
  PROVE  DebtOf(q)' = DebtOf(q)
           + Share(Stands(c, q), c.amount) - Share(Stands(d, q), c.amount)
           + Share(Names(c, q), c.amount) - Share(Names(d, q), c.amount)
<1>1. /\ checks' = (checks \ {c}) \cup {d} /\ d.amount = c.amount
      /\ UNCHANGED <<sales, purchases, saleReturns, purchaseReturns, settlements>>
  BY DEF Turned, Becomes, documentVars
<1>2. TablesFinite /\ c.amount \in 0 .. MaxQty /\ c.amount \in Nat
  BY MaxQtyAssumption DEF TablesInv, ChecksTyped, Qty
<1>3. c["amount"] \in 0 .. MaxQty /\ d["amount"] \in 0 .. MaxQty
  BY <1>1, <1>2
<1>4. /\ Standing(q) = {x \in checks : Stands(x, q)}
      /\ Standing(q)' = {x \in checks' : Stands(x, q)}
      /\ EndorsedTo(q) = {x \in checks : Names(x, q)}
      /\ EndorsedTo(q)' = {x \in checks' : Names(x, q)}
  BY DEF Standing, EndorsedTo, Stands, Names
<1>5. Amount(Standing(q)', q)
        = Amount(Standing(q), q) - Share(Stands(c, q), c.amount)
            + Share(Stands(d, q), c.amount)
  <2> DEFINE F == Standing(q)
             G == Standing(q)'
  <2>1. /\ d \notin F \ {c} /\ F \ {c} \subseteq G /\ G \subseteq (F \ {c}) \cup {d}
        /\ c \in F <=> Stands(c, q)
        /\ d \in G <=> Stands(d, q)
    BY <1>1, <1>4
  <2>2. IsFiniteSet(F)
    BY <1>2, FS_Subset DEF TablesFinite, Standing
  <2>3. /\ Stands(c, q) => c["party"] = q
        /\ Stands(d, q) => d["party"] = q
    BY DEF Stands
  <2> HIDE DEF F, G
  <2>4. FieldSum(G, "party", "amount", q)
          = FieldSum(F, "party", "amount", q)
              - (IF c \in F THEN Part(c, "party", "amount", q) ELSE 0)
              + (IF d \in G THEN Part(d, "party", "amount", q) ELSE 0)
    BY <1>3, <2>1, <2>2, SumSwap
  <2> QED
    BY <1>1, <2>1, <2>3, <2>4 DEF FieldSum, Part, Amount, Share, F, G
<1>6. Total(Lines(EndorsedTo(q)', "endorsee", "amount"), q)
        = Total(Lines(EndorsedTo(q), "endorsee", "amount"), q)
            - Share(Names(c, q), c.amount) + Share(Names(d, q), c.amount)
  <2> DEFINE F == EndorsedTo(q)
             G == EndorsedTo(q)'
  <2>1. /\ d \notin F \ {c} /\ F \ {c} \subseteq G /\ G \subseteq (F \ {c}) \cup {d}
        /\ c \in F <=> Names(c, q)
        /\ d \in G <=> Names(d, q)
    BY <1>1, <1>4
  <2>2. IsFiniteSet(F)
    BY <1>2, FS_Subset DEF TablesFinite, EndorsedTo
  <2>3. /\ Names(c, q) => c["endorsee"] = q
        /\ Names(d, q) => d["endorsee"] = q
    BY DEF Names
  <2> HIDE DEF F, G
  <2>4. FieldSum(G, "endorsee", "amount", q)
          = FieldSum(F, "endorsee", "amount", q)
              - (IF c \in F THEN Part(c, "endorsee", "amount", q) ELSE 0)
              + (IF d \in G THEN Part(d, "endorsee", "amount", q) ELSE 0)
    BY <1>3, <2>1, <2>2, SumSwap
  <2> QED
    BY <1>1, <2>1, <2>3, <2>4 DEF FieldSum, Part, Share, F, G
<1>7. DebtOf(q)' =
        Due(sales, q) + Due(purchases, q)
          - Amount(OnBalance(saleReturns), q) - Amount(OnBalance(purchaseReturns), q)
          - Amount(settlements, q) - Amount(Standing(q)', q)
          - Total(Lines(EndorsedTo(q)', "endorsee", "amount"), q)
  BY <1>1 DEF DebtOf, Due, Amount, OnBalance
<1>8. \A b : Share(b, c.amount) \in Nat
  BY <1>2 DEF Share
<1> QED
  BY <1>2, <1>5, <1>6, <1>7, <1>8, SumsAreNat DEF DebtOf

(* A transition moves the worth of every pile of cheques likewise.          *)
LEMMA TurnedWorth ==
  ASSUME TablesInv, ChecksTyped, NEW k, NEW c \in checks, NEW action, NEW d,
         Turned(k, c, action, d), d \notin checks \ {c}, NEW direction, NEW statuses
  PROVE  /\ Worth(ChequesIn(direction, statuses)')
              = Worth(ChequesIn(direction, statuses))
                  - Share(IsIn(c, direction, statuses), c.amount)
                  + Share(IsIn(d, direction, statuses), c.amount)
         /\ Worth(ChequesIn(direction, statuses)) \in Nat
<1> DEFINE F == ChequesIn(direction, statuses)
           G == ChequesIn(direction, statuses)'
<1>1. /\ checks' = (checks \ {c}) \cup {d} /\ d.amount = c.amount
      /\ d.direction = c.direction
  BY DEF Turned, Becomes
<1>2. /\ c.amount \in 0 .. MaxQty /\ d.amount \in 0 .. MaxQty
      /\ c.direction \in {"receivable", "payable"}
      /\ d.direction \in {"receivable", "payable"}
  BY <1>1, MaxQtyAssumption DEF ChecksTyped, Qty
<1>3. G = {x \in checks' : IsIn(x, direction, statuses)}
  BY DEF ChequesIn, IsIn
<1>4. /\ d \notin F \ {c} /\ F \ {c} \subseteq G /\ G \subseteq (F \ {c}) \cup {d}
      /\ c \in F <=> IsIn(c, direction, statuses)
      /\ d \in G <=> IsIn(d, direction, statuses)
  BY <1>1, <1>3 DEF ChequesIn, IsIn
<1>5. IsFiniteSet(F)
  BY FS_Subset DEF TablesInv, TablesFinite, ChequesIn
<1> HIDE DEF F, G
<1>6. /\ Worth(G) = Worth(F) - Share(c \in F, c.amount) + Share(d \in G, d.amount)
      /\ Worth(F) \in Nat
  BY <1>2, <1>4, <1>5, WorthSwap
<1> QED
  BY <1>1, <1>4, <1>6 DEF Share, F, G

\* What the accounts get when the cheque c becomes d and p owes a more.
Moved(c, d, p, a) ==
  [AR |-> IF p \in Customers THEN a ELSE 0,
   AP |-> IF p \in Suppliers THEN 0 - a ELSE 0,
   CHEQUES_RECEIVABLE |-> Share(IsIn(d, "receivable", InHand), c.amount)
                            - Share(IsIn(c, "receivable", InHand), c.amount),
   CHEQUES_PAYABLE |-> Share(IsIn(c, "payable", {"issued"}), c.amount)
                         - Share(IsIn(d, "payable", {"issued"}), c.amount),
   BANK |-> Share(IsIn(d, "receivable", {"cleared"}), c.amount)
              - Share(IsIn(c, "receivable", {"cleared"}), c.amount)
              + Share(IsIn(c, "payable", {"cleared"}), c.amount)
              - Share(IsIn(d, "payable", {"cleared"}), c.amount)]

(* A transition keeps the books in order when the debt of p and the         *)
(* accounts move by what the cheque counts less or more.                    *)
LEMMA TransitionStep ==
  ASSUME MoneyInv, ChecksTyped, ChecksTyped',
         NEW k \in TransitionKeys, NEW c \in checks, NEW d,
         NEW action \in CheckActions,
         Turned(k, c, action, d),
         NEW p, NEW a \in Int, Owe(p, a), a >= 0 \/ owed[p] + a >= 0,
         \A q \in Parties :
           (IF q = p THEN a ELSE 0)
             = Share(Stands(c, q), c.amount) - Share(Stands(d, q), c.amount)
                 + Share(Names(c, q), c.amount) - Share(Names(d, q), c.amount),
         accounts' \in [Accounts -> Int],
         \A x \in Accounts \ {"CASH"} :
           accounts'[x] = accounts[x] + Moved(c, d, p, a)[x]
  PROVE  MoneyInv'
<1>1. LedgersTyped /\ TablesFinite /\ TablesInv
  BY DEF MoneyInv, TablesInv
<1>2. UNCHANGED <<sales, purchases, saleReturns, purchaseReturns, settlements>>
  BY DEF Turned, Becomes, documentVars
<1>3. c.amount \in Nat
  BY MaxQtyAssumption DEF ChecksTyped, Qty
<1>4. TablesInv' /\ d \notin checks \ {c}
  <2>1. owed' \in [Parties -> Int]
    BY <1>1, OweMoves DEF LedgersTyped
  <2> QED
    BY <1>1, <2>1, TurnedTables
<1>5. DebtsFollowDocuments'
  <2>1. ASSUME NEW q \in Parties
        PROVE  DebtOf(q)' = DebtOf(q) + (IF q = p THEN a ELSE 0)
    <3>1. DebtOf(q)' = DebtOf(q)
            + Share(Stands(c, q), c.amount) - Share(Stands(d, q), c.amount)
            + Share(Names(c, q), c.amount) - Share(Names(d, q), c.amount)
      BY <1>1, <1>4, TurnedDebts
    <3>2. DebtOf(q) \in Int
      BY <1>1 DEF MoneyInv, DebtsFollowDocuments, LedgersTyped
    <3>3. \A b : Share(b, c.amount) \in Nat
      BY <1>3 DEF Share
    <3> QED
      BY <3>1, <3>2, <3>3
  <2>2. DebtsFollowDocuments
    BY DEF MoneyInv
  <2> QED
    BY <1>1, <2>1, <2>2, DebtMoves
<1>6. Reconciled'
  <2>1. Due(sales, NoParty) \in Int
    BY <1>1, SumsAreNat
  <2>2. Due(sales, NoParty)' = Due(sales, NoParty) + 0
    BY <1>2, <2>1 DEF Due
  <2>3. accounts["AR"] \in Int /\ accounts["AP"] \in Int
    BY <1>1 DEF LedgersTyped, Accounts
  <2>4. /\ accounts'["AR"] = accounts["AR"] + (IF p \in Customers THEN a ELSE 0) + 0
        /\ accounts'["AP"] = accounts["AP"] - (IF p \in Suppliers THEN a ELSE 0)
    BY <2>3 DEF Moved, Accounts
  <2>5. Reconciled /\ 0 \in Int
    BY DEF MoneyInv
  <2> QED
    BY <1>1, <2>1, <2>2, <2>4, <2>5, ReconcileMoves
<1>7. ChequePortfolio'
  <2>1. \A direction, statuses :
          /\ Worth(ChequesIn(direction, statuses)')
               = Worth(ChequesIn(direction, statuses))
                   - Share(IsIn(c, direction, statuses), c.amount)
                   + Share(IsIn(d, direction, statuses), c.amount)
          /\ Worth(ChequesIn(direction, statuses)) \in Nat
    BY <1>1, <1>4, TurnedWorth
  <2>2. \A b : Share(b, c.amount) \in Nat
    BY <1>3 DEF Share
  <2>3. ChequePortfolio
    BY DEF MoneyInv
  <2>4. \A x \in {"CHEQUES_RECEIVABLE", "CHEQUES_PAYABLE", "BANK"} :
          accounts'[x] = accounts[x] + Moved(c, d, p, a)[x]
    BY DEF Accounts
  <2>5. /\ accounts'["CHEQUES_RECEIVABLE"] = Worth(ChequesIn("receivable", InHand)')
        /\ accounts'["CHEQUES_PAYABLE"] = 0 - Worth(ChequesIn("payable", {"issued"})')
        /\ accounts'["BANK"] = Worth(ChequesIn("receivable", {"cleared"})')
                                 - Worth(ChequesIn("payable", {"cleared"})')
    BY <2>1, <2>2, <2>3, <2>4 DEF ChequePortfolio, Moved
  <2> QED
    BY <2>5 DEF ChequePortfolio
<1>8. NobodyOverpays'
  <2>1. \A q \in Parties : Back(q)' = Back(q) /\ Back(q) \in Nat
    BY <1>1, <1>2, SumsAreNat DEF Back, OnBalance
  <2>2. \A q \in Parties : Back(q)' = Back(q) + (IF q = p THEN 0 ELSE 0)
    BY <2>1
  <2>3. TablesFinite'
    BY <1>4 DEF TablesInv
  <2>4. a + 0 >= 0 \/ owed[p] + a >= 0
    OBVIOUS
  <2>5. NobodyOverpays /\ 0 \in Nat
    BY DEF MoneyInv
  <2> QED
    BY <1>1, <2>2, <2>3, <2>4, <2>5, OverpaysMoves
<1>9. ReturnsHaveSale' /\ UnitsWithin' /\ WholeReturnsAddUp'
  BY <1>2, ReturnsStay DEF MoneyInv
<1> QED
  BY <1>4, <1>5, <1>6, <1>7, <1>8, <1>9 DEF MoneyInv

(* What is known of a cheque.                                               *)
LEMMA ChequeFacts ==
  ASSUME TablesInv, ChecksInv, NEW c \in checks
  PROVE  /\ c \in [key : CheckKeys, party : Parties, amount : Qty,
                   bank : BankAccounts \cup {NoBank},
                   endorsee : Suppliers \cup {NoParty},
                   direction : {"receivable", "payable"}, status : Statuses]
         /\ c.amount \in Nat
         /\ c.party \in Parties /\ NoParty \notin Parties
         /\ c.direction = "receivable" <=> c.party \in Customers
         /\ c.direction \in {"receivable", "payable"}
         /\ c.endorsee \in Suppliers \cup {NoParty}
         /\ c.status = "endorsed" <=> c.endorsee # NoParty
         /\ Customers \cap Suppliers = {}
         /\ c.party \in Customers \/ c.party \in Suppliers
<1>1. c \in [key : CheckKeys, party : Parties, amount : Qty,
             bank : BankAccounts \cup {NoBank},
             endorsee : Suppliers \cup {NoParty},
             direction : {"receivable", "payable"}, status : Statuses]
  BY DEF ChecksInv, ChecksTyped
<1>2. c.amount \in Nat
  BY <1>1, MaxQtyAssumption DEF Qty
<1> QED
  BY <1>1, <1>2, PartyAssumption
  DEF TablesInv, DirectionFollowsParty, ChecksInv, ChequeMetadata, Parties

(* A step without an entry in the party ledger.                             *)
LEMMA NothingOwed ==
  ASSUME LedgersTyped, UNCHANGED owed
  PROVE  Owe(NoParty, 0)
<1>1. NoParty \notin Parties
  BY PartyAssumption DEF Parties
<1> QED
  BY <1>1 DEF LedgersTyped, Owe

(* Handing a cheque in at the bank moves nothing but the cheque.            *)
LEMMA DepositStep ==
  ASSUME MoneyInv, ChecksInv, ChecksInv', NEW k \in TransitionKeys,
         NEW c \in checks, NEW b, Deposit(k, c, b)
  PROVE  MoneyInv'
<1> DEFINE d == [c EXCEPT !.status = "deposited", !.bank = BankOf(c, b)]
<1>1. TablesInv /\ LedgersTyped
  BY DEF MoneyInv, TablesInv
<1>2. /\ Becomes(k, c, "deposit", d) /\ UNCHANGED bookVars
      /\ c.direction = "receivable" /\ c.status \in {"held", "returned"}
  BY DEF Deposit
<1>3. /\ d.key = c.key /\ d.party = c.party /\ d.amount = c.amount
      /\ d.direction = c.direction /\ d.status = "deposited"
  BY <1>1, ChequeFacts
<1> HIDE DEF d
<1>4. Turned(k, c, "deposit", d) /\ "deposit" \in CheckActions
  BY <1>2, <1>3 DEF Turned, CheckActions
<1>5. Owe(NoParty, 0) /\ NoParty \notin Customers /\ NoParty \notin Suppliers
  BY <1>1, <1>2, NothingOwed, PartyAssumption DEF bookVars
<1>6. ASSUME NEW q \in Parties
      PROVE  (Stands(c, q) <=> Stands(d, q)) /\ ~ Names(c, q) /\ ~ Names(d, q)
  BY <1>1, <1>2, <1>3, ChequeFacts DEF Stands, Names
<1>7. /\ IsIn(c, "receivable", InHand) /\ IsIn(d, "receivable", InHand)
      /\ \A S : ~ IsIn(c, "payable", S) /\ ~ IsIn(d, "payable", S)
      /\ ~ IsIn(c, "receivable", {"cleared"}) /\ ~ IsIn(d, "receivable", {"cleared"})
  BY <1>2, <1>3 DEF IsIn, InHand
<1>8. accounts' = accounts /\ accounts \in [Accounts -> Int] /\ c.amount \in Nat
  BY <1>1, <1>2, ChequeFacts DEF bookVars, LedgersTyped
<1>9. ChecksTyped /\ ChecksTyped'
  BY DEF ChecksInv
<1>10. \A q \in Parties :
         (IF q = NoParty THEN 0 ELSE 0)
           = Share(Stands(c, q), c.amount) - Share(Stands(d, q), c.amount)
               + Share(Names(c, q), c.amount) - Share(Names(d, q), c.amount)
  BY <1>6, <1>8 DEF Share
<1>11. \A x \in Accounts \ {"CASH"} : Moved(c, d, NoParty, 0)[x] = 0
  BY <1>7, <1>8 DEF Moved, Share, Accounts
<1>12. \A x \in Accounts \ {"CASH"} :
         accounts'[x] = accounts[x] + Moved(c, d, NoParty, 0)[x]
  BY <1>8, <1>11
<1> QED
  BY <1>4, <1>5, <1>8, <1>9, <1>10, <1>12, TransitionStep

(* The same, when the journal is a transfer between two accounts.           *)
LEMMA TransferStep ==
  ASSUME MoneyInv, ChecksTyped, ChecksTyped',
         NEW k \in TransitionKeys, NEW c \in checks, NEW d,
         NEW action \in CheckActions,
         Turned(k, c, action, d),
         NEW p, NEW a \in Int, Owe(p, a), a >= 0 \/ owed[p] + a >= 0,
         \A q \in Parties :
           (IF q = p THEN a ELSE 0)
             = Share(Stands(c, q), c.amount) - Share(Stands(d, q), c.amount)
                 + Share(Names(c, q), c.amount) - Share(Names(d, q), c.amount),
         NEW debit, NEW credit, debit # credit, Transfer(debit, credit, c.amount),
         \A x \in Accounts \ {"CASH"} :
           Moved(c, d, p, a)[x] = (IF x = debit THEN c.amount
                                   ELSE IF x = credit THEN 0 - c.amount ELSE 0)
  PROVE  MoneyInv'
<1> DEFINE amount == c.amount
<1>1. LedgersTyped
  BY DEF MoneyInv, TablesInv
<1>2. amount \in Int
  BY MaxQtyAssumption DEF ChecksTyped, Qty
<1>3. Transfer(debit, credit, amount)
  OBVIOUS
<1>4. /\ accounts' \in [Accounts -> Int]
      /\ \A x \in Accounts :
           accounts'[x] = accounts[x] + (IF x = debit THEN amount
                                         ELSE IF x = credit THEN 0 - amount
                                         ELSE 0)
  <2>1. accounts \in [Accounts -> Int]
    BY <1>1 DEF LedgersTyped
  <2> DEFINE moves == [x \in {debit, credit} |->
                         IF x = debit THEN amount ELSE 0 - amount]
  <2>2. Post(moves)
    BY <1>3 DEF Transfer
  <2>3. DOMAIN moves = {debit, credit} /\ \A x \in DOMAIN moves : moves[x] \in Int
    BY <1>2
  <2>4. /\ accounts' \in [Accounts -> Int]
        /\ \A x \in Accounts :
             accounts'[x] = accounts[x] + (IF x \in DOMAIN moves THEN moves[x] ELSE 0)
    <3> HIDE DEF moves, amount
    <3> QED
      BY <2>1, <2>2, <2>3, PostMoves
  <2> QED
    BY <2>4
<1>5. \A x \in Accounts \ {"CASH"} :
        accounts'[x] = accounts[x] + Moved(c, d, p, a)[x]
  BY <1>4
<1> HIDE DEF amount
<1> QED
  BY <1>4, <1>5, TransitionStep

(* A cheque that clears becomes money at the bank, once.                    *)
LEMMA ClearReceivedStep ==
  ASSUME MoneyInv, ChecksInv, ChecksInv', NEW k \in TransitionKeys,
         NEW c \in checks, NEW b, Clear(k, c, b),
         c.direction = "receivable"
  PROVE  MoneyInv'
<1> DEFINE d == [c EXCEPT !.status = "cleared", !.bank = BankOf(c, b)]
           a == 0
<1>1. TablesInv /\ LedgersTyped
  BY DEF MoneyInv, TablesInv
<1>2. /\ Becomes(k, c, "clear", d) /\ UNCHANGED owed
      /\ Transfer("BANK", "CHEQUES_RECEIVABLE", c.amount)
      /\ c.direction = "receivable" /\ c.status \in InHand
  BY DEF Clear
<1>3. /\ d.key = c.key /\ d.party = c.party /\ d.amount = c.amount
      /\ d.direction = c.direction /\ d.status = "cleared"
  BY <1>1, ChequeFacts
<1> HIDE DEF d
<1>4. Turned(k, c, "clear", d) /\ "clear" \in CheckActions
  BY <1>2, <1>3 DEF Turned, CheckActions
<1>5. /\ NoParty \notin Customers /\ NoParty \notin Suppliers /\ NoParty \notin Parties
      /\ a \in Int /\ (a >= 0 \/ owed[NoParty] + a >= 0)
  BY PartyAssumption DEF Parties
<1>6. ASSUME NEW q \in Parties
      PROVE  (Stands(c, q) <=> Stands(d, q)) /\ ~ Names(c, q) /\ ~ Names(d, q)
  BY <1>1, <1>2, <1>3, <1>5, ChequeFacts DEF Stands, Names, InHand
<1>7. /\ IsIn(c, "receivable", InHand) /\ ~ IsIn(d, "receivable", InHand)
      /\ \A S : ~ IsIn(c, "payable", S) /\ ~ IsIn(d, "payable", S)
      /\ ~ IsIn(c, "receivable", {"cleared"}) /\ IsIn(d, "receivable", {"cleared"})
  BY <1>2, <1>3 DEF IsIn, InHand
<1>8. c.amount \in Nat /\ ChecksTyped /\ ChecksTyped'
  BY <1>1, ChequeFacts DEF ChecksInv
<1>9. \A q \in Parties :
        (IF q = NoParty THEN a ELSE 0)
          = Share(Stands(c, q), c.amount) - Share(Stands(d, q), c.amount)
              + Share(Names(c, q), c.amount) - Share(Names(d, q), c.amount)
  BY <1>5, <1>6, <1>8 DEF Share
<1>10. \A x \in Accounts \ {"CASH"} :
         Moved(c, d, NoParty, a)[x] = (IF x = "BANK" THEN c.amount
                              ELSE IF x = "CHEQUES_RECEIVABLE" THEN 0 - c.amount ELSE 0)
  BY <1>5, <1>7, <1>8 DEF Moved, Share, Accounts
<1>11. Owe(NoParty, a)
  BY <1>1, <1>2, NothingOwed
<1> HIDE DEF a
<1> QED
  BY <1>2, <1>4, <1>5, <1>8, <1>9, <1>10, <1>11, TransferStep

(* A cheque of the store that clears takes money off the bank, once.        *)
LEMMA ClearIssuedStep ==
  ASSUME MoneyInv, ChecksInv, ChecksInv', NEW k \in TransitionKeys,
         NEW c \in checks, NEW b, Clear(k, c, b),
         c.direction # "receivable"
  PROVE  MoneyInv'
<1> DEFINE d == [c EXCEPT !.status = "cleared", !.bank = BankOf(c, b)]
           a == 0
<1>1. TablesInv /\ LedgersTyped
  BY DEF MoneyInv, TablesInv
<1>2. /\ Becomes(k, c, "clear", d) /\ UNCHANGED owed
      /\ Transfer("CHEQUES_PAYABLE", "BANK", c.amount)
      /\ c.direction = "payable" /\ c.status = "issued"
  BY DEF Clear
<1>3. /\ d.key = c.key /\ d.party = c.party /\ d.amount = c.amount
      /\ d.direction = c.direction /\ d.status = "cleared"
  BY <1>1, ChequeFacts
<1> HIDE DEF d
<1>4. Turned(k, c, "clear", d) /\ "clear" \in CheckActions
  BY <1>2, <1>3 DEF Turned, CheckActions
<1>5. /\ NoParty \notin Customers /\ NoParty \notin Suppliers /\ NoParty \notin Parties
      /\ a \in Int /\ (a >= 0 \/ owed[NoParty] + a >= 0)
  BY PartyAssumption DEF Parties
<1>6. ASSUME NEW q \in Parties
      PROVE  (Stands(c, q) <=> Stands(d, q)) /\ ~ Names(c, q) /\ ~ Names(d, q)
  BY <1>1, <1>2, <1>3, <1>5, ChequeFacts DEF Stands, Names, InHand
<1>7. /\ IsIn(c, "payable", {"issued"}) /\ ~ IsIn(d, "payable", {"issued"})
      /\ \A S : ~ IsIn(c, "receivable", S) /\ ~ IsIn(d, "receivable", S)
      /\ ~ IsIn(c, "payable", {"cleared"}) /\ IsIn(d, "payable", {"cleared"})
  BY <1>2, <1>3 DEF IsIn
<1>8. c.amount \in Nat /\ ChecksTyped /\ ChecksTyped'
  BY <1>1, ChequeFacts DEF ChecksInv
<1>9. \A q \in Parties :
        (IF q = NoParty THEN a ELSE 0)
          = Share(Stands(c, q), c.amount) - Share(Stands(d, q), c.amount)
              + Share(Names(c, q), c.amount) - Share(Names(d, q), c.amount)
  BY <1>5, <1>6, <1>8 DEF Share
<1>10. \A x \in Accounts \ {"CASH"} :
         Moved(c, d, NoParty, a)[x] = (IF x = "CHEQUES_PAYABLE" THEN c.amount
                              ELSE IF x = "BANK" THEN 0 - c.amount ELSE 0)
  BY <1>5, <1>7, <1>8 DEF Moved, Share, Accounts
<1>11. Owe(NoParty, a)
  BY <1>1, <1>2, NothingOwed
<1> HIDE DEF a
<1> QED
  BY <1>2, <1>4, <1>5, <1>8, <1>9, <1>10, <1>11, TransferStep

(* Who gave a cheque that bounces owes it again.                            *)
LEMMA BounceStep ==
  ASSUME MoneyInv, ChecksInv, ChecksInv', NEW k \in TransitionKeys,
         NEW c \in checks, Bounce(k, c)
  PROVE  MoneyInv'
<1> DEFINE d == [c EXCEPT !.status = "bounced"]
           a == c.amount
<1>1. TablesInv /\ LedgersTyped
  BY DEF MoneyInv, TablesInv
<1>2. /\ Becomes(k, c, "bounce", d) /\ Owe(c.party, c.amount)
      /\ Transfer("AR", "CHEQUES_RECEIVABLE", c.amount)
      /\ c.direction = "receivable" /\ c.status \in InHand
  BY DEF Bounce
<1>3. /\ d.key = c.key /\ d.party = c.party /\ d.amount = c.amount
      /\ d.direction = c.direction /\ d.status = "bounced"
  BY <1>1, ChequeFacts
<1> HIDE DEF d
<1>4. Turned(k, c, "bounce", d) /\ "bounce" \in CheckActions
  BY <1>2, <1>3 DEF Turned, CheckActions
<1>5. /\ c.party \in Customers /\ c.party \notin Suppliers
      /\ a \in Int /\ (a >= 0 \/ owed[c.party] + a >= 0)
  BY <1>1, <1>2, ChequeFacts
<1>6. ASSUME NEW q \in Parties
      PROVE  /\ (Stands(c, q) <=> q = c.party) /\ ~ Stands(d, q)
             /\ ~ Names(c, q) /\ ~ Names(d, q)
  BY <1>1, <1>2, <1>3, <1>5, ChequeFacts DEF Stands, Names, InHand
<1>7. /\ IsIn(c, "receivable", InHand) /\ ~ IsIn(d, "receivable", InHand)
      /\ \A S : ~ IsIn(c, "payable", S) /\ ~ IsIn(d, "payable", S)
      /\ ~ IsIn(c, "receivable", {"cleared"}) /\ ~ IsIn(d, "receivable", {"cleared"})
  BY <1>2, <1>3 DEF IsIn, InHand
<1>8. c.amount \in Nat /\ ChecksTyped /\ ChecksTyped'
  BY <1>1, ChequeFacts DEF ChecksInv
<1>9. \A q \in Parties :
        (IF q = c.party THEN a ELSE 0)
          = Share(Stands(c, q), c.amount) - Share(Stands(d, q), c.amount)
              + Share(Names(c, q), c.amount) - Share(Names(d, q), c.amount)
  BY <1>5, <1>6, <1>8 DEF Share
<1>10. \A x \in Accounts \ {"CASH"} :
         Moved(c, d, c.party, a)[x] = (IF x = "AR" THEN c.amount
                              ELSE IF x = "CHEQUES_RECEIVABLE" THEN 0 - c.amount ELSE 0)
  BY <1>5, <1>7, <1>8 DEF Moved, Share, Accounts
<1>11. Owe(c.party, a)
  BY <1>1, <1>2
<1> HIDE DEF a
<1> QED
  BY <1>2, <1>4, <1>5, <1>8, <1>9, <1>10, <1>11, TransferStep

(* And so does who takes his cheque back.                                   *)
LEMMA CancelReceivableStep ==
  ASSUME MoneyInv, ChecksInv, ChecksInv', NEW k \in TransitionKeys,
         NEW c \in checks, CancelReceivable(k, c)
  PROVE  MoneyInv'
<1> DEFINE d == [c EXCEPT !.status = "cancelled"]
           a == c.amount
<1>1. TablesInv /\ LedgersTyped
  BY DEF MoneyInv, TablesInv
<1>2. /\ Becomes(k, c, "cancel", d) /\ Owe(c.party, c.amount)
      /\ Transfer("AR", "CHEQUES_RECEIVABLE", c.amount)
      /\ c.direction = "receivable" /\ c.status = "held"
  BY DEF CancelReceivable
<1>3. /\ d.key = c.key /\ d.party = c.party /\ d.amount = c.amount
      /\ d.direction = c.direction /\ d.status = "cancelled"
  BY <1>1, ChequeFacts
<1> HIDE DEF d
<1>4. Turned(k, c, "cancel", d) /\ "cancel" \in CheckActions
  BY <1>2, <1>3 DEF Turned, CheckActions
<1>5. /\ c.party \in Customers /\ c.party \notin Suppliers
      /\ a \in Int /\ (a >= 0 \/ owed[c.party] + a >= 0)
  BY <1>1, <1>2, ChequeFacts
<1>6. ASSUME NEW q \in Parties
      PROVE  /\ (Stands(c, q) <=> q = c.party) /\ ~ Stands(d, q)
             /\ ~ Names(c, q) /\ ~ Names(d, q)
  BY <1>1, <1>2, <1>3, <1>5, ChequeFacts DEF Stands, Names, InHand
<1>7. /\ IsIn(c, "receivable", InHand) /\ ~ IsIn(d, "receivable", InHand)
      /\ \A S : ~ IsIn(c, "payable", S) /\ ~ IsIn(d, "payable", S)
      /\ ~ IsIn(c, "receivable", {"cleared"}) /\ ~ IsIn(d, "receivable", {"cleared"})
  BY <1>2, <1>3 DEF IsIn, InHand
<1>8. c.amount \in Nat /\ ChecksTyped /\ ChecksTyped'
  BY <1>1, ChequeFacts DEF ChecksInv
<1>9. \A q \in Parties :
        (IF q = c.party THEN a ELSE 0)
          = Share(Stands(c, q), c.amount) - Share(Stands(d, q), c.amount)
              + Share(Names(c, q), c.amount) - Share(Names(d, q), c.amount)
  BY <1>5, <1>6, <1>8 DEF Share
<1>10. \A x \in Accounts \ {"CASH"} :
         Moved(c, d, c.party, a)[x] = (IF x = "AR" THEN c.amount
                              ELSE IF x = "CHEQUES_RECEIVABLE" THEN 0 - c.amount ELSE 0)
  BY <1>5, <1>7, <1>8 DEF Moved, Share, Accounts
<1>11. Owe(c.party, a)
  BY <1>1, <1>2
<1> HIDE DEF a
<1> QED
  BY <1>2, <1>4, <1>5, <1>8, <1>9, <1>10, <1>11, TransferStep

(* A cheque passed on settles what the store owes a supplier, and still     *)
(* counts for the customer who gave it.                                     *)
LEMMA EndorseStep ==
  ASSUME MoneyInv, ChecksInv, ChecksInv', NEW k \in TransitionKeys,
         NEW c \in checks, NEW s \in Suppliers, Endorse(k, c, s)
  PROVE  MoneyInv'
<1> DEFINE d == [c EXCEPT !.status = "endorsed", !.endorsee = s]
           a == 0 - c.amount
<1>1. TablesInv /\ LedgersTyped
  BY DEF MoneyInv, TablesInv
<1>2. /\ Becomes(k, c, "endorse", d) /\ Owe(s, 0 - c.amount)
      /\ Transfer("AP", "CHEQUES_RECEIVABLE", c.amount)
      /\ c.direction = "receivable" /\ c.status \in {"held", "returned"}
      /\ owed[s] >= c.amount
  BY DEF Endorse
<1>3. /\ d.key = c.key /\ d.party = c.party /\ d.amount = c.amount
      /\ d.direction = c.direction /\ d.status = "endorsed" /\ d.endorsee = s
  BY <1>1, ChequeFacts
<1> HIDE DEF d
<1>4. Turned(k, c, "endorse", d) /\ "endorse" \in CheckActions
  BY <1>2, <1>3 DEF Turned, CheckActions
<1>5. /\ s \notin Customers /\ s \in Parties
      /\ a \in Int /\ (a >= 0 \/ owed[s] + a >= 0)
  BY <1>1, <1>2, ChequeFacts DEF LedgersTyped, Parties
<1>6. ASSUME NEW q \in Parties
      PROVE  /\ (Stands(c, q) <=> Stands(d, q))
             /\ ~ Names(c, q) /\ (Names(d, q) <=> q = s)
  BY <1>1, <1>2, <1>3, <1>5, ChequeFacts DEF Stands, Names, InHand
<1>7. /\ IsIn(c, "receivable", InHand) /\ ~ IsIn(d, "receivable", InHand)
      /\ \A S : ~ IsIn(c, "payable", S) /\ ~ IsIn(d, "payable", S)
      /\ ~ IsIn(c, "receivable", {"cleared"}) /\ ~ IsIn(d, "receivable", {"cleared"})
  BY <1>2, <1>3 DEF IsIn, InHand
<1>8. c.amount \in Nat /\ ChecksTyped /\ ChecksTyped'
  BY <1>1, ChequeFacts DEF ChecksInv
<1>9. \A q \in Parties :
        (IF q = s THEN a ELSE 0)
          = Share(Stands(c, q), c.amount) - Share(Stands(d, q), c.amount)
              + Share(Names(c, q), c.amount) - Share(Names(d, q), c.amount)
  BY <1>5, <1>6, <1>8 DEF Share
<1>10. \A x \in Accounts \ {"CASH"} :
         Moved(c, d, s, a)[x] = (IF x = "AP" THEN c.amount
                              ELSE IF x = "CHEQUES_RECEIVABLE" THEN 0 - c.amount ELSE 0)
  BY <1>5, <1>7, <1>8 DEF Moved, Share, Accounts
<1>11. Owe(s, a)
  BY <1>1, <1>2
<1> HIDE DEF a
<1> QED
  BY <1>2, <1>4, <1>5, <1>8, <1>9, <1>10, <1>11, TransferStep

(* The supplier who hands it back is owed again.                            *)
LEMMA ReturnEndorsementStep ==
  ASSUME MoneyInv, ChecksInv, ChecksInv', NEW k \in TransitionKeys,
         NEW c \in checks, ReturnEndorsement(k, c)
  PROVE  MoneyInv'
<1> DEFINE d == [c EXCEPT !.status = "returned", !.endorsee = NoParty]
           a == c.amount
<1>1. TablesInv /\ LedgersTyped
  BY DEF MoneyInv, TablesInv
<1>2. /\ Becomes(k, c, "return_endorsement", d) /\ Owe(c.endorsee, c.amount)
      /\ Transfer("CHEQUES_RECEIVABLE", "AP", c.amount)
      /\ c.direction = "receivable" /\ c.status = "endorsed"
  BY DEF ReturnEndorsement
<1>3. /\ d.key = c.key /\ d.party = c.party /\ d.amount = c.amount
      /\ d.direction = c.direction /\ d.status = "returned" /\ d.endorsee = NoParty
  BY <1>1, ChequeFacts
<1> HIDE DEF d
<1>4. Turned(k, c, "return_endorsement", d) /\ "return_endorsement" \in CheckActions
  BY <1>2, <1>3 DEF Turned, CheckActions
<1>5. /\ c.endorsee \in Suppliers /\ c.endorsee \notin Customers
      /\ a \in Int /\ (a >= 0 \/ owed[c.endorsee] + a >= 0)
  BY <1>1, <1>2, ChequeFacts
<1>6. ASSUME NEW q \in Parties
      PROVE  /\ (Stands(c, q) <=> Stands(d, q))
             /\ (Names(c, q) <=> q = c.endorsee) /\ ~ Names(d, q)
  BY <1>1, <1>2, <1>3, <1>5, ChequeFacts DEF Stands, Names, InHand
<1>7. /\ ~ IsIn(c, "receivable", InHand) /\ IsIn(d, "receivable", InHand)
      /\ \A S : ~ IsIn(c, "payable", S) /\ ~ IsIn(d, "payable", S)
      /\ ~ IsIn(c, "receivable", {"cleared"}) /\ ~ IsIn(d, "receivable", {"cleared"})
  BY <1>2, <1>3 DEF IsIn, InHand
<1>8. c.amount \in Nat /\ ChecksTyped /\ ChecksTyped'
  BY <1>1, ChequeFacts DEF ChecksInv
<1>9. \A q \in Parties :
        (IF q = c.endorsee THEN a ELSE 0)
          = Share(Stands(c, q), c.amount) - Share(Stands(d, q), c.amount)
              + Share(Names(c, q), c.amount) - Share(Names(d, q), c.amount)
  BY <1>5, <1>6, <1>8 DEF Share
<1>10. \A x \in Accounts \ {"CASH"} :
         Moved(c, d, c.endorsee, a)[x] = (IF x = "CHEQUES_RECEIVABLE" THEN c.amount
                              ELSE IF x = "AP" THEN 0 - c.amount ELSE 0)
  BY <1>5, <1>7, <1>8 DEF Moved, Share, Accounts
<1>11. Owe(c.endorsee, a)
  BY <1>1, <1>2
<1> HIDE DEF a
<1> QED
  BY <1>2, <1>4, <1>5, <1>8, <1>9, <1>10, <1>11, TransferStep

(* A supplier whose cheque comes back is owed again.                        *)
LEMMA TakeBackPayableStep ==
  ASSUME MoneyInv, ChecksInv, ChecksInv', NEW k \in TransitionKeys,
         NEW c \in checks, NEW action \in {"return", "cancel"},
         TakeBackPayable(k, c, action)
  PROVE  MoneyInv'
<1> DEFINE d == [c EXCEPT !.status = IF action = "cancel" THEN "cancelled"
                                       ELSE "returned"]
           a == c.amount
<1>1. TablesInv /\ LedgersTyped
  BY DEF MoneyInv, TablesInv
<1>2. /\ Becomes(k, c, action, d) /\ Owe(c.party, c.amount)
      /\ Transfer("CHEQUES_PAYABLE", "AP", c.amount)
      /\ c.direction = "payable" /\ c.status = "issued"
  BY DEF TakeBackPayable
<1>3. /\ d.key = c.key /\ d.party = c.party /\ d.amount = c.amount
      /\ d.direction = c.direction /\ d.status \in {"cancelled", "returned"}
  BY <1>1, ChequeFacts
<1> HIDE DEF d
<1>4. Turned(k, c, action, d) /\ action \in CheckActions
  BY <1>2, <1>3 DEF Turned, CheckActions
<1>5. /\ c.party \in Suppliers /\ c.party \notin Customers
      /\ a \in Int /\ (a >= 0 \/ owed[c.party] + a >= 0)
  BY <1>1, <1>2, ChequeFacts
<1>6. ASSUME NEW q \in Parties
      PROVE  /\ (Stands(c, q) <=> q = c.party) /\ ~ Stands(d, q)
             /\ ~ Names(c, q) /\ ~ Names(d, q)
  BY <1>1, <1>2, <1>3, <1>5, ChequeFacts DEF Stands, Names, InHand
<1>7. /\ IsIn(c, "payable", {"issued"}) /\ ~ IsIn(d, "payable", {"issued"})
      /\ \A S : ~ IsIn(c, "receivable", S) /\ ~ IsIn(d, "receivable", S)
      /\ ~ IsIn(c, "payable", {"cleared"}) /\ ~ IsIn(d, "payable", {"cleared"})
  BY <1>2, <1>3 DEF IsIn
<1>8. c.amount \in Nat /\ ChecksTyped /\ ChecksTyped'
  BY <1>1, ChequeFacts DEF ChecksInv
<1>9. \A q \in Parties :
        (IF q = c.party THEN a ELSE 0)
          = Share(Stands(c, q), c.amount) - Share(Stands(d, q), c.amount)
              + Share(Names(c, q), c.amount) - Share(Names(d, q), c.amount)
  BY <1>5, <1>6, <1>8 DEF Share
<1>10. \A x \in Accounts \ {"CASH"} :
         Moved(c, d, c.party, a)[x] = (IF x = "CHEQUES_PAYABLE" THEN c.amount
                              ELSE IF x = "AP" THEN 0 - c.amount ELSE 0)
  BY <1>5, <1>7, <1>8 DEF Moved, Share, Accounts
<1>11. Owe(c.party, a)
  BY <1>1, <1>2
<1> HIDE DEF a
<1> QED
  BY <1>2, <1>4, <1>5, <1>8, <1>9, <1>10, <1>11, TransferStep

-----------------------------------------------------------------------------
(* The books *)

(* Every transition keeps the books in order.                               *)
LEMMA TransitionCheckStep ==
  ASSUME MoneyInv, ChecksInv, ChecksInv',
         NEW k \in TransitionKeys, NEW role \in Roles, NEW c \in checks,
         TransitionCheck(k, role, c)
  PROVE  MoneyInv'
<1>1. ASSUME NEW b, Clear(k, c, b)
      PROVE  MoneyInv'
  BY <1>1, ClearReceivedStep, ClearIssuedStep
<1> QED
  BY <1>1, DepositStep, BounceStep, EndorseStep, ReturnEndorsementStep,
     CancelReceivableStep, TakeBackPayableStep DEF TransitionCheck

(* A step that writes none of the tables of the books.                      *)
LEMMA IdleStep ==
  ASSUME MoneyInv, UNCHANGED <<bookVars, documentVars, checkVars>>
  PROVE  MoneyInv'
<1>1. /\ UNCHANGED <<accounts, owed, sales, purchases, saleReturns>>
      /\ UNCHANGED <<purchaseReturns, settlements, checks, checkEvents>>
  BY DEF bookVars, documentVars, checkVars
<1>2. TablesInv'
  BY <1>1 DEF MoneyInv, TablesInv, LedgersTyped, EventsTyped, TablesFinite,
     PurchasesInBounds, CheckKeysUnique, DirectionFollowsParty
<1>3. DebtsFollowDocuments'
  <2>1. \A p : DebtOf(p)' = DebtOf(p)
    BY <1>1 DEF DebtOf, Due, Amount, OnBalance, Standing, EndorsedTo
  <2> QED
    BY <1>1, <2>1 DEF MoneyInv, DebtsFollowDocuments
<1>4. Reconciled'
  BY <1>1 DEF MoneyInv, Reconciled, LedgersReconcile, Summable, SumOf, Heap, Due
<1>5. ChequePortfolio'
  BY <1>1, PortfolioStays DEF MoneyInv
<1>6. NobodyOverpays'
  BY <1>1 DEF MoneyInv, NobodyOverpays, OnBalance
<1>7. ReturnsHaveSale' /\ UnitsWithin' /\ WholeReturnsAddUp'
  BY <1>1, ReturnsStay DEF MoneyInv
<1> QED
  BY <1>2, <1>3, <1>4, <1>5, <1>6, <1>7 DEF MoneyInv

(* Every step of the store keeps the books in order.                        *)
LEMMA MoneyInvStep ==
  ASSUME MoneyInv, SaleKeysUnique, ChecksInv, ChecksInv', [Next]_vars
  PROVE  MoneyInv'
<1>1. ChecksTyped
  BY DEF ChecksInv
<1> QED
  BY <1>1, StepShapes, SaleStep, PurchaseStep, SaleReturnStep, PurchaseReturnStep,
     SettlementStep, CreateCheckStep, TransitionCheckStep, IdleStep

(* The books begin empty.                                                   *)
LEMMA MoneyInvInit ==
  ASSUME Init
  PROVE  MoneyInv
<1>1. /\ accounts = [a \in Accounts |-> 0] /\ owed = [p \in Parties |-> 0]
      /\ sales = {} /\ purchases = {} /\ saleReturns = {} /\ purchaseReturns = {}
      /\ settlements = {} /\ checks = {} /\ checkEvents = {}
  BY DEF Init, LedgerInit, ChecksInit
<1>2. IsFiniteSet({})
  BY FS_EmptySet
<1>3. TablesInv
  BY <1>1, <1>2 DEF TablesInv, LedgersTyped, EventsTyped, TablesFinite,
     PurchasesInBounds, CheckKeysUnique, DirectionFollowsParty
<1>4. \A who, what, p : Total(Lines({}, who, what), p) = 0
  BY SumNone DEF FieldSum
<1>5. /\ OnBalance(saleReturns) = {} /\ OnBalance(purchaseReturns) = {}
      /\ \A p : Standing(p) = {} /\ EndorsedTo(p) = {}
      /\ \A direction, statuses : ChequesIn(direction, statuses) = {}
  BY <1>1 DEF OnBalance, Standing, EndorsedTo, ChequesIn
<1>6. DebtsFollowDocuments
  <2>1. \A p : DebtOf(p) = 0
    BY <1>1, <1>4, <1>5 DEF DebtOf, Due, Amount
  <2> QED
    BY <1>1, <2>1 DEF DebtsFollowDocuments
<1>7. Reconciled
  <2>1. /\ \A p \in Customers : owed[p] = 0
        /\ \A p \in Suppliers : owed[p] = 0
    BY <1>1 DEF Parties
  <2>2. /\ SumOf(owed, Customers) = 0 /\ Summable(owed, Customers)
        /\ SumOf(owed, Suppliers) = 0 /\ Summable(owed, Suppliers)
    BY <2>1, SumOfZero
  <2>3. Due(sales, NoParty) = 0
    BY <1>1, <1>4 DEF Due
  <2>4. accounts["AR"] = 0 /\ accounts["AP"] = 0
    BY <1>1 DEF Accounts
  <2> QED
    BY <2>2, <2>3, <2>4 DEF Reconciled, LedgersReconcile
<1>8. ChequePortfolio
  BY <1>1, <1>4, <1>5 DEF ChequePortfolio, Worth, Accounts
<1>9. NobodyOverpays
  BY <1>1, <1>4, <1>5 DEF NobodyOverpays, Amount
<1>10. ReturnsHaveSale /\ UnitsWithin /\ WholeReturnsAddUp
  BY <1>1 DEF ReturnsHaveSale, UnitsWithin, WholeReturnsAddUp
<1> QED
  BY <1>3, <1>6, <1>7, <1>8, <1>9, <1>10 DEF MoneyInv

LEMMA MoneyInvAlways == Spec => [](MoneyInv /\ TradeInv /\ ChecksInv)
<1> DEFINE Inv == MoneyInv /\ TradeInv /\ ChecksInv
<1>1. Init => Inv
  BY MoneyInvInit, TradeInvInit
  DEF Init, ChecksInit, ChecksInv, ChecksTyped, ChequeMetadata
<1>2. Inv /\ [Next]_vars => Inv'
  BY MoneyInvStep, TradeInvStep, ChecksInvStep DEF TradeInv
<1>3. Spec => []Inv
  <2> HIDE DEF Inv
  <2> QED
    BY <1>1, <1>2, PTL DEF Spec
<1> QED
  BY <1>3

(* Every table of the store holds records of its shape, and no refund or    *)
(* return is worth nothing or more than the largest amount.                 *)
THEOREM BooksTyped == Spec => []TypeOK
<1>1. MoneyInv /\ TradeInv /\ ChecksInv => TypeOK
  BY DEF MoneyInv, TablesInv, LedgersTyped, EventsTyped, TradeInv, RequestsTyped,
         ChecksInv, ChecksTyped, TypeOK
<1> QED
  BY <1>1, MoneyInvAlways, PTL

(* The balance partyBalanceTx adds up for a customer or a supplier is what  *)
(* its documents say, whatever sales, returns, settlements and transitions  *)
(* of cheques interleave (finance/checks.go, TransitionCheck).              *)
THEOREM BalancesFollowDocuments == Spec => []DebtsFollowDocuments
<1>1. MoneyInv => DebtsFollowDocuments
  BY DEF MoneyInv
<1> QED
  BY <1>1, MoneyInvAlways, PTL

(* Accounts Receivable and Accounts Payable agree with the party ledger,    *)
(* but for network sales without a customer: every handler posts the same   *)
(* amount to both (sales, purchases, returns and finance services).         *)
THEOREM LedgersAgree == Spec => []LedgersReconcile
<1>1. MoneyInv => LedgersReconcile
  BY DEF MoneyInv, Reconciled
<1> QED
  BY <1>1, MoneyInvAlways, PTL

(* The accounts of the cheques hold the open cheques, and the banks what    *)
(* was cleared: whatever its history a cheque becomes money once            *)
(* (finance/checks.go, TransitionCheck and CheckSummary).                   *)
THEOREM PortfolioIsBooked == Spec => []ChequePortfolio
<1>1. MoneyInv => ChequePortfolio
  BY DEF MoneyInv
<1> QED
  BY <1>1, MoneyInvAlways, PTL

(* A party is in credit by no more than what it returned: the guards of     *)
(* settlements, cheques and endorsements together never let more be paid    *)
(* than is owed (finance/service.go, CreateSettlement).                     *)
THEOREM NobodyEverOverpays == Spec => []NobodyOverpays
<1>1. MoneyInv => NobodyOverpays
  BY DEF MoneyInv
<1> QED
  BY <1>1, MoneyInvAlways, PTL

(* Returning every unit of a sale gives back its total, whatever the        *)
(* partial returns before were rounded to (returns/service.go,              *)
(* CreateSaleReturn).                                                       *)
THEOREM WholeReturnsGiveBackAll == Spec => []WholeReturnsAddUp
<1>1. MoneyInv => WholeReturnsAddUp
  BY DEF MoneyInv
<1> QED
  BY <1>1, MoneyInvAlways, PTL
=============================================================================
