-------------------------- MODULE LineTotalsProofs --------------------------
(***************************************************************************)
(* How Total behaves when lines are added and taken away.                  *)
(***************************************************************************)
EXTENDS LineTotals, SumsProofs

(* The total of finitely many lines is a natural number. *)
LEMMA TotalType ==
  ASSUME NEW T, IsFiniteSet(T), NEW r
  PROVE  /\ IsFiniteSet(Units(T, r))
         /\ Total(T, r) \in Nat
<1>1. IsFiniteSet(Qty)
  BY MaxQtyAssumption, FS_Interval DEF Qty
<1>2. IsFiniteSet(T \X Qty)
  BY <1>1, FS_Product
<1>3. Units(T, r) \in SUBSET (T \X Qty)
  BY DEF Units
<1>4. IsFiniteSet(Units(T, r))
  BY <1>2, <1>3, FS_Subset
<1> QED
  BY <1>4, FS_CardinalityType DEF Total

(* No lines, no quantity. *)
LEMMA TotalEmpty ==
  ASSUME NEW r
  PROVE  Total({}, r) = 0
<1>1. Units({}, r) = {}
  BY DEF Units
<1> QED
  BY <1>1, FS_EmptySet DEF Total

(* The total of two disjoint sets of lines is the sum of their totals. *)
LEMMA TotalUnion ==
  ASSUME NEW T, NEW U, IsFiniteSet(T), IsFiniteSet(U), T \cap U = {}, NEW r
  PROVE  Total(T \cup U, r) = Total(T, r) + Total(U, r)
<1>1. Units(T \cup U, r) = Units(T, r) \cup Units(U, r)
  BY DEF Units
<1>2. Units(T, r) \cap Units(U, r) = {}
  BY DEF Units
<1>3. /\ IsFiniteSet(Units(T, r)) /\ Cardinality(Units(T, r)) \in Nat
      /\ IsFiniteSet(Units(U, r)) /\ Cardinality(Units(U, r)) \in Nat
  BY TotalType DEF Total
<1>4. Cardinality(Units(T, r) \cap Units(U, r)) = 0
  BY <1>2, FS_EmptySet
<1>5. Cardinality(Units(T, r) \cup Units(U, r))
        = Cardinality(Units(T, r)) + Cardinality(Units(U, r))
            - Cardinality(Units(T, r) \cap Units(U, r))
  BY <1>3, FS_Union
<1>6. Cardinality(Units(T, r) \cup Units(U, r))
        = Cardinality(Units(T, r)) + Cardinality(Units(U, r))
  BY <1>3, <1>4, <1>5
<1> QED
  BY <1>1, <1>6 DEF Total

(* What remains when some of the lines are taken away. *)
LEMMA TotalMinus ==
  ASSUME NEW T, IsFiniteSet(T), NEW S, S \subseteq T, NEW r
  PROVE  /\ Total(T \ S, r) = Total(T, r) - Total(S, r)
         /\ Total(S, r) <= Total(T, r)
         /\ Total(S, r) \in Nat
<1>1. IsFiniteSet(S) /\ IsFiniteSet(T \ S)
  BY FS_Subset, FS_Difference
<1>2. (T \ S) \cup S = T /\ (T \ S) \cap S = {}
  OBVIOUS
<1>3. Total(T, r) = Total(T \ S, r) + Total(S, r)
  BY <1>1, <1>2, TotalUnion
<1>4. Total(T, r) \in Nat /\ Total(S, r) \in Nat /\ Total(T \ S, r) \in Nat
  BY <1>1, TotalType
<1> QED
  BY <1>3, <1>4

(* One line counts for its quantity, in its own row. *)
LEMMA TotalOne ==
  ASSUME NEW t, t.qty \in Qty, NEW r
  PROVE  Total({t}, r) = IF t.row = r THEN t.qty ELSE 0
<1>1. CASE t.row = r
  <2>1. Units({t}, r) = {t} \X (1 .. t.qty)
    BY <1>1, MaxQtyAssumption DEF Units, Qty
  <2>2. IsFiniteSet({t}) /\ Cardinality({t}) = 1
    BY FS_Singleton
  <2>3. t.qty \in Int /\ t.qty >= 1
    BY MaxQtyAssumption DEF Qty
  <2>4. IsFiniteSet(1 .. t.qty) /\ Cardinality(1 .. t.qty) = t.qty
    BY <2>3, FS_Interval
  <2>5. Cardinality({t} \X (1 .. t.qty))
          = Cardinality({t}) * Cardinality(1 .. t.qty)
    <3>1. IsFiniteSet({t}) /\ IsFiniteSet(1 .. t.qty)
      BY <2>2, <2>4
    <3> QED
      BY ONLY <3>1, FS_Product, Zenon
  <2>6. Cardinality({t} \X (1 .. t.qty)) = t.qty
    BY ONLY <2>2, <2>3, <2>4, <2>5
  <2> QED
    BY <1>1, <2>1, <2>6 DEF Total
<1>2. CASE t.row # r
  <2>1. Units({t}, r) = {}
    BY <1>2 DEF Units
  <2> QED
    BY <1>2, <2>1, FS_EmptySet DEF Total
<1> QED
  BY <1>1, <1>2

(* One more line adds its quantity. *)
LEMMA TotalAdd ==
  ASSUME NEW T, IsFiniteSet(T), NEW t, t \notin T, t.qty \in Qty, NEW r
  PROVE  /\ IsFiniteSet(T \cup {t})
         /\ Total(T \cup {t}, r)
              = Total(T, r) + (IF t.row = r THEN t.qty ELSE 0)
<1>1. IsFiniteSet({t}) /\ T \cap {t} = {}
  BY FS_Singleton
<1>2. IsFiniteSet(T \cup {t})
  BY FS_AddElement
<1>3. Total(T \cup {t}, r) = Total(T, r) + Total({t}, r)
  BY <1>1, TotalUnion
<1> QED
  BY <1>2, <1>3, TotalOne
=============================================================================
