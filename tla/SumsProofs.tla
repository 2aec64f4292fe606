----------------------------- MODULE SumsProofs ------------------------------
(***************************************************************************)
(* How a sum of amounts behaves when one of them changes, when the set is  *)
(* split, and when there is nothing to add.                                *)
(***************************************************************************)
EXTENDS Sums, FiniteSetTheorems, TLAPS

(* Taking a row out of a heap takes its units out.                          *)
LEMMA HeapWithout ==
  ASSUME NEW f, NEW S, IsFiniteSet(Heap(f, S)), NEW x \in S, f[x] \in Int
  PROVE  /\ IsFiniteSet(Heap(f, S \ {x}))
         /\ Cardinality(Heap(f, S \ {x})) \in Nat
         /\ Cardinality(Heap(f, S))
              = Cardinality(Heap(f, S \ {x})) + (IF f[x] > 0 THEN f[x] ELSE 0)
<1> DEFINE rest == Heap(f, S \ {x})
           own == {x} \X (1 .. f[x])
<1>1. Heap(f, S) = rest \cup own
  BY DEF Heap
<1>2. rest \cap own = {}
  BY DEF Heap
<1>3. IsFiniteSet(rest) /\ Cardinality(rest) \in Nat
  BY <1>1, FS_Subset, FS_CardinalityType
<1>4. IsFiniteSet(own) /\ Cardinality(own) = IF f[x] > 0 THEN f[x] ELSE 0
  <2>1. IsFiniteSet({x}) /\ Cardinality({x}) = 1
    BY FS_Singleton
  <2>2. IsFiniteSet(1 .. f[x])
        /\ Cardinality(1 .. f[x]) = IF 1 > f[x] THEN 0 ELSE f[x] - 1 + 1
    BY FS_Interval
  <2>3. /\ IsFiniteSet({x} \X (1 .. f[x]))
        /\ Cardinality({x} \X (1 .. f[x])) = Cardinality({x}) * Cardinality(1 .. f[x])
    BY <2>1, <2>2, FS_Product
  <2>4. Cardinality(1 .. f[x]) = IF f[x] > 0 THEN f[x] ELSE 0
    BY <2>2
  <2>5. Cardinality(1 .. f[x]) \in Nat
    BY <2>4
  <2> QED
    BY <2>1, <2>3, <2>4, <2>5
<1>5. Cardinality(rest \cup own)
        = Cardinality(rest) + Cardinality(own) - Cardinality(rest \cap own)
  BY <1>3, <1>4, FS_Union
<1>6. Cardinality(rest \cap own) = 0
  BY <1>2, FS_EmptySet
<1> HIDE DEF rest, own
<1> QED
  BY <1>1, <1>3, <1>4, <1>5, <1>6 DEF rest

(* A row put back, with whatever amount.                                    *)
LEMMA HeapFinite ==
  ASSUME NEW f, NEW S, NEW x \in S, f[x] \in Int, IsFiniteSet(Heap(f, S \ {x}))
  PROVE  IsFiniteSet(Heap(f, S))
<1>1. Heap(f, S) = Heap(f, S \ {x}) \cup ({x} \X (1 .. f[x]))
  BY DEF Heap
<1> DEFINE n == f[x]
           own == {x} \X (1 .. n)
<1>2. IsFiniteSet(1 .. n)
  <2>1. n \in Int
    OBVIOUS
  <2> HIDE DEF n
  <2> QED
    BY <2>1, FS_Interval
<1>3. IsFiniteSet({x})
  BY FS_Singleton
<1>4. IsFiniteSet(own)
  <2> HIDE DEF n
  <2> QED
    BY <1>2, <1>3, FS_Product
<1>5. Heap(f, S) = Heap(f, S \ {x}) \cup own
  BY <1>1
<1> HIDE DEF n, own
<1>6. IsFiniteSet(Heap(f, S \ {x}) \cup own)
  BY <1>4, FS_Union
<1> QED
  BY <1>5, <1>6

\* The sum of f over S is one of finitely many units.
Summable(f, S) ==
  /\ IsFiniteSet(Heap(f, S))
  /\ IsFiniteSet(Heap([x \in S |-> 0 - f[x]], S))

(* When the amount of one row changes by a, so does the sum.                *)
LEMMA SumMoves ==
  ASSUME NEW f, NEW g, NEW S, Summable(f, S), NEW p \in S, NEW a \in Int,
         f[p] \in Int, g[p] = f[p] + a, \A x \in S \ {p} : g[x] = f[x]
  PROVE  Summable(g, S) /\ SumOf(g, S) = SumOf(f, S) + a
<1> DEFINE fn == [x \in S |-> 0 - f[x]]
           gn == [x \in S |-> 0 - g[x]]
<1>1. g[p] \in Int /\ fn[p] = 0 - f[p] /\ gn[p] = 0 - g[p]
      /\ fn[p] \in Int /\ gn[p] \in Int
  OBVIOUS
<1>2. Heap(g, S \ {p}) = Heap(f, S \ {p})
  BY DEF Heap
<1>3. Heap(gn, S \ {p}) = Heap(fn, S \ {p})
  <2>1. \A x \in S \ {p} : gn[x] = fn[x]
    OBVIOUS
  <2> HIDE DEF gn, fn
  <2> QED
    BY <2>1 DEF Heap
<1>4. IsFiniteSet(Heap(f, S)) /\ IsFiniteSet(Heap(fn, S))
  BY DEF Summable
<1> HIDE DEF fn, gn
<1>5. /\ IsFiniteSet(Heap(f, S \ {p})) /\ Cardinality(Heap(f, S \ {p})) \in Nat
      /\ Cardinality(Heap(f, S))
           = Cardinality(Heap(f, S \ {p})) + (IF f[p] > 0 THEN f[p] ELSE 0)
  BY <1>4, HeapWithout
<1>6. /\ IsFiniteSet(Heap(fn, S \ {p})) /\ Cardinality(Heap(fn, S \ {p})) \in Nat
      /\ Cardinality(Heap(fn, S))
           = Cardinality(Heap(fn, S \ {p})) + (IF fn[p] > 0 THEN fn[p] ELSE 0)
  BY <1>1, <1>4, HeapWithout
<1>7. IsFiniteSet(Heap(g, S)) /\ IsFiniteSet(Heap(gn, S))
  BY <1>1, <1>2, <1>3, <1>5, <1>6, HeapFinite
<1>8. Cardinality(Heap(g, S))
        = Cardinality(Heap(g, S \ {p})) + (IF g[p] > 0 THEN g[p] ELSE 0)
  BY <1>1, <1>7, HeapWithout
<1>9. Cardinality(Heap(gn, S))
        = Cardinality(Heap(gn, S \ {p})) + (IF gn[p] > 0 THEN gn[p] ELSE 0)
  BY <1>1, <1>7, HeapWithout
<1>10. Cardinality(Heap(g, S)) - Cardinality(Heap(gn, S))
         = Cardinality(Heap(f, S)) - Cardinality(Heap(fn, S)) + a
  BY <1>1, <1>2, <1>3, <1>5, <1>6, <1>8, <1>9
<1> QED
  BY <1>7, <1>10 DEF Summable, SumOf, fn, gn

(* The sum follows the amounts of its own rows only.                        *)
LEMMA SumStays ==
  ASSUME NEW f, NEW g, NEW S, \A x \in S : g[x] = f[x]
  PROVE  SumOf(g, S) = SumOf(f, S) /\ (Summable(f, S) => Summable(g, S))
<1>1. [x \in S |-> 0 - g[x]] = [x \in S |-> 0 - f[x]]
  OBVIOUS
<1>2. Heap(g, S) = Heap(f, S)
  BY DEF Heap
<1> QED
  BY <1>1, <1>2 DEF SumOf, Summable

(* Nothing owed anywhere adds up to nothing.                                *)
LEMMA SumOfZero ==
  ASSUME NEW f, NEW S, \A x \in S : f[x] = 0
  PROVE  SumOf(f, S) = 0 /\ Summable(f, S)
<1> DEFINE n == [x \in S |-> 0 - f[x]]
<1>1. \A x \in S : 1 .. f[x] = {} /\ 1 .. n[x] = {}
  OBVIOUS
<1> HIDE DEF n
<1>2. Heap(f, S) = {} /\ Heap(n, S) = {}
  BY <1>1 DEF Heap
<1>3. IsFiniteSet({}) /\ Cardinality({}) = 0
  BY FS_EmptySet
<1> QED
  BY <1>2, <1>3 DEF SumOf, Summable, n

(* A finite set of rows, with whatever whole amounts, has a sum.            *)
LEMMA SumFinite ==
  ASSUME NEW f, NEW S, IsFiniteSet(S), \A x \in S : f[x] \in Int
  PROVE  Summable(f, S) /\ SumOf(f, S) \in Int
<1>1. ASSUME NEW g, \A x \in S : g[x] \in Int
      PROVE  IsFiniteSet(Heap(g, S))
  <2> DEFINE piles == {{x} \X (1 .. g[x]) : x \in S}
             pile == [x \in S |-> {x} \X (1 .. g[x])]
  <2>1. pile \in Surjection(S, piles)
    <3>1. pile \in [S -> piles]
      OBVIOUS
    <3>2. \A t \in piles : \E x \in S : pile[x] = t
      OBVIOUS
    <3> QED
      BY <3>1, <3>2 DEF Surjection
  <2>2. \A t \in piles : IsFiniteSet(t)
    <3> SUFFICES ASSUME NEW x \in S
                 PROVE  IsFiniteSet({x} \X (1 .. g[x]))
      OBVIOUS
    <3>1. IsFiniteSet({x})
      BY FS_Singleton
    <3>2. IsFiniteSet(1 .. g[x])
      <4> DEFINE n == g[x]
      <4>1. n \in Int
        BY <1>1
      <4> HIDE DEF n
      <4>2. IsFiniteSet(1 .. n)
        BY <4>1, FS_Interval
      <4> QED
        BY <4>2 DEF n
    <3> QED
      BY <3>1, <3>2, FS_Product
  <2>3. Heap(g, S) = UNION piles
    BY DEF Heap
  <2> HIDE DEF piles, pile
  <2>4. IsFiniteSet(piles)
    BY <2>1, FS_Surjection
  <2> QED
    BY <2>2, <2>3, <2>4, FS_UNION
<1> DEFINE n == [x \in S |-> 0 - f[x]]
<1>2. \A x \in S : n[x] \in Int
  OBVIOUS
<1>3. IsFiniteSet(Heap(f, S))
  BY <1>1
<1>4. IsFiniteSet(Heap(n, S))
  <2> HIDE DEF n
  <2> QED
    BY <1>1, <1>2
<1> QED
  BY <1>3, <1>4, FS_CardinalityType DEF Summable, SumOf, n

(* The sum over two sets of rows that are apart.                            *)
LEMMA SumSplit ==
  ASSUME NEW f, NEW S, NEW T, IsFiniteSet(S), IsFiniteSet(T), S \cap T = {},
         \A x \in S \cup T : f[x] \in Int
  PROVE  SumOf(f, S \cup T) = SumOf(f, S) + SumOf(f, T)
<1>1. ASSUME NEW g, IsFiniteSet(Heap(g, S)), IsFiniteSet(Heap(g, T))
      PROVE  /\ Cardinality(Heap(g, S \cup T))
                  = Cardinality(Heap(g, S)) + Cardinality(Heap(g, T))
             /\ Cardinality(Heap(g, S)) \in Nat /\ Cardinality(Heap(g, T)) \in Nat
  <2>1. Heap(g, S \cup T) = Heap(g, S) \cup Heap(g, T)
    BY DEF Heap
  <2>2. Heap(g, S) \cap Heap(g, T) = {}
    <3>1. \A u \in Heap(g, S) : u[1] \in S
      BY DEF Heap
    <3>2. \A u \in Heap(g, T) : u[1] \in T
      BY DEF Heap
    <3> QED
      BY <3>1, <3>2
  <2>3. Cardinality(Heap(g, S) \cup Heap(g, T))
          = Cardinality(Heap(g, S)) + Cardinality(Heap(g, T))
              - Cardinality(Heap(g, S) \cap Heap(g, T))
    BY <1>1, FS_Union
  <2>4. Cardinality(Heap(g, S) \cap Heap(g, T)) = 0
    BY <2>2, FS_EmptySet
  <2>5. Cardinality(Heap(g, S)) \in Nat /\ Cardinality(Heap(g, T)) \in Nat
    BY <1>1, FS_CardinalityType
  <2>6. Cardinality(Heap(g, S \cup T)) = Cardinality(Heap(g, S) \cup Heap(g, T))
    BY <2>1, Zenon
  <2>7. Cardinality(Heap(g, S) \cup Heap(g, T))
          = Cardinality(Heap(g, S)) + Cardinality(Heap(g, T))
    BY ONLY <2>3, <2>4, <2>5
  <2> QED
    BY <2>5, <2>6, <2>7, Zenon
<1> DEFINE n == [x \in S \cup T |-> 0 - f[x]]
<1>2. /\ Heap([x \in S |-> 0 - f[x]], S) = Heap(n, S)
      /\ Heap([x \in T |-> 0 - f[x]], T) = Heap(n, T)
  BY DEF Heap
<1>3. /\ Summable(f, S) /\ SumOf(f, S) = Cardinality(Heap(f, S)) - Cardinality(Heap(n, S))
      /\ Summable(f, T) /\ SumOf(f, T) = Cardinality(Heap(f, T)) - Cardinality(Heap(n, T))
  BY <1>2, SumFinite DEF SumOf
<1>4. /\ IsFiniteSet(Heap(f, S)) /\ IsFiniteSet(Heap(f, T))
      /\ IsFiniteSet(Heap(n, S)) /\ IsFiniteSet(Heap(n, T))
  BY <1>2, <1>3 DEF Summable
<1>5. SumOf(f, S \cup T)
        = Cardinality(Heap(f, S \cup T)) - Cardinality(Heap(n, S \cup T))
  BY DEF SumOf
<1> HIDE DEF n
<1>6. /\ Cardinality(Heap(f, S)) \in Nat /\ Cardinality(Heap(f, T)) \in Nat
      /\ Cardinality(Heap(f, S \cup T))
           = Cardinality(Heap(f, S)) + Cardinality(Heap(f, T))
  BY <1>1, <1>4
<1>7. /\ Cardinality(Heap(n, S)) \in Nat /\ Cardinality(Heap(n, T)) \in Nat
      /\ Cardinality(Heap(n, S \cup T))
           = Cardinality(Heap(n, S)) + Cardinality(Heap(n, T))
  BY <1>1, <1>4
<1>8. \A a, b, c, d : a \in Nat /\ b \in Nat /\ c \in Nat /\ d \in Nat
                       => (a + b) - (c + d) = (a - c) + (b - d)
  OBVIOUS
<1> QED
  BY <1>3, <1>5, <1>6, <1>7, <1>8
=============================================================================
