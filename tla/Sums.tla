-------------------------------- MODULE Sums ---------------------------------
(***************************************************************************)
(* Sums of amounts over finite sets, written without recursion: the amount *)
(* of a row stands for so many single units, and a sum is their number.    *)
(***************************************************************************)
EXTENDS Integers, FiniteSets

\* The units of the amounts f of the rows in S, those below zero left out.
Heap(f, S) == UNION {{x} \X (1 .. f[x]) : x \in S}

\* The sum of the amounts f, which may be below zero, of the rows in S.
SumOf(f, S) ==
  Cardinality(Heap(f, S)) - Cardinality(Heap([x \in S |-> 0 - f[x]], S))
=============================================================================
