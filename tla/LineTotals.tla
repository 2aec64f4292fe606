----------------------------- MODULE LineTotals -----------------------------
(***************************************************************************)
(* Sums of quantities over sets of document lines.  A line is a record     *)
(* with at least a field row (the row of inventory_balances it moves) and  *)
(* a field qty (how much of it, in base units of the product).             *)
(*                                                                         *)
(* The sum is written as the number of single units the lines stand for:   *)
(* it is the value a SUM(qty) returns, and it needs no recursion.          *)
(***************************************************************************)
EXTENDS Sums

CONSTANT MaxQty    \* the largest quantity of one line

ASSUME MaxQtyAssumption == MaxQty \in Nat \ {0}

Qty == 1 .. MaxQty

\* The units of row r that the lines in T stand for.
Units(T, r) ==
  {u \in T \X Qty : u[1].row = r /\ u[2] <= u[1].qty}

\* The sum of the quantities of the lines in T that concern row r.
Total(T, r) == Cardinality(Units(T, r))
=============================================================================
