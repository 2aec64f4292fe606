--------------------------- MODULE MCNetworkStock ---------------------------
(***************************************************************************)
(* Instances of NetworkStock for TLC: two stores with a row each.          *)
(***************************************************************************)
EXTENDS NetworkStock, TLC

CONSTANTS a, b, none,             \* rows: store A's, store B's, and none
          k1, k2,                 \* keys of counter documents
          r1, r2, t1, t2,         \* keys of sale and of purchase returns
          n1, n2, p1, p2          \* network reservations, procurements

RowsAB == {a, b}
StoresAB == (a :> "A") @@ (b :> "B")
Opening21 == (a :> 2) @@ (b :> 1)
Opening20 == (a :> 2) @@ (b :> 0)
Opening30 == (a :> 3) @@ (b :> 0)

ReturnSymmetry == Permutations({r1, r2}) \cup Permutations({t1, t2})
=============================================================================
