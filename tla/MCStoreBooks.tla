---------------------------- MODULE MCStoreBooks ----------------------------
(***************************************************************************)
(* Instances of StoreBooks for TLC.                                        *)
(***************************************************************************)
EXTENDS StoreBooks, TLC

CONSTANTS c1, s1, s2, none,              \* a customer, suppliers, no party
          k1, k2, t1, t2, h1, h2,        \* keys of documents, of cheques
          e1, e2, e3,                    \* keys of cheque transitions
          n1, n2, m1, q1, q2             \* reservations, mechanic, requests

NoOneBuys == << >>
OneBuys == (n1 :> m1) @@ (n2 :> none)
NoPrice == << >>
Prices == (n1 :> 3) @@ (n2 :> 1)

ChequeSymmetry == Permutations({e1, e2, e3}) \cup Permutations({h1, h2})
TradeSymmetry == Permutations({q1, q2}) \cup Permutations({t1, t2})
=============================================================================
