----------------------------- MODULE MCEdgeSync -----------------------------
(***************************************************************************)
(* Instances of EdgeSync for TLC.                                          *)
(***************************************************************************)
EXTENDS EdgeSync

CONSTANTS w1, w2, d1, d2, none

\* Sales of one line of one unit.
SingleUnits == [s \in Sales |-> <<1>>]
\* The first sale has the product on two lines.
TwoLinesFirst == [s \in Sales |-> IF s = 1 THEN <<1, 1>> ELSE <<1>>]
=============================================================================
