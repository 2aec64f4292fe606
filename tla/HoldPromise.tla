----------------------------- MODULE HoldPromise -----------------------------
(***************************************************************************)
(* What the shared inventory promises whoever holds stock, without saying  *)
(* how: stock is free or held; what is held can neither be traded nor held *)
(* again; and a hold ends once, by giving its stock back or by being sold. *)
(***************************************************************************)
EXTENDS LineTotals

CONSTANTS Rows, NoRow, Holds

VARIABLES
  free,    \* stock of each row that nobody holds
  phase,   \* of each hold: "unused", "held", "returned" or "sold"
  claim    \* what each hold holds

promiseVars == <<free, phase, claim>>

NoClaim == [row |-> NoRow, qty |-> 0]

Held == {h \in Holds : phase[h] = "held"}

ClaimLines(S) ==
  {[key |-> h, row |-> claim[h].row, qty |-> claim[h].qty] : h \in S}

Init ==
  /\ free \in [Rows -> Nat]
  /\ phase = [h \in Holds |-> "unused"]
  /\ claim = [h \in Holds |-> NoClaim]

-----------------------------------------------------------------------------
\* free once the holds in S have given their stock back.
FreeAfter(S) == [r \in Rows |-> free[r] + Total(ClaimLines(S), r)]

PhaseAfter(S) ==
  [h \in Holds |-> IF h \in S THEN "returned" ELSE phase[h]]

\* Some holds end, and their stock is free again.
GiveBack(S) ==
  /\ S \subseteq Held
  /\ free' = FreeAfter(S)
  /\ phase' = PhaseAfter(S)
  /\ UNCHANGED claim

\* A new hold takes q units of row r, perhaps after others have ended.
Place(h, r, q, S) ==
  /\ S \subseteq Held
  /\ phase[h] = "unused"
  /\ q <= FreeAfter(S)[r]
  /\ free' = [FreeAfter(S) EXCEPT ![r] = @ - q]
  /\ phase' = [PhaseAfter(S) EXCEPT ![h] = "held"]
  /\ claim' = [claim EXCEPT ![h] = [row |-> r, qty |-> q]]

\* The held stock leaves with a sale.
Sell(h) ==
  /\ phase[h] = "held"
  /\ phase' = [phase EXCEPT ![h] = "sold"]
  /\ UNCHANGED <<free, claim>>

\* The held stock leaves with a sale and is free stock of another row.
Deliver(h, to) ==
  /\ phase[h] = "held"
  /\ to # claim[h].row
  /\ phase' = [phase EXCEPT ![h] = "sold"]
  /\ free' = [free EXCEPT ![to] = @ + claim[h].qty]
  /\ UNCHANGED claim

\* Anything may happen to free stock, as long as there is enough of it.
Trade ==
  /\ free' \in [Rows -> Nat]
  /\ UNCHANGED <<phase, claim>>

Next ==
  \/ \E S \in SUBSET Held : GiveBack(S)
  \/ \E h \in Holds, r \in Rows, q \in Qty, S \in SUBSET Held : Place(h, r, q, S)
  \/ \E h \in Holds : Sell(h) \/ \E to \in Rows : Deliver(h, to)
  \/ Trade

Spec == Init /\ [][Next]_promiseVars
=============================================================================
