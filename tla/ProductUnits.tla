---------------------------- MODULE ProductUnits ----------------------------
(***************************************************************************)
(* The units a product is bought and sold in (internal/productunit).       *)
(*                                                                         *)
(* Quantities in base units and factors are counted in Parts: with two     *)
(* parts, 3 stands for one and a half.  Quantities in commercial units are *)
(* whole (bound: halves of a pack are not sold here), and money is in whole *)
(* rials, as in the code.                                                  *)
(***************************************************************************)
EXTENDS Integers

CONSTANTS
  Products,
  Parts       \* bound: the parts a base unit can be divided into

ASSUME PartsAssumption == Parts \in Nat \ {0}

WholeQty(parts) == parts % Parts = 0

\* math.Round of n / d, for natural n and positive d.
Rounded(n, d) == (2 * n + d) \div (2 * d)

\* What a quantity of a unit is in base units, and whether the product may be
\* handled in it.
BaseQty(qty, unit) == qty * unit.factor
BaseQtyAllowed(qty, unit, fractional) ==
  qty > 0 /\ (fractional \/ WholeQty(BaseQty(qty, unit)))

\* The price or cost of a unit, from the one of the base unit.
CommercialMoney(money, unit) == Rounded(money * unit.factor, Parts)
=============================================================================
