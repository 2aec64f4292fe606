------------------------------- MODULE MCShop --------------------------------
(***************************************************************************)
(* An instance of Shop for TLC: one product in a base unit and a pack, two  *)
(* price lists, one customer; two days; two jobs on one vehicle.           *)
(***************************************************************************)
EXTENDS Shop, TLC

CONSTANTS part, pcs, pack, retail, trade, customer, vat,
          mechanic, bumper

Pack(factor, price) == pack :> [factor |-> factor, sale |-> TRUE, price |-> price]

\* Plain, with a pack of two, and in halves with a pack of one and a half.
MCProductForms ==
  {[frac |-> FALSE, price |-> 5, units |-> Pack(4, 0)],
   [frac |-> TRUE, price |-> 0, units |-> Pack(3, 9)],
   [frac |-> FALSE, price |-> 0, units |-> <<>>]}

Row(onHand, price, units) ==
  [product |-> part, fractional |-> onHand % 2 = 1, onHand |-> onHand,
   cost |-> 3, price |-> price, units |-> units, takes |-> {}]

\* Two units and a pack of them; the same again, the pack's barcode moved; and a
\* file that names the product twice, first without stock.
MCFiles ==
  {[key |-> 1, rows |-> <<Row(4, 5, Pack(4, 0))>>],
   [key |-> 2, rows |-> <<[Row(4, 0, <<>>) EXCEPT !.takes = {pack}]>>],
   [key |-> 3, rows |-> <<Row(0, 0, <<>>), Row(3, 6, Pack(3, 0))>>]}

MCBreakForms == {1 :> 6, (1 :> 5) @@ (2 :> 4)}

Form(mode, invoice, series, next) ==
  [enabled |-> TRUE, onNormal |-> TRUE, mode |-> mode, invoice |-> invoice,
   code |-> vat, series |-> series, next |-> next, seller |-> TRUE]

MCTaxForms ==
  {Form("exclusive", "normal", "A", 1), Form("inclusive", "official", "B", 3),
   [Provisioned EXCEPT !.seller = TRUE]}

Rate(from, rate) ==
  [code |-> vat, from |-> from, to |-> LastDay, rate |-> rate, active |-> TRUE]

MCRateForms == {Rate(0, 900), Rate(1, 1000)}

Request(u, qty, c, price, reason, role, source, invoice) ==
  [product |-> part, unit |-> u, qty |-> qty, customer |-> c, price |-> price,
   reason |-> reason, role |-> role, source |-> source, invoice |-> invoice]

\* Every price that may be right or slightly wrong, asked for by a cashier; an
\* explanation, an owner, an edge device, and an official invoice.
MCRequests ==
  {Request(s[1], q, c, s[2], FALSE, "cashier", "counter", "") :
     s \in {pcs} \X {4, 5, 6} \cup {pack} \X {8, 9, 10, 12}, q \in {1, 2},
     c \in {NoCustomer, customer}}
  \cup {Request(pcs, 1, NoCustomer, 3, TRUE, role, "counter", "") :
          role \in {"cashier", "owner"}}
  \cup {Request(pack, 1, NoCustomer, p, FALSE, "edge", "edge", "") : p \in {5, 8}}
  \cup {Request(u, 1, NoCustomer, 10, TRUE, "owner", "counter", "official") :
          u \in {pcs, pack}}

MCBought == bumper :> [buyer |-> mechanic, qty |-> 2, price |-> 3]

\* Labor, a service without a quantity, and a purchase with its own quantity and
\* price or with another price.
MCItems ==
  {[kind |-> "labor", qty |-> 1, price |-> 2, purchase |-> NoPurchase],
   [kind |-> "service", qty |-> 0, price |-> 1, purchase |-> NoPurchase]}
  \cup {[kind |-> "service", qty |-> 0, price |-> p, purchase |-> bumper] : p \in {0, 4}}

\* Keys, calls and jobs are interchangeable, and no liveness is checked.
MCSymmetry ==
  Permutations(ExpenseKeys) \cup Permutations(CloseKeys)
    \cup Permutations(Calls) \cup Permutations(Jobs)
=============================================================================
