------------------------------- MODULE Checks -------------------------------
(***************************************************************************)
(* The cheques of a store (internal/finance/checks.go): cheques customers  *)
(* give it, which it deposits, clears, endorses to a supplier or sees      *)
(* bounce, and cheques it issues to suppliers.  Every transition moves the *)
(* cheque, the journal and the party ledger in one transaction.            *)
(*                                                                         *)
(* A transition is repeated under the key of its request until the client  *)
(* has the answer; check_events holds the keys that were carried out.      *)
(***************************************************************************)
EXTENDS PartyLedger

CONSTANTS
  CheckKeys, TransitionKeys,
  BankAccounts, NoBank

ASSUME CheckAssumption == NoBank \notin BankAccounts

VARIABLES
  checks,        \* the table checks
  checkEvents    \* check_events with a key: one for each transition

checkVars == <<checks, checkEvents>>

InHand == {"held", "deposited", "returned"}
Roles == {"cashier", "accountant"}

ChecksInit == checks = {} /\ checkEvents = {}

\* Like a settlement in cheques instead of money.
CreateCheck(k, p, amount) ==
  LET receivable == p \in Customers
  IN  /\ ~ Known(checks, k)
      /\ Payable(p, amount)
      /\ checks' = checks \cup
           {[key |-> k, party |-> p, amount |-> amount, bank |-> NoBank,
             endorsee |-> NoParty,
             direction |-> IF receivable THEN "receivable" ELSE "payable",
             status |-> IF receivable THEN "held" ELSE "issued"]}
      /\ Settling(p, IF receivable THEN "CHEQUES_RECEIVABLE"
                     ELSE "CHEQUES_PAYABLE", amount)
      /\ Owe(p, 0 - amount)
      /\ UNCHANGED <<checkEvents, documentVars>>

-----------------------------------------------------------------------------
\* Mistake: a repeated request is carried out again.
MayTransitionAgain(k, role, c) ==
  c.direction = "payable" => role # "cashier"

\* The request is not one carried out before, and the actor may make it.
MayTransition(k, role, c) ==
  /\ ~ Known(checkEvents, k)
  /\ c.direction = "payable" => role # "cashier"

\* The cheque c becomes d, and the event is logged.
Becomes(k, c, action, d) ==
  /\ checks' = (checks \ {c}) \cup {d}
  /\ checkEvents' = checkEvents \cup
       {[key |-> k, check |-> c.key, action |-> action,
         from |-> c.status, to |-> d.status]}
  /\ UNCHANGED documentVars

\* The bank account of a request, or else the one the cheque names.
BankOf(c, b) == IF b = NoBank THEN c.bank ELSE b

Transfer(debit, credit, amount) ==
  Post([a \in {debit, credit} |-> IF a = debit THEN amount ELSE 0 - amount])

\* Mistake: the money is booked at the bank when the cheque is handed in.
DepositAsMoney(k, c, b) ==
  /\ c.direction = "receivable" /\ c.status \in {"held", "returned"}
  /\ BankOf(c, b) # NoBank
  /\ Becomes(k, c, "deposit",
             [c EXCEPT !.status = "deposited", !.bank = BankOf(c, b)])
  /\ Transfer("BANK", "CHEQUES_RECEIVABLE", c.amount)
  /\ UNCHANGED owed

Deposit(k, c, b) ==
  /\ c.direction = "receivable" /\ c.status \in {"held", "returned"}
  /\ BankOf(c, b) # NoBank
  /\ Becomes(k, c, "deposit",
             [c EXCEPT !.status = "deposited", !.bank = BankOf(c, b)])
  /\ UNCHANGED bookVars

Clear(k, c, b) ==
  /\ \/ c.direction = "receivable" /\ c.status \in InHand
     \/ c.direction = "payable" /\ c.status = "issued"
  /\ BankOf(c, b) # NoBank
  /\ Becomes(k, c, "clear",
             [c EXCEPT !.status = "cleared", !.bank = BankOf(c, b)])
  /\ IF c.direction = "receivable"
     THEN Transfer("BANK", "CHEQUES_RECEIVABLE", c.amount)
     ELSE Transfer("CHEQUES_PAYABLE", "BANK", c.amount)
  /\ UNCHANGED owed

\* Mistake: a bounced cheque only returns to the journal.
BounceInJournal(k, c) ==
  /\ c.direction = "receivable" /\ c.status \in InHand
  /\ Becomes(k, c, "bounce", [c EXCEPT !.status = "bounced"])
  /\ Transfer("AR", "CHEQUES_RECEIVABLE", c.amount)
  /\ UNCHANGED owed

\* The customer owes again what the cheque had settled.
Bounce(k, c) ==
  /\ c.direction = "receivable" /\ c.status \in InHand
  /\ Becomes(k, c, "bounce", [c EXCEPT !.status = "bounced"])
  /\ Transfer("AR", "CHEQUES_RECEIVABLE", c.amount)
  /\ Owe(c.party, c.amount)

\* Mistake: the cheque may be worth more than the store owes.
EndorseBeyondDebt(k, c, s) ==
  /\ c.direction = "receivable" /\ c.status \in {"held", "returned"}
  /\ owed[s] > 0
  /\ Becomes(k, c, "endorse", [c EXCEPT !.status = "endorsed", !.endorsee = s])
  /\ Transfer("AP", "CHEQUES_RECEIVABLE", c.amount)
  /\ Owe(s, 0 - c.amount)

\* A customer's cheque is passed on to a supplier the store owes as much.
Endorse(k, c, s) ==
  /\ c.direction = "receivable" /\ c.status \in {"held", "returned"}
  /\ owed[s] >= c.amount
  /\ Becomes(k, c, "endorse", [c EXCEPT !.status = "endorsed", !.endorsee = s])
  /\ Transfer("AP", "CHEQUES_RECEIVABLE", c.amount)
  /\ Owe(s, 0 - c.amount)

\* Mistake: the debt goes back to the account of the customer.
ReturnEndorsementToParty(k, c) ==
  /\ c.direction = "receivable" /\ c.status = "endorsed"
  /\ Becomes(k, c, "return_endorsement",
             [c EXCEPT !.status = "returned", !.endorsee = NoParty])
  /\ Transfer("CHEQUES_RECEIVABLE", "AP", c.amount)
  /\ Owe(c.party, c.amount)

\* Mistake: the cheque still names the supplier who handed it back.
ReturnEndorsementStillNamed(k, c) ==
  /\ c.direction = "receivable" /\ c.status = "endorsed"
  /\ Becomes(k, c, "return_endorsement", [c EXCEPT !.status = "returned"])
  /\ Transfer("CHEQUES_RECEIVABLE", "AP", c.amount)
  /\ Owe(c.endorsee, c.amount)

\* The supplier hands it back, and is owed again.
ReturnEndorsement(k, c) ==
  /\ c.direction = "receivable" /\ c.status = "endorsed"
  /\ Becomes(k, c, "return_endorsement",
             [c EXCEPT !.status = "returned", !.endorsee = NoParty])
  /\ Transfer("CHEQUES_RECEIVABLE", "AP", c.amount)
  /\ Owe(c.endorsee, c.amount)

CancelReceivable(k, c) ==
  /\ c.direction = "receivable" /\ c.status = "held"
  /\ Becomes(k, c, "cancel", [c EXCEPT !.status = "cancelled"])
  /\ Transfer("AR", "CHEQUES_RECEIVABLE", c.amount)
  /\ Owe(c.party, c.amount)

\* A cheque of the store comes back: action is "return" or "cancel".
TakeBackPayable(k, c, action) ==
  /\ c.direction = "payable" /\ c.status = "issued"
  /\ Becomes(k, c, action,
             [c EXCEPT !.status = IF action = "cancel" THEN "cancelled"
                                  ELSE "returned"])
  /\ Transfer("CHEQUES_PAYABLE", "AP", c.amount)
  /\ Owe(c.party, c.amount)

TransitionCheck(k, role, c) ==
  /\ MayTransition(k, role, c)
  /\ \/ \E b \in BankAccounts \cup {NoBank} : Deposit(k, c, b)
     \/ \E b \in BankAccounts \cup {NoBank} : Clear(k, c, b)
     \/ Bounce(k, c)
     \/ \E s \in Suppliers : Endorse(k, c, s)
     \/ ReturnEndorsement(k, c)
     \/ CancelReceivable(k, c)
     \/ \E action \in {"return", "cancel"} : TakeBackPayable(k, c, action)

ChecksNext ==
  \/ \E k \in CheckKeys, p \in Parties, amount \in Qty : CreateCheck(k, p, amount)
  \/ \E k \in TransitionKeys, role \in Roles, c \in checks :
       TransitionCheck(k, role, c)
=============================================================================
