------------------------------ MODULE DayBook --------------------------------
(***************************************************************************)
(* The day book of a store: its cash and card documents, the daily closing *)
(* (internal/operations/service.go, cashFlow, CashReport, CloseDay) and the *)
(* expenses (internal/finance/accounting.go, CreateExpense).                *)
(*                                                                         *)
(* A document is here what it pays: a kind, a method, an amount.  What else *)
(* a sale, a purchase, a return or a settlement does is in the modules of   *)
(* the counter.  cashFlow adds documents up, so moved keeps their sums.     *)
(* Days are UTC days: the code runs in containers whose clock is UTC.       *)
(***************************************************************************)
EXTENDS Integers

CONSTANTS
  LastDate,       \* bound: the days 0 .. LastDate
  Amounts,       \* the amounts of documents
  Counts,        \* the amounts that may be in the drawer
  ExpenseKeys,   \* idempotency keys of expenses
  CloseKeys,     \* and of closings
  MaxDocuments   \* bound: documents other than expenses

ASSUME DayBookAssumption ==
  /\ LastDate \in Nat
  /\ MaxDocuments \in Nat
  /\ Amounts \subseteq Nat \ {0}
  /\ Counts \subseteq Nat

Days == 0 .. LastDate
Methods == {"cash", "card"}
InKinds == {"sale", "receipt", "purchaseReturn"}
OutKinds == {"purchase", "supplierPayment", "expense", "saleReturn"}
Kinds == InKinds \cup OutKinds

VARIABLES
  date,
  moved,       \* [Kinds -> [Methods -> [Days -> sum of the documents' amounts]]]
  account,     \* the accounts CASH and BANK_CARD of the journal, by method
  posted,      \* how many documents there are, for the bound
  spent,       \* the keys of the expenses
  closed,      \* the days that have been closed
  closing,     \* daily_closings: the row of a day that is closed
  report,      \* a CashReport: what it has read and, once told, its answer
  changed      \* history: the days with a cash document posted after their closing

bookVars ==
  <<date, moved, account, posted, spent, closed, closing, report, changed>>

NoClosing ==
  [key |-> "none", opening |-> 0, in |-> 0, out |-> 0, expected |-> 0, actual |-> 0]

\* The last three fields are history: whether the day was closed, and changed
\* since, when the sums were read; and whether a cash document of the day came
\* after them and before the closing that the report shows.
NoReport ==
  [at |-> "none", day |-> 0, in |-> 0, out |-> 0, answer |-> FALSE,
   wasClosed |-> FALSE, wasChanged |-> FALSE, missed |-> FALSE]

BookInit ==
  /\ date = 0
  /\ moved = [k \in Kinds |-> [m \in Methods |-> [d \in Days |-> 0]]]
  /\ account = [m \in Methods |-> 0]
  /\ posted = 0
  /\ spent = {}
  /\ closed = {}
  /\ closing = [d \in Days |-> NoClosing]
  /\ report = NoReport
  /\ changed = {}

-----------------------------------------------------------------------------
(* cashFlow: what the documents of a day brought in and took out *)

\* Mistake: the report forgets the refunds of suppliers.
InWithoutReturns(m, d) == moved["sale"][m][d] + moved["receipt"][m][d]

In(m, d) ==
  moved["sale"][m][d] + moved["receipt"][m][d] + moved["purchaseReturn"][m][d]

Out(m, d) ==
  moved["purchase"][m][d] + moved["supplierPayment"][m][d]
    + moved["expense"][m][d] + moved["saleReturn"][m][d]

Net(m, d) == In(m, d) - Out(m, d)

-----------------------------------------------------------------------------
(* A document, in the tables of its kind and in the journal *)

\* What a document adds to the account of its method.
Signed(kind, amount) == IF kind \in InKinds THEN amount ELSE -amount

Record(kind, m, d, amount) ==
  /\ moved' = [moved EXCEPT ![kind][m][d] = @ + amount]
  /\ account' = [account EXCEPT ![m] = @ + Signed(kind, amount)]
  /\ changed' = IF m = "cash" /\ d \in closed THEN changed \cup {d} ELSE changed
  /\ report' =
       IF m = "cash" /\ report.at = "sums" /\ report.day = d /\ d \notin closed
         THEN [report EXCEPT !.missed = TRUE]
         ELSE report

\* A sale, a purchase, a return or a settlement counts on the day it is made,
\* which for a sale of an edge device is the day it is synchronised.
Post(kind, m, amount) ==
  /\ posted < MaxDocuments
  /\ posted' = posted + 1
  /\ Record(kind, m, date, amount)
  /\ UNCHANGED <<date, spent, closed, closing>>

\* An expense counts on the day it names, which nothing ties to today.  The same
\* key again answers the expense there is.
CreateExpense(key, m, d, amount) ==
  /\ key \notin spent
  /\ spent' = spent \cup {key}
  /\ Record("expense", m, d, amount)
  /\ UNCHANGED <<date, posted, closed, closing>>

\* A key that has been used answers the closing it made, of whatever day.
CloseDay(key, d, opening, actual) ==
  /\ \A e \in closed : closing[e].key # key
  /\ d <= date
  /\ d \notin closed
  /\ closed' = closed \cup {d}
  /\ closing' =
       [closing EXCEPT ![d] =
          [key |-> key, opening |-> opening,
           in |-> In("cash", d), out |-> Out("cash", d),
           expected |-> opening + In("cash", d) - Out("cash", d),
           actual |-> actual]]
  /\ UNCHANGED <<date, moved, account, posted, spent, report, changed>>

Midnight ==
  /\ date < LastDate
  /\ date' = date + 1
  /\ UNCHANGED <<moved, account, posted, spent, closed, closing, report, changed>>

-----------------------------------------------------------------------------
(* CashReport: the sums and the closing of a day, in two statements that no *)
(* transaction holds together                                               *)

\* cashFlow, on the pool.
ReadSums(d) ==
  /\ report.at # "sums"
  /\ report' = [at |-> "sums", day |-> d, in |-> In("cash", d), out |-> Out("cash", d),
                answer |-> FALSE, wasClosed |-> d \in closed,
                wasChanged |-> d \in changed, missed |-> FALSE]
  /\ UNCHANGED <<date, moved, account, posted, spent, closed, closing, changed>>

\* Mistake: the closing is compared by the money that should be in the drawer.
ChangedByNet(r) ==
  /\ r.day \in closed
  /\ closing[r.day].in - closing[r.day].out # r.in - r.out

\* changed_after_close: the closing there is now and the sums read before.
ChangedAfterClose(r) ==
  /\ r.day \in closed
  /\ closing[r.day].in # r.in \/ closing[r.day].out # r.out

\* The closing is read and the report answered.
Tell ==
  /\ report.at = "sums"
  /\ report' = [report EXCEPT !.at = "told", !.answer = ChangedAfterClose(report),
                              !.missed = @ /\ report.day \in closed,
                              !.day = 0, !.in = 0, !.out = 0]
  /\ UNCHANGED <<date, moved, account, posted, spent, closed, closing, changed>>

BookNext ==
  \/ \E kind \in Kinds \ {"expense"}, m \in Methods, amount \in Amounts :
       Post(kind, m, amount)
  \/ \E key \in ExpenseKeys, m \in Methods, d \in Days, amount \in Amounts :
       CreateExpense(key, m, d, amount)
  \/ \E key \in CloseKeys, d \in Days, opening, actual \in Counts :
       CloseDay(key, d, opening, actual)
  \/ Midnight
  \/ \E d \in Days : ReadSums(d)
  \/ Tell

-----------------------------------------------------------------------------
\* The report of a day that was closed when its sums were read says "changed"
\* exactly when a cash document of the day had been posted after the closing: a
\* receipt and a refund of the same amount do not hide each other, and an
\* expense dated back shows.  If the day is closed between the two reads, the
\* report says so exactly when a cash document came between the sums and the
\* closing: then nothing changed after it.  Of a day not closed it never does.
ChangeIsReported ==
  report.at = "told" =>
    (report.answer <=> IF report.wasClosed THEN report.wasChanged
                       ELSE report.missed)
=============================================================================
