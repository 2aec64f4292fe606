------------------------------ MODULE Workshop -------------------------------
(***************************************************************************)
(* The job cards of mechanics (internal/workshop/service.go), which are     *)
(* written into the notebook of the vehicle when a job is completed.  Every *)
(* operation is one serializable transaction on the row of its job, so it   *)
(* is one action.                                                           *)
(***************************************************************************)
EXTENDS VehicleNotebook, Sums

CONSTANTS
  Jobs,
  Purchases,     \* reservations of the network that may be fulfilled
  NoPurchase,
  Bought,        \* [Purchases -> [buyer, qty, price]]
  Items,         \* what may be entered: [kind, qty, price, purchase]
  Payments,      \* amounts that customers may pay
  MaxItems,      \* bound: items of a job.  Quantities are whole (bound).
  MaxPayments    \* bound: payments of a job

ASSUME WorkshopAssumption ==
  /\ NoPurchase \notin Purchases
  /\ \A p \in Purchases : /\ Bought[p].buyer \in Mechanics
                          /\ Bought[p].qty \in Nat \ {0} /\ Bought[p].price \in Nat
  /\ \A in \in Items : /\ in.kind \in {"part", "labor", "service"}
                      /\ in.qty \in Nat /\ in.price \in Nat
                      /\ in.purchase \in Purchases \cup {NoPurchase}
  /\ Payments \subseteq Nat \ {0}

VARIABLES
  job,         \* workshop_jobs with their items and payments
  fulfilled    \* the purchases that are fulfilled, by the reservations

workshopVars == <<job, fulfilled>>

NoJob == [status |-> "none"]

WorkshopInit ==
  /\ job = [j \in Jobs |-> NoJob]
  /\ fulfilled = {}

IsJob(j) == job[j] # NoJob
IsOpen(j) == job[j].status = "open"

\* External: the store fulfils the reservation, see Reservations.
Fulfil(p) ==
  /\ p \notin fulfilled
  /\ fulfilled' = fulfilled \cup {p}
  /\ UNCHANGED <<job, notebookVars>>

CreateJob(j, m, v) ==
  /\ ~ IsJob(j)
  /\ Exists(v)
  /\ job' = [job EXCEPT ![j] =
               [status |-> "open", mechanic |-> m, vehicle |-> v,
                items |-> <<>>, payments |-> <<>>,
                labor |-> 0, parts |-> 0, total |-> 0, paid |-> 0, due |-> 0]]
  /\ UNCHANGED <<fulfilled, notebookVars>>

-----------------------------------------------------------------------------
SumOfLines(items, kinds) ==
  SumOf([i \in DOMAIN items |-> items[i].line],
        {i \in DOMAIN items : items[i].kind \in kinds})
SumOfPayments(payments) == SumOf(payments, DOMAIN payments)

\* recalcTx: the amounts of a job, from its items and payments.  It fails when
\* more has been paid than the job comes to.
Recalculated(b) ==
  LET total == SumOfLines(b.items, {"part", "labor", "service"})
      paid == SumOfPayments(b.payments)
  IN  [b EXCEPT !.labor = SumOfLines(b.items, {"labor", "service"}),
                !.parts = SumOfLines(b.items, {"part"}),
                !.total = total, !.paid = paid, !.due = total - paid]

\* The line an input makes.  A fulfilled purchase gives what is not entered; else
\* a missing quantity is one.
Given(entered, default) == IF entered > 0 THEN entered ELSE default

LineFor(in) ==
  LET isPurchase == in.purchase # NoPurchase
      qty == Given(in.qty, IF isPurchase THEN Bought[in.purchase].qty ELSE 1)
      price == IF isPurchase THEN Given(in.price, Bought[in.purchase].price)
               ELSE in.price
  IN  [kind |-> IF isPurchase THEN "part" ELSE in.kind,
       purchase |-> in.purchase, line |-> qty * price]

\* Mistake: what was paid is kept, but the amounts of the job are not recomputed.
AddItemAsEntered(m, j, in) ==
  /\ IsJob(j) /\ job[j].mechanic = m /\ IsOpen(j)
  /\ Len(job[j].items) < MaxItems
  /\ job' = [job EXCEPT ![j].items = Append(@, LineFor(in))]
  /\ UNCHANGED <<fulfilled, notebookVars>>

\* Nothing keeps a purchase from being attached again.
AddItem(m, j, in) ==
  /\ IsJob(j) /\ job[j].mechanic = m /\ IsOpen(j)
  /\ Len(job[j].items) < MaxItems
  /\ in.purchase # NoPurchase
       => in.purchase \in fulfilled /\ Bought[in.purchase].buyer = m
  /\ LET b == Recalculated([job[j] EXCEPT !.items = Append(@, LineFor(in))])
     IN  /\ b.paid <= b.total
         /\ job' = [job EXCEPT ![j] = b]
  /\ UNCHANGED <<fulfilled, notebookVars>>

\* A completed job may still be paid.
AddPayment(m, j, amount) ==
  /\ IsJob(j) /\ job[j].mechanic = m
  /\ Len(job[j].payments) < MaxPayments
  /\ job[j].paid + amount <= job[j].total
  /\ LET b == Recalculated([job[j] EXCEPT !.payments = Append(@, amount)])
     IN  /\ b.paid <= b.total
         /\ job' = [job EXCEPT ![j] = b]
  /\ UNCHANGED <<fulfilled, notebookVars>>

\* What the items of a job leave in the vehicle's notebook.
History(j) ==
  [i \in DOMAIN job[j].items |->
     Entry(IF job[j].items[i].kind = "part" THEN "part" ELSE "service",
           "mechanic", <<j, i>>)]

Completing(j) ==
  /\ job' = [job EXCEPT ![j].status = "completed"]
  /\ entries' = [entries EXCEPT ![job[j].vehicle] = @ \o History(j)]
  /\ UNCHANGED <<maker, code, issued, call, replaced, retired, fulfilled>>

\* Mistake: a completed job may be completed again.
CompleteAgain(m, j) ==
  /\ IsJob(j) /\ job[j].mechanic = m
  /\ Len(entries[job[j].vehicle]) < 2 * MaxItems
  /\ Completing(j)

Complete(m, j) ==
  /\ IsJob(j) /\ job[j].mechanic = m /\ IsOpen(j)
  /\ Completing(j)

WorkshopNext ==
  \/ \E p \in Purchases : Fulfil(p)
  \/ \E j \in Jobs, m \in Mechanics :
       \/ \E v \in Vehicles : CreateJob(j, m, v)
       \/ \E in \in Items : AddItem(m, j, in)
       \/ \E amount \in Payments : AddPayment(m, j, amount)
       \/ Complete(m, j)

-----------------------------------------------------------------------------
\* The permanent history of a vehicle has each item of each of its completed jobs
\* exactly once, as a part or as a service, and nothing of a job that is open.
TimesNoted(v, item) ==
  Cardinality({i \in DOMAIN entries[v] : entries[v][i].item = item})

CompletedJobsAreHistory ==
  \A j \in Jobs : IsJob(j) =>
    \A v \in Vehicles, i \in DOMAIN job[j].items :
      TimesNoted(v, <<j, i>>) =
        IF v = job[j].vehicle /\ job[j].status = "completed" THEN 1 ELSE 0

\* What a mechanic's customers still owe is what the items of the jobs come to
\* less what has been paid, and no job is overpaid, open or completed.
JobsAddUp ==
  \A j \in Jobs : IsJob(j) =>
    /\ job[j].labor + job[j].parts
         = SumOfLines(job[j].items, {"part", "labor", "service"})
    /\ job[j].due = job[j].labor + job[j].parts - SumOfPayments(job[j].payments)
    /\ job[j].due >= 0
=============================================================================
