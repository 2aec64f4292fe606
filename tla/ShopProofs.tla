----------------------------- MODULE ShopProofs ------------------------------
(***************************************************************************)
(* Proofs about the desks of Shop: the report of a closed day and its        *)
(* journal, the codes of a vehicle's notebook, the numbers of official      *)
(* invoices, the price that keeps the margin, the tax of a line, the jobs of *)
(* a workshop, and the desk where prices and the catalogue are kept and a   *)
(* sale is made.                                                            *)
(***************************************************************************)
EXTENDS Shop, SumsProofs, SequenceTheorems

-----------------------------------------------------------------------------
(* The day book *)

DayTypes ==
  /\ moved \in [Kinds -> [Methods -> [Days -> Nat]]]
  /\ closed \subseteq Days
  /\ changed \subseteq closed
  /\ DOMAIN closing = Days
  /\ \A d \in closed : closing[d].in \in Nat /\ closing[d].out \in Nat

\* Sums only grow, so a day has changed just when one of them has.
SumsGrow ==
  \A d \in closed :
    /\ closing[d].in <= In("cash", d) /\ closing[d].out <= Out("cash", d)
    /\ d \in changed
         <=> closing[d].in < In("cash", d) \/ closing[d].out < Out("cash", d)

DayInv == DayTypes /\ SumsGrow

LEMMA KindValues ==
  /\ Kinds = {"sale", "receipt", "purchaseReturn", "purchase",
              "supplierPayment", "expense", "saleReturn"}
  /\ "cash" \in Methods
BY DEF Kinds, InKinds, OutKinds, Methods

LEMMA FlowTypes ==
  ASSUME DayTypes, NEW w \in Methods, NEW d \in Days
  PROVE  In(w, d) \in Nat /\ Out(w, d) \in Nat
BY KindValues DEF DayTypes, In, Out

(* A document enters one of the two sums of its day and its method, and no       *)
(* other sum.                                                                     *)
LEMMA RecordedOnce ==
  ASSUME DayTypes, NEW kind \in Kinds, NEW m \in Methods, NEW e \in Days,
         NEW amount \in Nat, Record(kind, m, e, amount),
         NEW w \in Methods, NEW d \in Days
  PROVE  /\ In(w, d)' = In(w, d)
              + IF m = w /\ e = d /\ kind \in InKinds THEN amount ELSE 0
         /\ Out(w, d)' = Out(w, d)
              + IF m = w /\ e = d /\ kind \notin InKinds THEN amount ELSE 0
<1> DEFINE added(k) == IF k = kind /\ m = w /\ e = d THEN amount ELSE 0
<1>1. \A k \in Kinds : moved[k][w][d] \in Nat
  BY KindValues DEF DayTypes
<1>2. \A k \in Kinds : moved'[k][w][d] = moved[k][w][d] + added(k)
  <2> SUFFICES ASSUME NEW k \in Kinds
               PROVE  moved'[k][w][d] = moved[k][w][d] + added(k)
    OBVIOUS
  <2>1. moved' = [moved EXCEPT ![kind][m][e] = @ + amount]
    BY DEF Record
  <2> QED
    BY <1>1, <2>1, KindValues DEF DayTypes
<1>3. \A k \in Kinds : added(k) \in Nat
  OBVIOUS
<1>4. kind \in InKinds => added("purchase") = 0 /\ added("supplierPayment") = 0
                          /\ added("expense") = 0 /\ added("saleReturn") = 0
  BY DEF InKinds
<1>5. kind \notin InKinds => added("sale") = 0 /\ added("receipt") = 0
                             /\ added("purchaseReturn") = 0
  BY DEF InKinds
<1>6. added("sale") + added("receipt") + added("purchaseReturn")
        = IF m = w /\ e = d /\ kind \in InKinds THEN amount ELSE 0
  BY DEF InKinds
<1>7. added("purchase") + added("supplierPayment") + added("expense")
        + added("saleReturn")
        = IF m = w /\ e = d /\ kind \notin InKinds THEN amount ELSE 0
  BY KindValues DEF InKinds
<1> HIDE DEF added
<1>8. In(w, d)' = In(w, d)
        + (added("sale") + added("receipt") + added("purchaseReturn"))
  BY <1>1, <1>2, <1>3, KindValues DEF In
<1>9. Out(w, d)' = Out(w, d)
        + (added("purchase") + added("supplierPayment") + added("expense")
             + added("saleReturn"))
  BY <1>1, <1>2, <1>3, KindValues DEF Out
<1> QED
  BY <1>6, <1>7, <1>8, <1>9

LEMMA DayRecord ==
  ASSUME DayInv, NEW kind \in Kinds, NEW m \in Methods, NEW e \in Days,
         NEW amount \in Nat \ {0}, Record(kind, m, e, amount),
         UNCHANGED <<closed, closing>>
  PROVE  DayInv'
<1>1. DayTypes'
  BY DEF DayInv, DayTypes, Record
<1>2. SumsGrow'
  <2> SUFFICES ASSUME NEW d \in closed
               PROVE  /\ closing[d].in <= In("cash", d)'
                      /\ closing[d].out <= Out("cash", d)'
                      /\ d \in changed'
                           <=> \/ closing[d].in < In("cash", d)'
                               \/ closing[d].out < Out("cash", d)'
    BY DEF SumsGrow
  <2>1. /\ d \in Days /\ closing[d].in \in Nat /\ closing[d].out \in Nat
        /\ In("cash", d) \in Nat /\ Out("cash", d) \in Nat
    BY FlowTypes, KindValues DEF DayInv, DayTypes
  <2>2. /\ closing[d].in <= In("cash", d) /\ closing[d].out <= Out("cash", d)
        /\ d \in changed
             <=> closing[d].in < In("cash", d) \/ closing[d].out < Out("cash", d)
    BY DEF DayInv, SumsGrow
  <2>3. CASE m = "cash" /\ e = d
    <3>1. d \in changed'
      BY <2>3 DEF Record
    <3>2. \/ /\ In("cash", d)' = In("cash", d) + amount
             /\ Out("cash", d)' = Out("cash", d)
          \/ /\ In("cash", d)' = In("cash", d)
             /\ Out("cash", d)' = Out("cash", d) + amount
      BY <2>1, <2>3, RecordedOnce, KindValues DEF DayInv
    <3> QED
      BY <2>1, <2>2, <3>1, <3>2
  <2>4. CASE ~ (m = "cash" /\ e = d)
    <3>1. d \in changed' <=> d \in changed
      BY <2>4 DEF Record
    <3>2. In("cash", d)' = In("cash", d) /\ Out("cash", d)' = Out("cash", d)
      BY <2>1, <2>4, RecordedOnce, KindValues DEF DayInv
    <3> QED
      BY <2>2, <3>1, <3>2
  <2> QED
    BY <2>3, <2>4
<1> QED
  BY <1>1, <1>2 DEF DayInv

LEMMA DayQuiet ==
  ASSUME DayInv, UNCHANGED <<moved, closed, closing, changed>>
  PROVE  DayInv'
BY DEF DayInv, DayTypes, SumsGrow, In, Out

LEMMA DayClosed ==
  ASSUME DayInv, NEW key, NEW d \in Days, NEW opening, NEW actual,
         CloseDay(key, d, opening, actual)
  PROVE  DayInv'
<1>1. /\ closed' = closed \cup {d} /\ d \notin closed
      /\ moved' = moved /\ changed' = changed
      /\ \A e \in Days \ {d} : closing'[e] = closing[e]
      /\ DOMAIN closing' = Days
      /\ closing'[d].in = In("cash", d) /\ closing'[d].out = Out("cash", d)
  BY DEF CloseDay, DayInv, DayTypes
<1>2. \A e \in Days : In("cash", e)' = In("cash", e) /\ Out("cash", e)' = Out("cash", e)
  BY <1>1 DEF In, Out
<1>3. DayTypes'
  BY <1>1, FlowTypes, KindValues DEF DayInv, DayTypes
<1>4. ASSUME NEW e \in closed'
      PROVE  /\ closing'[e].in <= In("cash", e)
             /\ closing'[e].out <= Out("cash", e)
             /\ e \in changed'
                  <=> \/ closing'[e].in < In("cash", e)
                      \/ closing'[e].out < Out("cash", e)
  <2>1. CASE e = d
    <3>1. d \notin changed'
      BY <1>1 DEF DayInv, DayTypes
    <3>2. In("cash", d) \in Nat /\ Out("cash", d) \in Nat
      BY FlowTypes, KindValues DEF DayInv
    <3> QED
      BY <1>1, <2>1, <3>1, <3>2
  <2>2. CASE e # d
    <3>1. e \in closed /\ e \in Days
      BY <1>1, <2>2 DEF DayInv, DayTypes
    <3> QED
      BY <1>1, <2>2, <3>1 DEF DayInv, SumsGrow
  <2> QED
    BY <2>1, <2>2
<1>5. SumsGrow'
  <2>1. closed' \subseteq Days
    BY <1>3 DEF DayTypes
  <2> QED
    BY <1>2, <1>4, <2>1 DEF SumsGrow
<1> QED
  BY <1>3, <1>5 DEF DayInv

(* The invariant of the day book holds, whatever is posted and closed.            *)
LEMMA DayInvAlways == Spec => [](DayInv /\ date \in Days)
<1>1. Init => DayInv /\ date \in Days
  <2> SUFFICES ASSUME Init
               PROVE  DayInv /\ date \in Days
    OBVIOUS
  <2>1. /\ date = 0 /\ closed = {} /\ changed = {}
        /\ moved = [k \in Kinds |-> [m \in Methods |-> [d \in Days |-> 0]]]
        /\ closing = [d \in Days |-> NoClosing]
    BY DEF Init, BookInit
  <2>2. moved \in [Kinds -> [Methods -> [Days -> Nat]]]
    BY <2>1
  <2> QED
    BY <2>1, <2>2, DayBookAssumption DEF DayInv, DayTypes, SumsGrow, Days
<1>2. DayInv /\ date \in Days /\ [Next]_vars => DayInv' /\ (date \in Days)'
  <2> SUFFICES ASSUME DayInv, date \in Days, [Next]_vars
               PROVE  DayInv' /\ (date \in Days)'
    OBVIOUS
  <2>1. CASE UNCHANGED bookVars
    BY <2>1, DayQuiet DEF bookVars
  <2>2. ASSUME NEW kind \in Kinds \ {"expense"}, NEW m \in Methods,
               NEW amount \in Amounts, Post(kind, m, amount)
        PROVE  DayInv' /\ (date \in Days)'
    BY <2>2, DayRecord, DayBookAssumption DEF Post
  <2>3. ASSUME NEW key \in ExpenseKeys, NEW m \in Methods, NEW d \in Days,
               NEW amount \in Amounts, CreateExpense(key, m, d, amount)
        PROVE  DayInv' /\ (date \in Days)'
    <3>1. "expense" \in Kinds
      BY KindValues
    <3> QED
      BY <2>3, <3>1, DayRecord, DayBookAssumption DEF CreateExpense
  <2>4. ASSUME NEW key \in CloseKeys, NEW d \in Days, NEW opening \in Counts,
               NEW actual \in Counts, CloseDay(key, d, opening, actual)
        PROVE  DayInv' /\ (date \in Days)'
    BY <2>4, DayClosed DEF CloseDay
  <2>5. CASE Midnight
    BY <2>5, DayQuiet, DayBookAssumption DEF Midnight, Days
  <2>6. CASE (\E d \in Days : ReadSums(d)) \/ Tell
    BY <2>6, DayQuiet DEF ReadSums, Tell
  <2>7. CASE BookNext
    BY <2>2, <2>3, <2>4, <2>5, <2>6, <2>7 DEF BookNext
  <2> QED
    BY <2>1, <2>7 DEF Next, vars
<1> QED
  BY <1>1, <1>2, PTL DEF Spec

ReportState ==
  [at : {"none", "sums", "told"}, day : Days, in : Nat, out : Nat,
   answer : BOOLEAN, wasClosed : BOOLEAN, wasChanged : BOOLEAN, missed : BOOLEAN]

\* The sums a report has read lie between those of an earlier closing and those
\* of a later one, and differ from either only by what was posted between.
SumsRead ==
  LET d == report.day
  IN  /\ report.in <= In("cash", d) /\ report.out <= Out("cash", d)
      /\ report.wasClosed =>
           /\ d \in closed
           /\ closing[d].in <= report.in /\ closing[d].out <= report.out
           /\ report.wasChanged
                <=> closing[d].in < report.in \/ closing[d].out < report.out
      /\ ~ report.wasClosed /\ d \in closed =>
           /\ report.in <= closing[d].in /\ report.out <= closing[d].out
           /\ report.missed
                <=> report.in < closing[d].in \/ report.out < closing[d].out
      /\ ~ report.wasClosed /\ d \notin closed =>
           (report.missed
              <=> report.in < In("cash", d) \/ report.out < Out("cash", d))

ReportInv ==
  /\ report \in ReportState
  /\ report.at = "sums" => SumsRead
  /\ ChangeIsReported

LEMMA ReportQuiet ==
  ASSUME ReportInv, UNCHANGED <<moved, closed, closing, report>>
  PROVE  ReportInv'
BY DEF ReportInv, SumsRead, ChangeIsReported, In, Out

(* The two reads of a report.                                                     *)
LEMMA ReportReads ==
  ASSUME DayInv, ReportInv, (\E d \in Days : ReadSums(d)) \/ Tell
  PROVE  ReportInv'
<1>1. ASSUME NEW d \in Days, ReadSums(d)
      PROVE  ReportInv'
  <2> DEFINE c == d \in closed
             g == d \in changed
  <2>1. /\ report' = [at |-> "sums", day |-> d, in |-> In("cash", d),
                     out |-> Out("cash", d), answer |-> FALSE,
                     wasClosed |-> c, wasChanged |-> g, missed |-> FALSE]
        /\ UNCHANGED <<moved, closed, closing>>
    BY <1>1 DEF ReadSums
  <2>2. In("cash", d) \in Nat /\ Out("cash", d) \in Nat
    BY FlowTypes, KindValues DEF DayInv
  <2>3. In("cash", d)' = In("cash", d) /\ Out("cash", d)' = Out("cash", d)
    BY <2>1 DEF In, Out
  <2>4. d \in closed =>
          /\ closing[d].in <= In("cash", d) /\ closing[d].out <= Out("cash", d)
          /\ d \in changed
               <=> closing[d].in < In("cash", d) \/ closing[d].out < Out("cash", d)
    BY DEF DayInv, SumsGrow
  <2>5. /\ report' \in ReportState
        /\ report'.day = d /\ report'.in = In("cash", d)
        /\ report'.out = Out("cash", d)
        /\ report'.wasClosed = c /\ report'.wasChanged = g
        /\ report'.missed = FALSE
    <3>1. c \in BOOLEAN /\ g \in BOOLEAN
      OBVIOUS
    <3> HIDE DEF c, g
    <3> QED
      BY <2>1, <2>2, <3>1 DEF ReportState
  <2>6. SumsRead'
    <3>1. /\ report'.in = In("cash", d)' /\ report'.out = Out("cash", d)'
          /\ In("cash", d)' \in Nat /\ Out("cash", d)' \in Nat
      BY <2>2, <2>3, <2>5
    <3>2. report'.wasClosed <=> d \in closed'
      BY <2>1, <2>5
    <3>3. report'.wasClosed =>
            /\ closing'[d].in <= report'.in /\ closing'[d].out <= report'.out
            /\ report'.wasChanged
                 <=> closing'[d].in < report'.in \/ closing'[d].out < report'.out
      BY <2>1, <2>4, <2>5
    <3> HIDE DEF c, g
    <3> QED
      BY <2>5, <3>1, <3>2, <3>3 DEF SumsRead
  <2> QED
    BY <2>1, <2>5, <2>6 DEF ReportInv, ChangeIsReported
<1>2. CASE Tell
  <2> DEFINE answer == ChangedAfterClose(report)
             missed == report.missed /\ report.day \in closed
  <2>1. /\ report.at = "sums" /\ report \in ReportState /\ SumsRead
        /\ report' = [report EXCEPT !.at = "told", !.answer = answer,
                                    !.missed = missed,
                                    !.day = 0, !.in = 0, !.out = 0]
    BY <1>2 DEF Tell, ReportInv
  <2>2. answer \in BOOLEAN /\ missed \in BOOLEAN
    BY DEF ChangedAfterClose
  <2> HIDE DEF answer, missed
  <2>3. /\ report' \in ReportState
        /\ report'.answer = answer
        /\ report'.wasClosed = report.wasClosed
        /\ report'.wasChanged = report.wasChanged
        /\ report'.missed = missed
        /\ report'.at = "told"
    <3>1. 0 \in Days
      BY DayBookAssumption DEF Days
    <3>2. report' = [at |-> "told", day |-> 0, in |-> 0, out |-> 0,
                     answer |-> answer, wasClosed |-> report.wasClosed,
                     wasChanged |-> report.wasChanged, missed |-> missed]
      BY <2>1 DEF ReportState
    <3>3. report.wasClosed \in BOOLEAN /\ report.wasChanged \in BOOLEAN
      BY <2>1 DEF ReportState
    <3> QED
      BY <2>2, <3>1, <3>2, <3>3 DEF ReportState
  <2>4. /\ report.in \in Nat /\ report.out \in Nat
        /\ report.day \in closed
             => closing[report.day].in \in Nat /\ closing[report.day].out \in Nat
    BY <2>1 DEF ReportState, DayInv, DayTypes
  <2>5. answer <=> IF report.wasClosed THEN report.wasChanged ELSE missed
    BY <2>1, <2>4 DEF ChangedAfterClose, SumsRead, answer, missed
  <2>6. ChangeIsReported'
    BY <2>3, <2>5 DEF ChangeIsReported
  <2> QED
    BY <2>3, <2>6 DEF ReportInv
<1> QED
  BY <1>1, <1>2

(* A document posted between the two reads of a report.                           *)
LEMMA ReportRecord ==
  ASSUME DayInv, ReportInv, NEW kind \in Kinds, NEW m \in Methods, NEW e \in Days,
         NEW amount \in Nat \ {0}, Record(kind, m, e, amount),
         UNCHANGED <<closed, closing>>
  PROVE  ReportInv'
<1> PICK d \in Days : d = report.day
  BY DEF ReportInv, ReportState
<1>1. /\ report \in ReportState
      /\ report.in \in Nat /\ report.out \in Nat
      /\ In("cash", d) \in Nat /\ Out("cash", d) \in Nat
  BY FlowTypes, KindValues DEF ReportInv, ReportState, DayInv
<1>2. report' = IF m = "cash" /\ report.at = "sums" /\ d = e /\ e \notin closed
                  THEN [report EXCEPT !.missed = TRUE] ELSE report
  BY DEF Record
<1>3. CASE report.at # "sums"
  BY <1>2, <1>3 DEF ReportInv, ChangeIsReported
<1>4. CASE report.at = "sums"
  <2>1. /\ report' \in ReportState /\ report'.at = "sums" /\ report'.day = d
        /\ report'.in = report.in /\ report'.out = report.out
        /\ report'.wasClosed = report.wasClosed
        /\ report'.wasChanged = report.wasChanged
        /\ report'.missed = (report.missed \/ (m = "cash" /\ d = e /\ e \notin closed))
    BY <1>1, <1>2, <1>4 DEF ReportState
  <2>2. SumsRead
    BY <1>4 DEF ReportInv
  <2>3. CASE m = "cash" /\ e = d
    <3>1. \/ /\ In("cash", d)' = In("cash", d) + amount
             /\ Out("cash", d)' = Out("cash", d)
          \/ /\ In("cash", d)' = In("cash", d)
             /\ Out("cash", d)' = Out("cash", d) + amount
      BY <1>1, <2>3, RecordedOnce, KindValues DEF DayInv
    <3>2. d \notin closed => report'.missed
      BY <2>1, <2>3
    <3>3. d \in closed => report'.missed = report.missed
      BY <1>1, <2>1, <2>3 DEF ReportState
    <3>4. SumsRead'
      BY <1>1, <2>1, <2>2, <3>1, <3>2, <3>3 DEF SumsRead
    <3> QED
      BY <2>1, <3>4 DEF ReportInv, ChangeIsReported
  <2>4. CASE ~ (m = "cash" /\ e = d)
    <3>1. In("cash", d)' = In("cash", d) /\ Out("cash", d)' = Out("cash", d)
      BY <1>1, <2>4, RecordedOnce, KindValues DEF DayInv
    <3>2. report' = report
      BY <1>2, <2>4
    <3>3. SumsRead'
      BY <2>2, <3>1, <3>2 DEF SumsRead
    <3> QED
      BY <2>1, <3>3 DEF ReportInv, ChangeIsReported
  <2> QED
    BY <2>3, <2>4
<1> QED
  BY <1>3, <1>4

(* A closing between the two reads: it has what the sums had, and what was posted *)
(* since.                                                                         *)
LEMMA ReportClosed ==
  ASSUME DayInv, ReportInv, NEW key, NEW d \in Days, NEW opening, NEW actual,
         CloseDay(key, d, opening, actual)
  PROVE  ReportInv'
<1>1. /\ closed' = closed \cup {d} /\ d \notin closed
      /\ UNCHANGED <<moved, report>>
      /\ \A e \in Days \ {d} : closing'[e] = closing[e]
      /\ closing'[d].in = In("cash", d) /\ closing'[d].out = Out("cash", d)
  BY DEF CloseDay, DayInv, DayTypes
<1>2. \A e \in Days : In("cash", e)' = In("cash", e) /\ Out("cash", e)' = Out("cash", e)
  BY <1>1 DEF In, Out
<1>3. report \in ReportState /\ report.day \in Days
  BY DEF ReportInv, ReportState
<1>4. ASSUME report.at = "sums"
      PROVE  SumsRead'
  <2>1. SumsRead
    BY <1>4 DEF ReportInv
  <2>2. CASE report.day = d
    BY <1>1, <1>2, <2>1, <2>2 DEF SumsRead
  <2>3. CASE report.day # d
    BY <1>1, <1>2, <1>3, <2>1, <2>3 DEF SumsRead
  <2> QED
    BY <2>2, <2>3
<1> QED
  BY <1>1, <1>4 DEF ReportInv, ChangeIsReported

(* The report of a day says that it changed exactly when a cash document of the   *)
(* day was posted after its closing or, if the day was closed between the two     *)
(* reads, between the sums and the closing: for any number of days, documents,    *)
(* amounts, closings and expenses dated back (operations/service.go, CashReport). *)
THEOREM ChangeIsAlwaysReported == Spec => []ChangeIsReported
<1>1. Init => ReportInv
  <2> SUFFICES ASSUME Init
               PROVE  ReportInv
    OBVIOUS
  <2>1. report = NoReport
    BY DEF Init, BookInit
  <2>2. report \in ReportState /\ report.at = "none"
    BY <2>1, DayBookAssumption DEF NoReport, ReportState, Days
  <2> QED
    BY <2>2 DEF ReportInv, ChangeIsReported
<1>2. DayInv /\ date \in Days /\ ReportInv /\ [Next]_vars => ReportInv'
  <2> SUFFICES ASSUME DayInv, date \in Days, ReportInv, [Next]_vars
               PROVE  ReportInv'
    OBVIOUS
  <2>1. CASE UNCHANGED bookVars
    BY <2>1, ReportQuiet DEF bookVars
  <2>2. ASSUME NEW kind \in Kinds \ {"expense"}, NEW m \in Methods,
               NEW amount \in Amounts, Post(kind, m, amount)
        PROVE  ReportInv'
    BY <2>2, ReportRecord, DayBookAssumption DEF Post
  <2>3. ASSUME NEW key \in ExpenseKeys, NEW m \in Methods, NEW d \in Days,
               NEW amount \in Amounts, CreateExpense(key, m, d, amount)
        PROVE  ReportInv'
    <3>1. "expense" \in Kinds
      BY KindValues
    <3> QED
      BY <2>3, <3>1, ReportRecord, DayBookAssumption DEF CreateExpense
  <2>4. ASSUME NEW key \in CloseKeys, NEW d \in Days, NEW opening \in Counts,
               NEW actual \in Counts, CloseDay(key, d, opening, actual)
        PROVE  ReportInv'
    BY <2>4, ReportClosed
  <2>5. CASE Midnight
    BY <2>5, ReportQuiet DEF Midnight
  <2>6. CASE (\E d \in Days : ReadSums(d)) \/ Tell
    BY <2>6, ReportReads
  <2>7. CASE BookNext
    BY <2>2, <2>3, <2>4, <2>5, <2>6, <2>7 DEF BookNext
  <2> QED
    BY <2>1, <2>7 DEF Next, vars
<1>3. ReportInv => ChangeIsReported
  BY DEF ReportInv
<1> QED
  BY <1>1, <1>2, <1>3, DayInvAlways, PTL DEF Spec

\* What a method's account in the journal should hold by the reports.
Reported(m) == [d \in Days |-> Net(m, d)]

JournalInv ==
  \A m \in Methods : /\ Summable(Reported(m), Days)
                     /\ account[m] = SumOf(Reported(m), Days)

JournalTypes == account \in [Methods -> Int]

(* A document is in the report of its day and in the account of its method, with  *)
(* one amount.                                                                    *)
LEMMA RecordedInBoth ==
  ASSUME DayTypes, JournalInv, JournalTypes, NEW kind \in Kinds, NEW m \in Methods,
         NEW e \in Days, NEW amount \in Nat, Record(kind, m, e, amount)
  PROVE  JournalInv' /\ JournalTypes'
<1> DEFINE a(w) == IF w = m THEN Signed(kind, amount) ELSE 0
<1>1. /\ \A w \in Methods : account'[w] = account[w] + a(w) /\ a(w) \in Int
      /\ JournalTypes'
  BY DEF Record, JournalTypes, Signed
<1>2. ASSUME NEW w \in Methods
      PROVE  /\ \A d \in Days : Reported(w)[d] \in Int
             /\ Reported(w)'[e] = Reported(w)[e] + a(w)
             /\ \A d \in Days \ {e} : Reported(w)'[d] = Reported(w)[d]
  <2>1. ASSUME NEW d \in Days
        PROVE  /\ Net(w, d) \in Int
               /\ Net(w, d)' = Net(w, d) + (IF d = e THEN a(w) ELSE 0)
    <3>1. In(w, d) \in Nat /\ Out(w, d) \in Nat
      BY FlowTypes
    <3>2. /\ In(w, d)' = In(w, d)
                + IF m = w /\ e = d /\ kind \in InKinds THEN amount ELSE 0
          /\ Out(w, d)' = Out(w, d)
                + IF m = w /\ e = d /\ kind \notin InKinds THEN amount ELSE 0
      BY RecordedOnce
    <3> QED
      BY <3>1, <3>2 DEF Net, Signed
  <2> QED
    BY <1>1, <2>1 DEF Reported
<1>3. ASSUME NEW w \in Methods
      PROVE  /\ Summable(Reported(w)', Days)
             /\ SumOf(Reported(w)', Days) = SumOf(Reported(w), Days) + a(w)
  <2> DEFINE f == Reported(w)
             g == Reported(w)'
             x == a(w)
  <2>1. /\ Summable(f, Days) /\ x \in Int /\ f[e] \in Int /\ g[e] = f[e] + x
        /\ \A d \in Days \ {e} : g[d] = f[d]
    BY <1>1, <1>2 DEF JournalInv
  <2> HIDE DEF f, g, x
  <2>2. Summable(g, Days) /\ SumOf(g, Days) = SumOf(f, Days) + x
    BY <2>1, SumMoves
  <2> QED
    BY <2>2 DEF f, g, x
<1>4. JournalInv'
  <2>1. Days' = Days /\ Methods' = Methods
    BY DEF Days, Methods
  <2> QED
    BY <1>1, <1>3, <2>1 DEF JournalInv
<1> QED
  BY <1>1, <1>4

(* What moves no money leaves the journal and the reports as they are.            *)
LEMMA JournalQuiet ==
  ASSUME JournalInv, JournalTypes, UNCHANGED <<moved, account>>
  PROVE  JournalInv' /\ JournalTypes'
BY DEF JournalInv, JournalTypes, Reported, Net, In, Out

(* The reports of the days, taken together, are the accounts of the journal, for  *)
(* any days and any documents, expenses dated back among them.                    *)
THEOREM ReportsAreJournal == Spec => []ReportsFollowJournal
<1>1. Init => JournalInv /\ JournalTypes
  <2> SUFFICES ASSUME Init
               PROVE  JournalInv /\ JournalTypes
    OBVIOUS
  <2>1. /\ account = [m \in Methods |-> 0]
        /\ moved = [k \in Kinds |-> [m \in Methods |-> [d \in Days |-> 0]]]
    BY DEF Init, BookInit
  <2>2. ASSUME NEW m \in Methods
        PROVE  /\ Summable(Reported(m), Days)
               /\ account[m] = SumOf(Reported(m), Days)
    <3>1. \A d \in Days : Reported(m)[d] = 0
      BY <2>1, KindValues DEF Reported, Net, In, Out
    <3> QED
      BY <2>1, <3>1, SumOfZero
  <2> QED
    BY <2>1, <2>2 DEF JournalInv, JournalTypes
<1>2. /\ JournalInv /\ JournalTypes /\ DayInv /\ date \in Days /\ [Next]_vars
      => JournalInv' /\ JournalTypes'
  <2> SUFFICES ASSUME JournalInv, JournalTypes, DayTypes, date \in Days, [Next]_vars
               PROVE  JournalInv' /\ JournalTypes'
    BY DEF DayInv
  <2>1. CASE UNCHANGED bookVars
    BY <2>1, JournalQuiet DEF bookVars
  <2>2. ASSUME NEW kind \in Kinds \ {"expense"}, NEW m \in Methods,
               NEW amount \in Amounts, Post(kind, m, amount)
        PROVE  JournalInv' /\ JournalTypes'
    BY <2>2, RecordedInBoth, DayBookAssumption DEF Post
  <2>3. ASSUME NEW key \in ExpenseKeys, NEW m \in Methods, NEW d \in Days,
               NEW amount \in Amounts, CreateExpense(key, m, d, amount)
        PROVE  JournalInv' /\ JournalTypes'
    <3>1. "expense" \in Kinds
      BY KindValues
    <3> QED
      BY <2>3, <3>1, RecordedInBoth, DayBookAssumption DEF CreateExpense
  <2>4. ASSUME NEW key \in CloseKeys, NEW d \in Days, NEW opening \in Counts,
               NEW actual \in Counts, CloseDay(key, d, opening, actual)
        PROVE  JournalInv' /\ JournalTypes'
    BY <2>4, JournalQuiet DEF CloseDay
  <2>5. CASE Midnight
    BY <2>5, JournalQuiet DEF Midnight
  <2>6. CASE (\E d \in Days : ReadSums(d)) \/ Tell
    BY <2>6, JournalQuiet DEF ReadSums, Tell
  <2>7. CASE BookNext
    BY <2>2, <2>3, <2>4, <2>5, <2>6, <2>7 DEF BookNext
  <2> QED
    BY <2>1, <2>7 DEF Next, vars
<1>3. JournalInv => ReportsFollowJournal
  BY DEF JournalInv, Reported, ReportsFollowJournal
<1> QED
  BY <1>1, <1>2, <1>3, DayInvAlways, PTL DEF Spec

-----------------------------------------------------------------------------
(* The codes of a notebook *)

FoundCalls == [at : {"found"}, vehicle : Vehicles, code : Nat]
StoredCalls == [at : {"stored"}, vehicle : Vehicles, before : SUBSET Nat]
CheckedCalls == [at : {"checked"}, vehicle : Vehicles, code : Nat,
                 retired : SUBSET Nat]

CodeTypes ==
  /\ code \in [Vehicles -> Nat] /\ issued \in [Vehicles -> Nat]
  /\ DOMAIN maker = Vehicles
  /\ replaced \in [Vehicles -> SUBSET Nat] /\ retired \in [Vehicles -> SUBSET Nat]
  /\ call \in [Calls -> {Idle} \cup FoundCalls \cup StoredCalls \cup CheckedCalls]

\* A code is in force, replaced, or still to be stored by one request, and never
\* two of these; and nothing is issued for a notebook that is not there.
CodesApart ==
  /\ \A v \in Vehicles :
       /\ code[v] <= issued[v] /\ code[v] \notin replaced[v]
       /\ \A k \in replaced[v] : k <= issued[v]
       /\ retired[v] \subseteq replaced[v]
       /\ ~ Exists(v) => replaced[v] = {}
  /\ \A c \in Calls : call[c].at = "found" =>
       /\ Exists(call[c].vehicle)
       /\ call[c].code <= issued[call[c].vehicle]
       /\ call[c].code # code[call[c].vehicle]
       /\ call[c].code \notin replaced[call[c].vehicle]
       /\ \A d \in Calls :
            /\ call[d].at = "found"
            /\ call[d].vehicle = call[c].vehicle /\ call[d].code = call[c].code
            => d = c
  /\ \A c \in Calls :
       call[c].at = "stored" => call[c].before \subseteq replaced[call[c].vehicle]

CodesInv == CodeTypes /\ CodesApart /\ RetiredCodesFail

LEMMA CodesQuiet ==
  ASSUME CodesInv, UNCHANGED <<maker, code, issued, call, replaced, retired>>
  PROVE  CodesInv'
BY DEF CodesInv, CodeTypes, CodesApart, RetiredCodesFail, Exists

(* What a request has got to, by the form of its state. *)
LEMMA CallForms ==
  ASSUME CodeTypes, NEW c \in Calls
  PROVE  /\ call[c].at \in {"idle", "found", "stored", "checked"}
         /\ call[c].at = "found" => /\ call[c].vehicle \in Vehicles
                                    /\ call[c].code \in Nat
         /\ call[c].at = "stored" => /\ call[c].vehicle \in Vehicles
                                     /\ call[c].before \subseteq Nat
         /\ call[c].at = "checked" => /\ call[c].vehicle \in Vehicles
                                      /\ call[c].code \in Nat
BY DEF CodeTypes, FoundCalls, StoredCalls, CheckedCalls, Idle

LEMMA IdleAt == Idle.at = "idle"
BY DEF Idle

LEMMA CodeOfCreate ==
  ASSUME CodesInv, NEW v \in Vehicles, NEW who, who # Nobody, Create(v, who)
  PROVE  CodesInv'
<1>1. /\ maker' = [maker EXCEPT ![v] = who] /\ ~ Exists(v)
      /\ code' = [code EXCEPT ![v] = 1] /\ issued' = [issued EXCEPT ![v] = 1]
      /\ call' = call /\ replaced' = replaced /\ retired' = retired
  BY DEF Create
<1>2. CodeTypes'
  BY <1>1 DEF CodesInv, CodeTypes
<1>3. \A c \in Calls : call[c].at = "found" => call[c].vehicle # v
  BY <1>1 DEF CodesInv, CodesApart
<1>4. replaced[v] = {}
  BY <1>1 DEF CodesInv, CodesApart
<1>5. CodesApart'
  <2>1. ASSUME NEW u \in Vehicles
        PROVE  /\ code'[u] <= issued'[u] /\ code'[u] \notin replaced'[u]
               /\ \A k \in replaced'[u] : k <= issued'[u]
               /\ retired'[u] \subseteq replaced'[u]
               /\ ~ Exists(u)' => replaced'[u] = {}
    <3>1. CASE u = v
      BY <1>1, <1>4, <3>1 DEF CodesInv, CodeTypes, CodesApart
    <3>2. CASE u # v
      BY <1>1, <3>2 DEF CodesInv, CodeTypes, CodesApart, Exists
    <3> QED
      BY <3>1, <3>2
  <2>2. ASSUME NEW c \in Calls, call[c].at = "found"
        PROVE  /\ Exists(call[c].vehicle)'
               /\ call[c].code <= issued'[call[c].vehicle]
               /\ call[c].code # code'[call[c].vehicle]
    BY <1>1, <1>3, <2>2, CallForms DEF CodesInv, CodeTypes, CodesApart, Exists
  <2> QED
    BY <1>1, <2>1, <2>2 DEF CodesInv, CodesApart
<1> QED
  BY <1>1, <1>2, <1>5 DEF CodesInv, RetiredCodesFail

\* A request that goes on to a state that bears on no code of its own.
LEMMA CodeOfNoOne ==
  ASSUME CodesInv, NEW c \in Calls, NEW state,
         state = Idle \/ state \in CheckedCalls,
         call' = [call EXCEPT ![c] = state],
         state.at = "checked" => state.code \notin state.retired,
         UNCHANGED <<maker, code, issued, replaced>>,
         retired' \in [Vehicles -> SUBSET Nat],
         \A v \in Vehicles : retired'[v] \subseteq replaced[v]
  PROVE  CodesInv'
<1>1. /\ call'[c] = state
      /\ \A d \in Calls \ {c} : call'[d] = call[d]
      /\ state.at \in {"idle", "checked"}
  BY DEF CodesInv, CodeTypes, Idle, CheckedCalls
<1>2. CodeTypes'
  BY DEF CodesInv, CodeTypes
<1>3. CodesApart'
  BY <1>1 DEF CodesInv, CodesApart, Exists
<1>4. RetiredCodesFail'
  BY <1>1 DEF CodesInv, RetiredCodesFail
<1> QED
  BY <1>2, <1>3, <1>4 DEF CodesInv

LEMMA CodeFound ==
  ASSUME CodesInv, NEW c \in Calls, NEW v \in Vehicles, NEW who, who # Nobody,
         FindNotebook(c, v, who)
  PROVE  CodesInv'
<1> DEFINE state == [at |-> "found", vehicle |-> v, code |-> issued[v] + 1]
<1>1. /\ issued' = [issued EXCEPT ![v] = @ + 1] /\ Exists(v)
      /\ call' = [call EXCEPT ![c] = state]
      /\ UNCHANGED <<maker, code, replaced, retired>>
  BY DEF FindNotebook, Exists
<1>2. /\ state.at = "found" /\ state.vehicle = v /\ state.code = issued[v] + 1
      /\ issued[v] \in Nat /\ state \in FoundCalls
  BY DEF CodesInv, CodeTypes, FoundCalls
<1>3. CodeTypes'
  BY <1>1, <1>2 DEF CodesInv, CodeTypes
<1> HIDE DEF state
<1>4. /\ call'[c] = state
      /\ \A d \in Calls \ {c} : call'[d] = call[d]
  BY <1>1 DEF CodesInv, CodeTypes
<1>5. \A u \in Vehicles : issued'[u] \in Nat /\ issued[u] \in Nat /\ code[u] \in Nat
                          /\ replaced[u] \subseteq Nat /\ issued[u] <= issued'[u]
  BY <1>1 DEF CodesInv, CodeTypes
<1>6. issued'[v] = issued[v] + 1
  BY <1>1 DEF CodesInv, CodeTypes
<1>7. ASSUME NEW u \in Vehicles
      PROVE  /\ code'[u] <= issued'[u] /\ code'[u] \notin replaced'[u]
             /\ \A k \in replaced'[u] : k <= issued'[u]
             /\ retired'[u] \subseteq replaced'[u]
             /\ ~ Exists(u)' => replaced'[u] = {}
  BY <1>1, <1>5 DEF CodesInv, CodesApart, Exists
<1>8. \A d \in Calls \ {c} : call[d].at = "found" /\ call[d].vehicle = v
                               => call[d].code # state.code
  BY <1>2, CallForms DEF CodesInv, CodesApart
<1>9. state.code # code[v] /\ state.code \notin replaced[v]
  BY <1>2, <1>5 DEF CodesInv, CodesApart
<1>10. ASSUME NEW d \in Calls, call'[d].at = "found"
       PROVE  /\ maker'[call'[d].vehicle] # Nobody
              /\ call'[d].code <= issued'[call'[d].vehicle]
              /\ call'[d].code # code'[call'[d].vehicle]
              /\ call'[d].code \notin replaced'[call'[d].vehicle]
              /\ \A e \in Calls :
                   /\ call'[e].at = "found"
                   /\ call'[e].vehicle = call'[d].vehicle
                   /\ call'[e].code = call'[d].code
                   => e = d
  <2>1. CASE d = c
    BY <1>1, <1>2, <1>4, <1>5, <1>6, <1>8, <1>9, <2>1 DEF Exists
  <2>2. CASE d # c
    <3>1. /\ call'[d] = call[d] /\ call[d].vehicle \in Vehicles
          /\ call[d].code \in Nat
      BY <1>4, <1>10, <2>2, CallForms DEF CodesInv
    <3>2. /\ Exists(call[d].vehicle)
          /\ call[d].code <= issued[call[d].vehicle]
          /\ call[d].code # code[call[d].vehicle]
          /\ call[d].code \notin replaced[call[d].vehicle]
          /\ \A e \in Calls :
               /\ call[e].at = "found"
               /\ call[e].vehicle = call[d].vehicle /\ call[e].code = call[d].code
               => e = d
      BY <1>10, <3>1 DEF CodesInv, CodesApart
    <3>3. call[d].code <= issued'[call[d].vehicle]
      BY <1>5, <3>1, <3>2
    <3> QED
      BY <1>1, <1>2, <1>4, <1>8, <1>10, <3>1, <3>2, <3>3 DEF Exists
  <2> QED
    BY <2>1, <2>2
<1>11. \A d \in Calls : call'[d].at = "stored"
                          => call'[d].before \subseteq replaced'[call'[d].vehicle]
  BY <1>1, <1>2, <1>4 DEF CodesInv, CodesApart
<1>12. CodesApart'
  BY <1>7, <1>10, <1>11 DEF CodesApart, Exists
<1>13. RetiredCodesFail'
  BY <1>2, <1>4 DEF CodesInv, RetiredCodesFail
<1> QED
  BY <1>3, <1>12, <1>13 DEF CodesInv

LEMMA CodeStored ==
  ASSUME CodesInv, NEW c \in Calls, StoreCode(c)
  PROVE  CodesInv'
<1> DEFINE v == call[c].vehicle
           now == replaced[v] \cup {code[v]}
           state == [at |-> "stored", vehicle |-> v, before |-> now]
<1>1. /\ call[c].at = "found"
      /\ code' = [code EXCEPT ![v] = call[c].code]
      /\ replaced' = [replaced EXCEPT ![v] = now]
      /\ call' = [call EXCEPT ![c] = state]
      /\ UNCHANGED <<maker, issued, retired>>
  BY DEF StoreCode, Replacing
<1>2. v \in Vehicles /\ call[c].code \in Nat
  BY <1>1, CallForms DEF CodesInv
<1>3. now \in SUBSET Nat /\ state \in StoredCalls
  BY <1>2 DEF CodesInv, CodeTypes, StoredCalls
<1>4. CodeTypes'
  BY <1>1, <1>2, <1>3 DEF CodesInv, CodeTypes
<1>5. /\ state.at = "stored" /\ state.vehicle = v /\ state.before = now
      /\ replaced[v] \subseteq now /\ code[v] \in now
      /\ \A k \in now : k \in replaced[v] \/ k = code[v]
  OBVIOUS
<1>6. /\ Exists(v) /\ call[c].code <= issued[v] /\ call[c].code # code[v]
      /\ call[c].code \notin replaced[v] /\ code[v] <= issued[v]
      /\ \A d \in Calls \ {c} : call[d].at = "found" /\ call[d].vehicle = v
                                  => call[d].code # call[c].code
  BY <1>1, <1>2 DEF CodesInv, CodesApart
<1> HIDE DEF v, now, state
<1>7. /\ call'[c] = state
      /\ \A d \in Calls \ {c} : call'[d] = call[d]
      /\ code'[v] = call[c].code /\ replaced'[v] = now
      /\ \A u \in Vehicles \ {v} : code'[u] = code[u] /\ replaced'[u] = replaced[u]
  BY <1>1, <1>2 DEF CodesInv, CodeTypes
<1>8. ASSUME NEW u \in Vehicles
      PROVE  /\ code'[u] <= issued'[u] /\ code'[u] \notin replaced'[u]
             /\ \A k \in replaced'[u] : k <= issued'[u]
             /\ retired'[u] \subseteq replaced'[u]
             /\ ~ Exists(u)' => replaced'[u] = {}
  <2>1. /\ code[u] <= issued[u] /\ code[u] \notin replaced[u]
        /\ \A k \in replaced[u] : k <= issued[u]
        /\ retired[u] \subseteq replaced[u]
        /\ ~ Exists(u) => replaced[u] = {}
    BY DEF CodesInv, CodesApart
  <2>2. CASE u = v
    BY <1>1, <1>5, <1>6, <1>7, <2>1, <2>2 DEF Exists
  <2>3. CASE u # v
    BY <1>1, <1>7, <2>1, <2>3 DEF Exists
  <2> QED
    BY <2>2, <2>3
<1>9. ASSUME NEW d \in Calls, call'[d].at = "found"
      PROVE  /\ maker'[call'[d].vehicle] # Nobody
             /\ call'[d].code <= issued'[call'[d].vehicle]
             /\ call'[d].code # code'[call'[d].vehicle]
             /\ call'[d].code \notin replaced'[call'[d].vehicle]
             /\ \A e \in Calls :
                  /\ call'[e].at = "found"
                  /\ call'[e].vehicle = call'[d].vehicle
                  /\ call'[e].code = call'[d].code
                  => e = d
  <2>1. d # c /\ call'[d] = call[d]
    BY <1>5, <1>7, <1>9
  <2>2. call[d].vehicle \in Vehicles
    BY <1>9, <2>1, CallForms DEF CodesInv
  <2>3. /\ Exists(call[d].vehicle)
        /\ call[d].code <= issued[call[d].vehicle]
        /\ call[d].code # code[call[d].vehicle]
        /\ call[d].code \notin replaced[call[d].vehicle]
        /\ \A e \in Calls :
             /\ call[e].at = "found"
             /\ call[e].vehicle = call[d].vehicle /\ call[e].code = call[d].code
             => e = d
    BY <1>9, <2>1 DEF CodesInv, CodesApart
  <2>4. \A e \in Calls : call'[e].at = "found" => call'[e] = call[e]
    BY <1>5, <1>7
  <2>5. CASE call[d].vehicle = v
    BY <1>1, <1>5, <1>6, <1>7, <1>9, <2>1, <2>3, <2>4, <2>5 DEF Exists
  <2>6. CASE call[d].vehicle # v
    BY <1>1, <1>7, <2>1, <2>2, <2>3, <2>4, <2>6 DEF Exists
  <2> QED
    BY <2>5, <2>6
<1>10. ASSUME NEW d \in Calls, call'[d].at = "stored"
       PROVE  call'[d].before \subseteq replaced'[call'[d].vehicle]
  <2>1. CASE d = c
    BY <1>5, <1>7, <2>1
  <2>2. CASE d # c
    <3>1. /\ call'[d] = call[d] /\ call[d].vehicle \in Vehicles
          /\ call[d].before \subseteq replaced[call[d].vehicle]
      BY <1>7, <1>10, <2>2, CallForms DEF CodesInv, CodesApart
    <3>2. replaced[call[d].vehicle] \subseteq replaced'[call[d].vehicle]
      BY <1>5, <1>7, <3>1
    <3> QED
      BY <3>1, <3>2
  <2> QED
    BY <2>1, <2>2
<1>11. CodesApart'
  BY <1>8, <1>9, <1>10 DEF CodesApart, Exists
<1>12. RetiredCodesFail'
  BY <1>5, <1>7 DEF CodesInv, RetiredCodesFail
<1> QED
  BY <1>4, <1>11, <1>12 DEF CodesInv

(* The steps of the requests about codes. *)
LEMMA CodeStep ==
  ASSUME CodesInv, CodeNext
  PROVE  CodesInv'
<1>0. \A w \in Makers : w # Nobody
  BY NotebookAssumption DEF Makers
<1>t. /\ retired \in [Vehicles -> SUBSET Nat]
      /\ \A v \in Vehicles : retired[v] \subseteq replaced[v] /\ retired[v] \subseteq Nat
      /\ \A v \in Vehicles : code[v] \in Nat /\ code[v] \notin replaced[v]
  BY DEF CodesInv, CodeTypes, CodesApart
<1>1. ASSUME NEW c \in Calls, NEW v \in Vehicles, NEW given \in OwnerCodes,
             CheckCode(c, v, given)
      PROVE  CodesInv'
  <2> DEFINE state == [at |-> "checked", vehicle |-> v, code |-> given,
                       retired |-> retired[v]]
  <2>1. /\ call' = [call EXCEPT ![c] = state] /\ given = code[v]
        /\ UNCHANGED <<maker, code, issued, replaced, retired>>
    BY <1>1 DEF CheckCode
  <2>2. /\ state \in CheckedCalls
        /\ state.code \notin state.retired
    BY <1>t, <2>1 DEF CheckedCalls
  <2> HIDE DEF state
  <2> QED
    BY <1>t, <2>1, <2>2, CodeOfNoOne
<1>2. ASSUME NEW c \in Calls, AnswerCode(c)
      PROVE  CodesInv'
  <2>1. /\ call[c].at = "stored" /\ call' = [call EXCEPT ![c] = Idle]
        /\ retired' = [retired EXCEPT ![call[c].vehicle] = @ \cup call[c].before]
        /\ UNCHANGED <<maker, code, issued, replaced>>
    BY <1>2 DEF AnswerCode
  <2>2. /\ call[c].vehicle \in Vehicles /\ call[c].before \subseteq Nat
        /\ call[c].before \subseteq replaced[call[c].vehicle]
    BY <2>1, CallForms DEF CodesInv, CodesApart
  <2>3. retired' \in [Vehicles -> SUBSET Nat]
    BY <1>t, <2>1, <2>2
  <2>4. \A v \in Vehicles : retired'[v] \subseteq replaced[v]
    BY <1>t, <2>1, <2>2
  <2> QED
    BY <2>1, <2>3, <2>4, IdleAt, CodeOfNoOne
<1>3. ASSUME NEW c \in Calls, AddOwnerEntry(c) \/ GiveUp(c)
      PROVE  CodesInv'
  <2>1. /\ call' = [call EXCEPT ![c] = Idle]
        /\ UNCHANGED <<maker, code, issued, replaced, retired>>
    BY <1>3 DEF AddOwnerEntry, GiveUp
  <2> QED
    BY <1>t, <2>1, IdleAt, CodeOfNoOne
<1> QED
  BY <1>0, <1>1, <1>2, <1>3, CodeFound, CodeStored DEF CodeNext

(* The invariant of the codes holds, whatever the desks do.                       *)
LEMMA CodesInvAlways == Spec => []CodesInv
<1>1. Init => CodesInv
  <2> SUFFICES ASSUME Init
               PROVE  CodesInv
    OBVIOUS
  <2>1. /\ maker = [v \in Vehicles |-> Nobody]
        /\ code = [v \in Vehicles |-> 0] /\ issued = [v \in Vehicles |-> 0]
        /\ replaced = [v \in Vehicles |-> {}] /\ retired = [v \in Vehicles |-> {}]
        /\ call = [c \in Calls |-> Idle]
    BY DEF Init, NotebookInit
  <2>2. CodeTypes
    BY <2>1 DEF CodeTypes
  <2>3. \A c \in Calls : call[c].at = "idle"
    BY <2>1, IdleAt
  <2> QED
    BY <2>1, <2>2, <2>3 DEF CodesInv, CodesApart, RetiredCodesFail
<1>2. CodesInv /\ [Next]_vars => CodesInv'
  <2> SUFFICES ASSUME CodesInv, [Next]_vars
               PROVE  CodesInv'
    OBVIOUS
  <2>1. CASE UNCHANGED notebookVars
    BY <2>1, CodesQuiet DEF notebookVars
  <2>2. CASE NotebookNext
    <3>1. ASSUME NEW v \in Vehicles, NEW who \in Makers, Create(v, who)
          PROVE  CodesInv'
      <4>1. who # Nobody
        BY NotebookAssumption DEF Makers
      <4> QED
        BY <3>1, <4>1, CodeOfCreate
    <3>2. ASSUME NEW v \in Vehicles, NEW role, AddEntry(v, "note", role)
          PROVE  CodesInv'
      BY <3>2, CodesQuiet DEF AddEntry
    <3> QED
      BY <2>2, <3>1, <3>2 DEF NotebookNext
  <2>3. CASE WorkshopNext
    <3>1. UNCHANGED <<maker, code, issued, call, replaced, retired>>
      BY <2>3 DEF WorkshopNext, Fulfil, CreateJob, AddItem, AddPayment, Complete,
                  Completing, notebookVars
    <3> QED
      BY <3>1, CodesQuiet
  <2>4. CASE CodeNext
    BY <2>4, CodeStep
  <2> QED
    BY <2>1, <2>2, <2>3, <2>4 DEF Next, vars
<1> QED
  BY <1>1, <1>2, PTL DEF Spec

(* Once a rotation has been answered, no report gets past the check with a code   *)
(* it replaced, for any number of vehicles, requests and rotations.               *)
THEOREM RetiredCodesNeverWork == Spec => []RetiredCodesFail
<1>1. CodesInv => RetiredCodesFail
  BY DEF CodesInv
<1> QED
  BY <1>1, CodesInvAlways, PTL

-----------------------------------------------------------------------------
(* The numbers of official invoices *)

Invoice ==
  [series : Series, number : Nat,
   state : {"issued", "correction_requested", "cancellation_requested"}]

NumbersInv ==
  /\ taxes \in Settings
  /\ invoices \in Seq(Invoice)
  /\ OfficialNumbers

LEMMA NumbersQuiet ==
  ASSUME NumbersInv, UNCHANGED <<taxes, invoices>>
  PROVE  NumbersInv'
BY DEF NumbersInv, OfficialNumbers

LEMMA InvoiceNumbers ==
  ASSUME NumbersInv
  PROVE  \A i \in DOMAIN invoices :
           invoices[i] \in Invoice /\ invoices[i].number \in Nat
<1>1. \A i \in DOMAIN invoices : invoices[i] \in Invoice
  BY DEF NumbersInv
<1> QED
  BY <1>1 DEF Invoice

LEMMA NumbersOfTaxWork ==
  ASSUME NumbersInv, TaxWork
  PROVE  NumbersInv'
<1>1. ASSUME NEW new \in TaxForms, UpdateTaxSettings(new)
      PROVE  NumbersInv'
  <2>1. /\ taxes' = [new EXCEPT !.next = IF new.next < taxes.next THEN taxes.next
                                         ELSE new.next]
        /\ invoices' = invoices /\ new \in Settings
    BY <1>1, SaleDeskAssumption DEF UpdateTaxSettings
  <2>2. taxes' \in Settings /\ taxes.next <= taxes'.next
    BY <2>1 DEF NumbersInv, Settings
  <2>3. taxes.next \in Nat /\ taxes'.next \in Nat
    BY <2>2 DEF NumbersInv, Settings
  <2> QED
    BY <2>1, <2>2, <2>3, InvoiceNumbers DEF NumbersInv, OfficialNumbers
<1>2. ASSUME NEW i \in DOMAIN invoices, NEW type, RequestInvoiceAction(i, type)
      PROVE  NumbersInv'
  <2> DEFINE state == IF type = "correction" THEN "correction_requested"
                      ELSE "cancellation_requested"
  <2>1. /\ invoices' = [invoices EXCEPT ![i].state = state] /\ taxes' = taxes
        /\ state \in {"correction_requested", "cancellation_requested"}
    BY <1>2 DEF RequestInvoiceAction
  <2> HIDE DEF state
  <2> DEFINE row == [invoices[i] EXCEPT !.state = state]
  <2>3. row \in Invoice /\ row.number = invoices[i].number
    BY <2>1, InvoiceNumbers DEF Invoice
  <2>4. invoices' = [invoices EXCEPT ![i] = row]
    BY <2>1
  <2> HIDE DEF row
  <2>2. /\ invoices' \in Seq(Invoice) /\ DOMAIN invoices' = DOMAIN invoices
        /\ \A j \in DOMAIN invoices : invoices'[j].number = invoices[j].number
    BY <2>3, <2>4 DEF NumbersInv
  <2> QED
    BY <2>1, <2>2 DEF NumbersInv, OfficialNumbers
<1>3. CASE UNCHANGED <<taxes, invoices>>
  BY <1>3, NumbersQuiet
<1> QED
  BY <1>1, <1>2, <1>3
     DEF TaxWork, UpsertRate, AssignProductTaxCode, NextDay

LEMMA NumberOfSale ==
  ASSUME NumbersInv, NEW mode, IssueInvoice(mode)
  PROVE  NumbersInv'
<1>1. CASE mode # "official"
  BY <1>1, NumbersQuiet DEF IssueInvoice, taxVars
<1>2. CASE mode = "official"
  <2> DEFINE new == [series |-> taxes.series, number |-> taxes.next,
                     state |-> "issued"]
  <2>1. /\ invoices' = Append(invoices, new)
        /\ taxes' = [taxes EXCEPT !.next = @ + 1]
    BY <1>2 DEF IssueInvoice
  <2>2. /\ taxes' \in Settings /\ taxes'.next = taxes.next + 1
        /\ taxes.next \in Nat /\ new \in Invoice /\ new.number = taxes.next
    <3>1. /\ taxes.next \in Nat /\ taxes.series \in Series
      BY DEF NumbersInv, Settings
    <3>2. taxes' \in Settings /\ taxes'.next = taxes.next + 1
      <4> DEFINE after == taxes.next + 1
      <4>1. after \in Nat /\ taxes' = [taxes EXCEPT !.next = after]
        BY <2>1, <3>1
      <4> HIDE DEF after
      <4>2. taxes' \in Settings /\ taxes'.next = after
        BY <4>1 DEF NumbersInv, Settings
      <4> QED
        BY <4>2 DEF after
    <3>3. new \in Invoice /\ new.number = taxes.next
      BY <3>1 DEF Invoice
    <3> QED
      BY <3>1, <3>2, <3>3
  <2> HIDE DEF new
  <2>3. /\ invoices' \in Seq(Invoice)
        /\ DOMAIN invoices' = 1 .. Len(invoices) + 1
        /\ DOMAIN invoices = 1 .. Len(invoices)
        /\ \A i \in DOMAIN invoices : invoices'[i] = invoices[i]
        /\ invoices'[Len(invoices) + 1] = new
    BY <2>1, <2>2 DEF NumbersInv
  <2>4. \A i \in DOMAIN invoices : /\ invoices[i].number \in Nat
                                   /\ invoices[i].number < taxes.next
    BY InvoiceNumbers DEF NumbersInv, OfficialNumbers
  <2>5. \A i, j \in DOMAIN invoices :
          i < j => invoices[i].number < invoices[j].number
    BY DEF NumbersInv, OfficialNumbers
  <2>6. ASSUME NEW i \in DOMAIN invoices'
        PROVE  invoices'[i].number < taxes'.next
    BY <2>2, <2>3, <2>4
  <2>7. ASSUME NEW i \in DOMAIN invoices', NEW j \in DOMAIN invoices', i < j
        PROVE  invoices'[i].number < invoices'[j].number
    <3>1. Len(invoices) \in Nat /\ i \in DOMAIN invoices
      BY <2>3, <2>7 DEF NumbersInv
    <3>2. CASE j \in DOMAIN invoices
      BY <2>3, <2>5, <2>7, <3>1, <3>2
    <3>3. CASE j = Len(invoices) + 1
      BY <2>2, <2>3, <2>4, <3>1, <3>3
    <3> QED
      BY <2>3, <3>1, <3>2, <3>3
  <2> QED
    BY <2>2, <2>3, <2>6, <2>7 DEF NumbersInv, OfficialNumbers
<1> QED
  BY <1>1, <1>2

(* Official numbers rise and are never given again, for any number of sales,      *)
(* invoices and changes of the settings between them.                             *)
THEOREM OfficialNumbersRise == Spec => []OfficialNumbers
<1>1. Init => NumbersInv
  <2> SUFFICES ASSUME Init
               PROVE  NumbersInv
    OBVIOUS
  <2>1. taxes = Provisioned /\ invoices = <<>>
    BY DEF Init, DeskInit, TaxInit
  <2>2. Provisioned \in Settings
    BY TaxDeskAssumption DEF Provisioned, Settings
  <2> QED
    BY <2>1, <2>2 DEF NumbersInv, OfficialNumbers
<1>2. NumbersInv /\ [Next]_vars => NumbersInv'
  <2> SUFFICES ASSUME NumbersInv, [Next]_vars
               PROVE  NumbersInv'
    OBVIOUS
  <2>1. CASE UNCHANGED deskVars
    BY <2>1, NumbersQuiet DEF deskVars, taxVars
  <2>2. CASE DeskNext
    <3>1. CASE TaxWork
      BY <3>1, NumbersOfTaxWork
    <3>2. CASE UNCHANGED taxVars
      BY <3>2, NumbersQuiet DEF taxVars
    <3>3. ASSUME NEW r \in Requests, Sell(r)
          PROVE  NumbersInv'
      BY <3>3, NumberOfSale DEF Sell
    <3> QED
      BY <2>2, <3>1, <3>2, <3>3 DEF DeskNext
  <2> QED
    BY <2>1, <2>2 DEF Next, vars
<1>3. NumbersInv => OfficialNumbers
  BY DEF NumbersInv
<1> QED
  BY <1>1, <1>2, <1>3, PTL DEF Spec

-----------------------------------------------------------------------------
(* The margin *)

(* A price is rounded away from nothing when the unit holds whole base units.     *)
LEMMA WholePackPrice ==
  ASSUME NEW money \in Nat, NEW n \in Nat,
         NEW row, row.factor = n * Parts
  PROVE  CommercialMoney(money, row) = money * n
<1>1. Parts \in Nat \ {0}
  BY PartsAssumption
<1> DEFINE x == money * n
<1>2. x \in Nat /\ money * row.factor = x * Parts
  BY <1>1
<1> HIDE DEF x
<1>3. 2 * (x * Parts) + Parts = x * (2 * Parts) + Parts
  BY <1>1, <1>2
<1>4. (x * (2 * Parts) + Parts) \div (2 * Parts) = x
  BY <1>1, <1>2
<1> QED
  BY <1>2, <1>3, <1>4 DEF CommercialMoney, Rounded, x

LEMMA MinimumKeepsMargin ==
  ASSUME NEW cost \in Nat, margin \in 0 .. 9000
  PROVE  /\ MinimumPriceForMargin(cost) \in Nat
         /\ MinimumPriceForMargin(cost) * (10000 - margin) >= cost * 10000
<1> DEFINE kept == 10000 - margin
           num == cost * 10000 + kept - 1
<1>1. kept \in Nat /\ kept >= 1 /\ num \in Nat
  OBVIOUS
<1>2. CASE cost = 0 \/ margin = 0
  BY <1>2 DEF MinimumPriceForMargin
<1>3. CASE ~ (cost = 0 \/ margin = 0)
  <2>1. MinimumPriceForMargin(cost) = num \div kept
    BY <1>3 DEF MinimumPriceForMargin
  <2>2. ASSUME NEW a \in Nat, NEW b \in Nat, b >= 1
        PROVE  a \div b \in Nat /\ (a \div b) * b > a - b
    BY <2>2
  <2> HIDE DEF num, kept
  <2>3. num \div kept \in Nat /\ (num \div kept) * kept > num - kept
    BY <1>1, <2>2
  <2>4. num - kept = cost * 10000 - 1
    BY DEF num, kept
  <2>5. (num \div kept) * kept \in Int
    BY <1>1, <2>3
  <2> QED
    BY <1>1, <2>1, <2>3, <2>4, <2>5 DEF kept
<1> QED
  BY <1>2, <1>3

(* Whatever a base unit costs, a unit holds and the margin is, a price that is    *)
(* not refused leaves the margin: neither rounding gives any of it away.          *)
THEOREM AllowedPriceKeepsMargin ==
  ASSUME NEW cost \in Nat, NEW row, row.factor \in Nat, WholeQty(row.factor),
         margin \in 0 .. 9000, NEW price \in Nat,
         price >= MinAllowedPrice(cost, row)
  PROVE  price * Parts * (10000 - margin) >= cost * row.factor * 10000
<1>1. Parts \in Nat \ {0}
  BY PartsAssumption
<1>2. PICK n \in Nat : row.factor = n * Parts
  <2> DEFINE a == row.factor
  <2>1. /\ a \div Parts \in Nat
        /\ a = ((a \div Parts) * Parts) + (a % Parts)
    <3>1. a \in Nat
      OBVIOUS
    <3> HIDE DEF a
    <3>2. \A p \in Nat \ {0} : /\ a \div p \in Nat
                               /\ a = (a \div p) * p + (a % p)
      BY <3>1
    <3> QED
      BY <1>1, <3>2
  <2>2. row.factor = (row.factor \div Parts) * Parts
    BY <1>1, <2>1 DEF WholeQty
  <2> QED
    BY <2>1, <2>2
<1> DEFINE least == MinimumPriceForMargin(cost)
           kept == 10000 - margin
<1>3. least \in Nat /\ least * kept >= cost * 10000 /\ kept \in Nat
  BY MinimumKeepsMargin
<1>4. price >= least * n
  BY <1>2, <1>3, WholePackPrice DEF MinAllowedPrice
<1> HIDE DEF least, kept
<1>5. ASSUME NEW a \in Int, NEW b \in Int, NEW k \in Nat, a >= b
      PROVE  a * k >= b * k
  BY <1>5
<1>6. price * (Parts * kept) >= (least * n) * (Parts * kept)
  BY <1>1, <1>3, <1>4, <1>5
<1>7. (least * kept) * (n * Parts) >= (cost * 10000) * (n * Parts)
  BY <1>1, <1>2, <1>3, <1>5
<1>8. /\ (least * n) * (Parts * kept) = (least * kept) * (n * Parts)
      /\ price * Parts * kept = price * (Parts * kept)
      /\ cost * (n * Parts) * 10000 = (cost * 10000) * (n * Parts)
  BY <1>1, <1>2, <1>3
<1>9. price * Parts * kept >= cost * (n * Parts) * 10000
  BY <1>1, <1>2, <1>3, <1>6, <1>7, <1>8
<1> QED
  BY <1>2, <1>9 DEF kept

-----------------------------------------------------------------------------
(* The tax of a line, for every amount and rate.  RoundedRatio is the one   *)
(* whole number within half a unit of the quotient, a half going up: what   *)
(* follows is about such bounds and needs no division.                      *)

LEMMA DivMod ==
  ASSUME NEW x \in Nat, NEW d \in Nat \ {0}
  PROVE  /\ x \div d \in Nat
         /\ x % d \in 0 .. d - 1
         /\ x = d * (x \div d) + (x % d)
  OBVIOUS

LEMMA RoundedRatioBounds ==
  ASSUME NEW a \in Nat, NEW n \in Nat, NEW d \in Nat \ {0}
  PROVE  /\ RoundedRatio(a, n, d) \in Nat
         /\ 2 * (d * RoundedRatio(a, n, d)) - d <= 2 * (a * n)
         /\ 2 * (a * n) < 2 * (d * RoundedRatio(a, n, d)) + d
<1> DEFINE x == a * n
           q == x \div d
           m == x % d
<1>1. x \in Nat
  OBVIOUS
<1>2. q \in Nat /\ m \in 0 .. d - 1 /\ x = d * q + m
  BY <1>1, DivMod
<1>3. RoundedRatio(a, n, d) = IF 2 * m >= d THEN q + 1 ELSE q + 0
  BY DEF RoundedRatio
<1>4. d * (q + 1) = d * q + d /\ d * q \in Nat
  BY <1>2
<1> HIDE DEF q, m
<1>5. CASE 2 * m >= d
  BY <1>2, <1>3, <1>4, <1>5
<1>6. CASE ~ 2 * m >= d
  BY <1>2, <1>3, <1>4, <1>6
<1> QED
  BY <1>5, <1>6

\* No other whole number is within those bounds.
LEMMA RoundedRatioUnique ==
  ASSUME NEW a \in Nat, NEW n \in Nat, NEW d \in Nat \ {0}, NEW t \in Nat,
         2 * (d * t) - d <= 2 * (a * n),
         2 * (a * n) < 2 * (d * t) + d
  PROVE  RoundedRatio(a, n, d) = t
<1> DEFINE r == RoundedRatio(a, n, d)
<1>1. /\ r \in Nat
      /\ 2 * (d * r) - d <= 2 * (a * n)
      /\ 2 * (a * n) < 2 * (d * r) + d
  BY RoundedRatioBounds
<1> HIDE DEF r
<1>2. ASSUME NEW u \in Nat, NEW w \in Nat, u < w
      PROVE  d * u + d <= d * w
  <2>1. PICK k \in Nat : w = u + 1 + k
    <3>1. w - u - 1 \in Nat /\ w = u + 1 + (w - u - 1)
      BY <1>2
    <3> QED
      BY <3>1
  <2>2. d * w = d * u + d + d * k /\ d * k \in Nat
    BY <2>1
  <2> QED
    BY <2>2
<1>3. d * r \in Nat /\ d * t \in Nat /\ a * n \in Nat
  BY <1>1
<1>4. CASE r < t
  BY <1>1, <1>2, <1>3, <1>4
<1>5. CASE t < r
  BY <1>1, <1>2, <1>3, <1>5
<1> QED
  BY <1>1, <1>4, <1>5 DEF r

\* The tax that an amount with its tax includes is the tax: an invoice that adds
\* taxes and one that includes them agree on every amount that was paid
\* (CalculateLine, internal/tax/calc.go), whatever was rounded.
THEOREM InclusiveFindsExclusive ==
  ASSUME NEW amount \in Nat, NEW rate \in Rates
  PROVE  LET line == CalculateLine(amount, rate, "exclusive")
         IN  CalculateLine(line.total, rate, "inclusive") = line
<1> DEFINE t == ExclusiveTax(amount, rate)
           d == 10000 + rate
<1>1. rate \in Nat /\ d \in Nat \ {0}
  BY DEF Rates
<1>2. /\ t \in Nat
      /\ 2 * (10000 * t) - 10000 <= 2 * (amount * rate)
      /\ 2 * (amount * rate) < 2 * (10000 * t) + 10000
  BY <1>1, RoundedRatioBounds DEF ExclusiveTax
<1> HIDE DEF t
<1>3. /\ (amount + t) * rate = amount * rate + t * rate
      /\ d * t = 10000 * t + t * rate
      /\ amount * rate \in Nat /\ t * rate \in Nat
  BY <1>1, <1>2
<1>4. /\ 2 * (d * t) - d <= 2 * ((amount + t) * rate)
      /\ 2 * ((amount + t) * rate) < 2 * (d * t) + d
  BY <1>1, <1>2, <1>3
<1>5. InclusiveTax(amount + t, rate) = t
  <2>1. amount + t \in Nat
    BY <1>2
  <2>2. RoundedRatio(amount + t, rate, d) = t
    <3> HIDE DEF d
    <3> QED
      BY <1>1, <1>2, <1>4, <2>1, RoundedRatioUnique
  <2> QED
    BY <2>2 DEF InclusiveTax
<1>6. (amount + t) - t = amount
  BY <1>2
<1>7. CalculateLine(amount, rate, "exclusive")
        = [base |-> amount, tax |-> t, total |-> amount + t]
  BY DEF CalculateLine, t
<1>8. CalculateLine(amount + t, rate, "inclusive")
        = [base |-> amount, tax |-> t, total |-> amount + t]
  BY <1>5, <1>6 DEF CalculateLine
<1> QED
  BY <1>7, <1>8

-----------------------------------------------------------------------------
(* The jobs of a workshop and what they leave in the notebook of a vehicle *)

Work == {"part", "labor", "service"}

LineRows == [kind : Work, purchase : Purchases \cup {NoPurchase}, line : Nat]

JobRows ==
  [status : {"open", "completed"}, mechanic : Mechanics, vehicle : Vehicles,
   items : Seq(LineRows), payments : Seq(Nat),
   labor : Int, parts : Int, total : Int, paid : Int, due : Int]

EntryRows ==
  [kind : {"note", "mileage", "part", "service"},
   role : {"store", "mechanic", "owner"}, item : {ByHand} \cup (Jobs \X Nat)]

WorkTypes ==
  /\ job \in [Jobs -> {NoJob} \cup JobRows]
  /\ entries \in [Vehicles -> Seq(EntryRows)]

\* The amounts of a job are those of its items and payments.
Summed(b) ==
  /\ b.labor = SumOfLines(b.items, {"labor", "service"})
  /\ b.parts = SumOfLines(b.items, {"part"})
  /\ b.due = SumOfLines(b.items, Work) - SumOfPayments(b.payments)
  /\ b.due >= 0

JobsSummed == \A j \in Jobs : IsJob(j) => Summed(job[j])

\* The entries that are not by hand are of items of completed jobs, each of them
\* once and in the notebook of its vehicle.
Belongs(item, v) ==
  \E j \in Jobs : /\ IsJob(j) /\ job[j].status = "completed"
                  /\ job[j].vehicle = v
                  /\ \E i \in DOMAIN job[j].items : item = <<j, i>>

NotesBelong ==
  \A v \in Vehicles : \A k \in DOMAIN entries[v] :
    entries[v][k].item # ByHand => Belongs(entries[v][k].item, v)

NotedOnce ==
  \A v \in Vehicles : \A k, l \in DOMAIN entries[v] :
    entries[v][k].item # ByHand /\ entries[v][k].item = entries[v][l].item => k = l

AllNoted ==
  \A j \in Jobs : IsJob(j) /\ job[j].status = "completed" =>
    \A i \in DOMAIN job[j].items :
      \E k \in DOMAIN entries[job[j].vehicle] :
        entries[job[j].vehicle][k].item = <<j, i>>

HistoryKept == NotesBelong /\ NotedOnce /\ AllNoted

WorkInv == WorkTypes /\ JobsSummed /\ HistoryKept

(* A row of a job is a job.                                                       *)
LEMMA JobForms ==
  ASSUME WorkTypes, NEW j \in Jobs
  PROVE  /\ NoJob \notin JobRows
         /\ IsJob(j) <=> job[j] \in JobRows
         /\ ~ IsJob(j) <=> job[j].status = "none"
BY DEF WorkTypes, JobRows, IsJob, NoJob

(* The lines of a job, and its payments, have sums.                               *)
LEMMA LinesHaveSums ==
  ASSUME NEW items \in Seq(LineRows), NEW payments \in Seq(Nat)
  PROVE  /\ \A kinds : SumOfLines(items, kinds) \in Int
         /\ SumOfPayments(payments) \in Int
         /\ SumOfLines(items, {"labor", "service"}) + SumOfLines(items, {"part"})
              = SumOfLines(items, Work)
<1> DEFINE f == [i \in DOMAIN items |-> items[i].line]
           S(kinds) == {i \in DOMAIN items : items[i].kind \in kinds}
<1>1. IsFiniteSet(DOMAIN items) /\ IsFiniteSet(DOMAIN payments)
  <2>1. ASSUME NEW n \in Nat
        PROVE  IsFiniteSet(1 .. n)
    BY <2>1, FS_Interval
  <2>2. DOMAIN items = 1 .. Len(items) /\ DOMAIN payments = 1 .. Len(payments)
        /\ Len(items) \in Nat /\ Len(payments) \in Nat
    OBVIOUS
  <2> QED
    BY <2>1, <2>2
<1>2. \A kinds : IsFiniteSet(S(kinds))
  <2> SUFFICES ASSUME NEW kinds
               PROVE  IsFiniteSet(S(kinds))
    OBVIOUS
  <2>1. S(kinds) \in SUBSET (DOMAIN items)
    OBVIOUS
  <2> QED
    BY <1>1, <2>1, FS_Subset
<1>3. \A i \in DOMAIN items : f[i] \in Int /\ items[i].kind \in Work
  <2> SUFFICES ASSUME NEW i \in DOMAIN items
               PROVE  items[i].line \in Int /\ items[i].kind \in Work
    OBVIOUS
  <2>1. items[i] \in LineRows
    OBVIOUS
  <2> QED
    BY <2>1 DEF LineRows
<1>4. \A kinds : SumOfLines(items, kinds) = SumOf(f, S(kinds))
  BY DEF SumOfLines
<1>5. \A i \in DOMAIN payments : payments[i] \in Int
  OBVIOUS
<1>6. /\ S({"labor", "service"}) \cup S({"part"}) = S(Work)
      /\ S({"labor", "service"}) \cap S({"part"}) = {}
  BY DEF Work
<1>7. SumOfPayments(payments) \in Int
  BY <1>1, <1>5, SumFinite DEF SumOfPayments
<1>8. \A kinds : \A i \in S(kinds) : f[i] \in Int
  BY <1>3
<1> HIDE DEF f, S
<1>9. \A kinds : SumOf(f, S(kinds)) \in Int
  BY <1>2, <1>8, SumFinite
<1>10. SumOf(f, S(Work)) = SumOf(f, S({"labor", "service"})) + SumOf(f, S({"part"}))
  <2>1. SumOf(f, S({"labor", "service"}) \cup S({"part"}))
          = SumOf(f, S({"labor", "service"})) + SumOf(f, S({"part"}))
    BY <1>2, <1>6, <1>8, SumSplit
  <2> QED
    BY <1>6, <2>1
<1> QED
  BY <1>4, <1>7, <1>9, <1>10

(* recalcTx makes the amounts of a job those of its items and payments.           *)
LEMMA RecalculatedSums ==
  ASSUME NEW b \in JobRows, Recalculated(b).paid <= Recalculated(b).total
  PROVE  /\ Recalculated(b) \in JobRows
         /\ Summed(Recalculated(b))
         /\ Recalculated(b).status = b.status
         /\ Recalculated(b).vehicle = b.vehicle
         /\ Recalculated(b).items = b.items
<1> DEFINE total == SumOfLines(b.items, Work)
           paid == SumOfPayments(b.payments)
           labor == SumOfLines(b.items, {"labor", "service"})
           parts == SumOfLines(b.items, {"part"})
           due == total - paid
           new == [b EXCEPT !.labor = labor, !.parts = parts, !.total = total,
                            !.paid = paid, !.due = due]
<1>1. /\ total \in Int /\ paid \in Int /\ labor \in Int /\ parts \in Int
      /\ due \in Int
  <2>1. b.items \in Seq(LineRows) /\ b.payments \in Seq(Nat)
    BY DEF JobRows
  <2> QED
    BY <2>1, LinesHaveSums
<1>2. Recalculated(b) = new
  BY DEF Recalculated, Work
<1> HIDE DEF total, paid, labor, parts, due
<1>3. /\ new \in JobRows
      /\ new.status = b.status /\ new.vehicle = b.vehicle /\ new.items = b.items
      /\ new.payments = b.payments /\ new.labor = labor /\ new.parts = parts
      /\ new.total = total /\ new.paid = paid /\ new.due = due
  BY <1>1 DEF JobRows
<1> HIDE DEF new
<1>4. due = total - paid /\ paid <= total /\ due >= 0
  <2>1. paid <= total
    BY <1>2, <1>3
  <2> QED
    BY <1>1, <2>1 DEF due
<1>5. Summed(new)
  BY <1>3, <1>4 DEF Summed, total, paid, labor, parts
<1> QED
  BY <1>2, <1>3, <1>5

-----------------------------------------------------------------------------
(* What the actions do to jobs and notebooks *)

(* An entry by hand is of no job.                                                 *)
LEMMA HandEntry ==
  ASSUME WorkInv, NEW v \in Vehicles, NEW kind \in {"note", "mileage"},
         NEW role \in {"store", "mechanic", "owner"}, AddNote(v, kind, role),
         UNCHANGED job
  PROVE  WorkInv'
<1> DEFINE e == Entry(kind, role, ByHand)
           n == Len(entries[v])
<1>1. /\ entries' = [entries EXCEPT ![v] = Append(@, e)]
      /\ e \in EntryRows /\ e.item = ByHand
  BY DEF AddNote, Entry, EntryRows
<1>2. entries \in [Vehicles -> Seq(EntryRows)] /\ entries[v] \in Seq(EntryRows)
      /\ n \in Nat
  BY DEF WorkInv, WorkTypes
<1> HIDE DEF e
<1>3. /\ entries' \in [Vehicles -> Seq(EntryRows)]
      /\ entries'[v] = Append(entries[v], e)
      /\ \A u \in Vehicles \ {v} : entries'[u] = entries[u]
  BY <1>1, <1>2
<1>4. /\ DOMAIN entries[v] = 1 .. n /\ DOMAIN entries'[v] = 1 .. n + 1
      /\ \A k \in 1 .. n : entries'[v][k] = entries[v][k]
      /\ entries'[v][n + 1] = e
  BY <1>1, <1>2, <1>3
<1>5. \A u \in Vehicles, k \in Nat :
        /\ k \in DOMAIN entries[u] =>
             k \in DOMAIN entries'[u] /\ entries'[u][k] = entries[u][k]
        /\ k \in DOMAIN entries'[u] /\ entries'[u][k].item # ByHand =>
             k \in DOMAIN entries[u]
  BY <1>1, <1>2, <1>3, <1>4
<1>6. \A u \in Vehicles : /\ DOMAIN entries[u] \subseteq Nat
                          /\ DOMAIN entries'[u] \subseteq Nat
  BY <1>2, <1>3
<1>7. NotesBelong'
  BY <1>5, <1>6 DEF WorkInv, HistoryKept, NotesBelong, Belongs, IsJob
<1>8. NotedOnce'
  BY <1>5, <1>6 DEF WorkInv, HistoryKept, NotedOnce
<1>9. AllNoted'
  <2> SUFFICES ASSUME NEW j \in Jobs, IsJob(j), job[j].status = "completed",
                      NEW i \in DOMAIN job[j].items
               PROVE  \E k \in DOMAIN entries'[job[j].vehicle] :
                        entries'[job[j].vehicle][k].item = <<j, i>>
    BY DEF AllNoted, IsJob
  <2>1. job[j].vehicle \in Vehicles
    BY JobForms DEF WorkInv, JobRows
  <2>2. PICK k \in DOMAIN entries[job[j].vehicle] :
               entries[job[j].vehicle][k].item = <<j, i>>
    BY DEF WorkInv, HistoryKept, AllNoted
  <2> QED
    BY <1>5, <1>6, <2>1, <2>2
<1>10. WorkTypes'
  BY <1>3 DEF WorkInv, WorkTypes
<1> QED
  BY <1>7, <1>8, <1>9, <1>10 DEF WorkInv, HistoryKept, JobsSummed, IsJob

\* A job is written that is not completed before and after.
JobWritten(j, b) ==
  /\ b \in JobRows /\ Summed(b)
  /\ job' = [job EXCEPT ![j] = b]
  /\ UNCHANGED entries

(* A job that is open leaves nothing in the notebook yet.                         *)
LEMMA OpenJobWritten ==
  ASSUME WorkInv, NEW j \in Jobs, NEW b, JobWritten(j, b),
         job[j].status # "completed", b.status # "completed"
  PROVE  WorkInv'
<1>1. /\ job'[j] = b /\ \A x \in Jobs \ {j} : job'[x] = job[x]
      /\ entries' = entries
      /\ job' \in [Jobs -> {NoJob} \cup JobRows]
  BY DEF JobWritten, WorkInv, WorkTypes
<1>2. WorkTypes'
  BY <1>1 DEF WorkInv, WorkTypes
<1>3. JobsSummed'
  BY <1>1 DEF WorkInv, JobsSummed, JobWritten, IsJob
<1>4. NotesBelong'
  <2>1. \A item, v : Belongs(item, v) => Belongs(item, v)'
    BY <1>1 DEF Belongs, IsJob
  <2> QED
    BY <1>1, <2>1 DEF WorkInv, HistoryKept, NotesBelong
<1>5. NotedOnce'
  BY <1>1 DEF WorkInv, HistoryKept, NotedOnce
<1>6. AllNoted'
  BY <1>1 DEF WorkInv, HistoryKept, AllNoted, IsJob
<1> QED
  BY <1>2, <1>3, <1>4, <1>5, <1>6 DEF WorkInv, HistoryKept

(* What may still change of a job that is completed is not in the notebook.       *)
LEMMA SameItemsWritten ==
  ASSUME WorkInv, NEW j \in Jobs, NEW b, JobWritten(j, b), IsJob(j),
         b.status = job[j].status, b.vehicle = job[j].vehicle,
         b.items = job[j].items
  PROVE  WorkInv'
<1>1. /\ job'[j] = b /\ \A x \in Jobs \ {j} : job'[x] = job[x]
      /\ entries' = entries
      /\ job' \in [Jobs -> {NoJob} \cup JobRows]
  BY DEF JobWritten, WorkInv, WorkTypes
<1>2. WorkTypes'
  BY <1>1 DEF WorkInv, WorkTypes
<1>3. JobsSummed'
  BY <1>1 DEF WorkInv, JobsSummed, JobWritten, IsJob
<1>4. IsJob(j)' /\ \A x \in Jobs \ {j} : IsJob(x)' <=> IsJob(x)
  BY <1>1, JobForms DEF IsJob, JobWritten, WorkInv
<1>5. NotesBelong'
  <2>1. \A item, v : Belongs(item, v) => Belongs(item, v)'
    BY <1>1, <1>4 DEF Belongs
  <2> QED
    BY <1>1, <2>1 DEF WorkInv, HistoryKept, NotesBelong
<1>6. NotedOnce'
  BY <1>1 DEF WorkInv, HistoryKept, NotedOnce
<1>7. AllNoted'
  <2> SUFFICES ASSUME NEW x \in Jobs, IsJob(x), job'[x].status = "completed",
                      NEW i \in DOMAIN job'[x].items
               PROVE  \E k \in DOMAIN entries[job'[x].vehicle] :
                        entries[job'[x].vehicle][k].item = <<x, i>>
    BY <1>1, <1>4 DEF AllNoted
  <2>1. /\ job'[x].status = job[x].status /\ job'[x].vehicle = job[x].vehicle
        /\ job'[x].items = job[x].items
    BY <1>1
  <2> QED
    BY <2>1 DEF WorkInv, HistoryKept, AllNoted
<1> QED
  BY <1>2, <1>3, <1>5, <1>6, <1>7 DEF WorkInv, HistoryKept

(* Completing a job writes its items into the notebook of its vehicle, once.      *)
LEMMA CompletedJobNoted ==
  ASSUME WorkInv, NEW j \in Jobs, IsJob(j), IsOpen(j), Completing(j)
  PROVE  WorkInv'
<1> DEFINE v == job[j].vehicle
           h == History(j)
           n == Len(entries[v])
           m == Len(h)
           b == [job[j] EXCEPT !.status = "completed"]
<1>1. /\ job[j] \in JobRows /\ job[j].status = "open" /\ v \in Vehicles
      /\ job[j].items \in Seq(LineRows)
      /\ entries \in [Vehicles -> Seq(EntryRows)]
      /\ job \in [Jobs -> {NoJob} \cup JobRows]
  BY JobForms DEF WorkInv, WorkTypes, IsOpen, JobRows
<1>2. /\ job' = [job EXCEPT ![j] = b]
      /\ entries' = [entries EXCEPT ![v] = @ \o h]
  BY DEF Completing
<1>3. /\ b \in JobRows /\ b.status = "completed" /\ b.vehicle = v
      /\ b.items = job[j].items /\ (Summed(job[j]) => Summed(b))
  BY <1>1 DEF JobRows, Summed
<1>4. /\ h \in Seq(EntryRows) /\ DOMAIN h = DOMAIN job[j].items
      /\ \A i \in DOMAIN h : h[i].item = <<j, i>>
  <2>1. \A i \in DOMAIN job[j].items :
          h[i] = Entry(IF job[j].items[i].kind = "part" THEN "part" ELSE "service",
                       "mechanic", <<j, i>>)
    BY DEF History
  <2>2. DOMAIN h = DOMAIN job[j].items
    BY DEF History
  <2> HIDE DEF h
  <2>3. /\ DOMAIN job[j].items = 1 .. Len(job[j].items)
        /\ Len(job[j].items) \in Nat
    BY <1>1
  <2>4. ASSUME NEW i \in DOMAIN h
        PROVE  h[i] \in EntryRows /\ h[i].item = <<j, i>>
    <3>1. i \in DOMAIN job[j].items /\ i \in Nat
      BY <2>2, <2>3
    <3>2. <<j, i>> \in Jobs \X Nat
      BY <3>1
    <3>3. ASSUME NEW kind \in {"part", "service"}, NEW item \in Jobs \X Nat
          PROVE  /\ Entry(kind, "mechanic", item) \in EntryRows
                 /\ Entry(kind, "mechanic", item).item = item
      BY DEF Entry, EntryRows
    <3> QED
      BY <2>1, <3>1, <3>2, <3>3
  <2>5. h = [i \in 1 .. Len(job[j].items) |-> h[i]]
    BY <2>2, <2>3 DEF History, h
  <2>6. h \in [1 .. Len(job[j].items) -> EntryRows]
    BY <2>2, <2>3, <2>4, <2>5
  <2>7. h \in Seq(EntryRows)
    BY <2>3, <2>6, SeqDef
  <2> QED
    BY <2>2, <2>4, <2>7
<1> HIDE DEF h, b
<1>5. /\ n \in Nat /\ m \in Nat /\ DOMAIN h = 1 .. m
      /\ DOMAIN entries[v] = 1 .. n /\ entries[v] \in Seq(EntryRows)
  BY <1>1, <1>4
<1>6. /\ entries'[v] = entries[v] \o h
      /\ \A u \in Vehicles \ {v} : entries'[u] = entries[u]
      /\ entries' \in [Vehicles -> Seq(EntryRows)]
  BY <1>1, <1>2, <1>4
<1>7. /\ DOMAIN entries'[v] = 1 .. n + m
      /\ \A k \in 1 .. n : entries'[v][k] = entries[v][k]
      /\ \A i \in 1 .. m : entries'[v][n + i] = h[i]
  BY <1>4, <1>5, <1>6
<1> HIDE DEF n, m
<1>8. ASSUME NEW k \in 1 .. n + m, k \notin 1 .. n
      PROVE  /\ k - n \in DOMAIN h
             /\ entries'[v][k].item = <<j, k - n>>
  <2>1. k - n \in 1 .. m /\ k = n + (k - n)
    BY <1>5, <1>8
  <2> QED
    BY <1>4, <1>5, <1>7, <2>1
<1>9. \A k \in 1 .. n : \A i : entries[v][k].item # <<j, i>>
  <2> SUFFICES ASSUME NEW k \in 1 .. n, NEW i, entries[v][k].item = <<j, i>>
               PROVE  FALSE
    OBVIOUS
  <2>1. <<j, i>> # ByHand
    BY DEF ByHand
  <2>2. Belongs(<<j, i>>, v)
    BY <1>1, <1>5, <2>1 DEF WorkInv, HistoryKept, NotesBelong
  <2> QED
    BY <1>1, <2>2 DEF Belongs
<1>10. /\ IsJob(j)' /\ job'[j] = b
       /\ \A x \in Jobs \ {j} : job'[x] = job[x] /\ (IsJob(x)' <=> IsJob(x))
       /\ job' \in [Jobs -> {NoJob} \cup JobRows]
  BY <1>1, <1>2, <1>3, JobForms DEF IsJob, WorkInv
<1>11. WorkTypes'
  BY <1>6, <1>10 DEF WorkTypes
<1>12. JobsSummed'
  BY <1>3, <1>10 DEF WorkInv, JobsSummed
<1>13. NotesBelong'
  <2> SUFFICES ASSUME NEW u \in Vehicles, NEW k \in DOMAIN entries'[u],
                      entries'[u][k].item # ByHand
               PROVE  Belongs(entries[u][k].item, u)'
    BY DEF NotesBelong
  <2>1. \A item : Belongs(item, u) => Belongs(item, u)'
    BY <1>1, <1>10 DEF Belongs
  <2>2. CASE u = v /\ k \notin 1 .. n
    <3>1. k - n \in DOMAIN job[j].items /\ entries'[v][k].item = <<j, k - n>>
      BY <1>4, <1>7, <1>8, <2>2
    <3> QED
      BY <1>3, <1>10, <2>2, <3>1 DEF Belongs
  <2>3. CASE ~ (u = v /\ k \notin 1 .. n)
    <3>1. k \in DOMAIN entries[u] /\ entries'[u][k] = entries[u][k]
      BY <1>5, <1>6, <1>7, <2>3
    <3> QED
      BY <2>1, <3>1 DEF WorkInv, HistoryKept, NotesBelong
  <2> QED
    BY <2>2, <2>3
<1>14. NotedOnce'
  <2> SUFFICES ASSUME NEW u \in Vehicles, NEW k \in DOMAIN entries'[u],
                      NEW l \in DOMAIN entries'[u],
                      entries'[u][k].item # ByHand,
                      entries'[u][k].item = entries'[u][l].item
               PROVE  k = l
    BY DEF NotedOnce
  <2>1. CASE u # v
    BY <1>6, <2>1 DEF WorkInv, HistoryKept, NotedOnce
  <2>2. CASE u = v /\ k \in 1 .. n /\ l \in 1 .. n
    <3>1. /\ entries[v][k].item # ByHand
          /\ entries[v][k].item = entries[v][l].item
      BY <1>7, <2>2
    <3> QED
      BY <1>1, <1>5, <2>2, <3>1 DEF WorkInv, HistoryKept, NotedOnce
  <2>3. CASE u = v /\ k \in 1 .. n /\ l \notin 1 .. n
    <3>1. PICK i : entries'[v][l].item = <<j, i>>
      BY <1>7, <1>8, <2>3
    <3>2. entries[v][k].item = <<j, i>>
      BY <1>7, <2>3, <3>1
    <3> QED
      BY <1>9, <2>3, <3>2
  <2>4. CASE u = v /\ k \notin 1 .. n /\ l \in 1 .. n
    <3>1. PICK i : entries'[v][k].item = <<j, i>>
      BY <1>7, <1>8, <2>4
    <3>2. entries[v][l].item = <<j, i>>
      BY <1>7, <2>4, <3>1
    <3> QED
      BY <1>9, <2>4, <3>2
  <2>5. CASE u = v /\ k \notin 1 .. n /\ l \notin 1 .. n
    <3>1. k \in 1 .. n + m /\ l \in 1 .. n + m
      BY <1>7, <2>5
    <3>2. <<j, k - n>> = <<j, l - n>>
      <4>1. entries'[v][k].item = <<j, k - n>> /\ entries'[v][l].item = <<j, l - n>>
        BY <1>8, <2>5, <3>1
      <4> QED
        BY <2>5, <4>1
    <3>3. k - n = l - n
      BY <3>2
    <3> QED
      BY <1>5, <3>1, <3>3
  <2> QED
    BY <2>1, <2>2, <2>3, <2>4, <2>5
<1>15. AllNoted'
  <2> SUFFICES ASSUME NEW x \in Jobs, IsJob(x)', job'[x].status = "completed",
                      NEW i \in DOMAIN job'[x].items
               PROVE  \E k \in DOMAIN entries'[job'[x].vehicle] :
                        entries'[job'[x].vehicle][k].item = <<x, i>>
    BY DEF AllNoted
  <2>1. CASE x = j
    <3>1. i \in DOMAIN h
      BY <1>3, <1>4, <1>10, <2>1
    <3>2. i \in 1 .. m /\ n + i \in 1 .. n + m
      BY <1>5, <3>1
    <3>3. entries'[v][n + i].item = <<j, i>>
      BY <1>4, <1>5, <1>7, <3>2
    <3> QED
      BY <1>3, <1>7, <1>10, <2>1, <3>2, <3>3
  <2>2. CASE x # j
    <3> DEFINE u == job[x].vehicle
    <3>1. IsJob(x) /\ job'[x] = job[x]
      BY <1>10, <2>2
    <3>2. u \in Vehicles
      BY <3>1, JobForms DEF WorkInv, JobRows
    <3>3. PICK k \in DOMAIN entries[u] : entries[u][k].item = <<x, i>>
      BY <3>1 DEF WorkInv, HistoryKept, AllNoted
    <3>4. k \in DOMAIN entries'[u] /\ entries'[u][k] = entries[u][k]
      <4>1. CASE u = v
        BY <1>5, <1>7, <3>3, <4>1
      <4>2. CASE u # v
        BY <1>6, <3>2, <3>3, <4>2
      <4> QED
        BY <4>1, <4>2
    <3> QED
      BY <3>1, <3>3, <3>4
  <2> QED
    BY <2>1, <2>2
<1> QED
  BY <1>11, <1>12, <1>13, <1>14, <1>15 DEF WorkInv, HistoryKept

(* A job begins with nothing.                                                     *)
LEMMA JobCreated ==
  ASSUME WorkInv, NEW j \in Jobs, NEW m \in Mechanics, NEW v \in Vehicles,
         CreateJob(j, m, v)
  PROVE  WorkInv'
<1> DEFINE b == [status |-> "open", mechanic |-> m, vehicle |-> v,
                 items |-> <<>>, payments |-> <<>>,
                 labor |-> 0, parts |-> 0, total |-> 0, paid |-> 0, due |-> 0]
<1>1. job' = [job EXCEPT ![j] = b] /\ UNCHANGED entries /\ ~ IsJob(j)
  BY DEF CreateJob, notebookVars
<1>2. /\ b \in JobRows /\ b.status # "completed" /\ b.items = <<>>
      /\ b.payments = <<>> /\ b.labor = 0 /\ b.parts = 0 /\ b.due = 0
  BY DEF JobRows
<1> HIDE DEF b
<1>3. \A kinds : SumOfLines(<<>>, kinds) = 0
  <2> SUFFICES ASSUME NEW kinds
               PROVE  SumOfLines(<<>>, kinds) = 0
    OBVIOUS
  <2> DEFINE S == {i \in DOMAIN <<>> : <<>>[i].kind \in kinds}
  <2>1. S = {}
    OBVIOUS
  <2> HIDE DEF S
  <2>2. SumOf([i \in DOMAIN <<>> |-> <<>>[i].line], S) = 0
    BY <2>1, SumOfZero
  <2> QED
    BY <2>2 DEF SumOfLines, S
<1>4. SumOfPayments(<<>>) = 0
  <2>1. DOMAIN <<>> = {}
    OBVIOUS
  <2> QED
    BY <2>1, SumOfZero DEF SumOfPayments
<1>5. Summed(b)
  BY <1>2, <1>3, <1>4 DEF Summed
<1>6. job[j].status # "completed"
  BY <1>1, JobForms DEF WorkInv
<1> QED
  BY <1>1, <1>2, <1>5, <1>6, OpenJobWritten DEF JobWritten

(* A line is entered only while the job is open.                                  *)
LEMMA ItemAdded ==
  ASSUME WorkInv, NEW j \in Jobs, NEW m \in Mechanics, NEW in \in Items,
         AddItem(m, j, in)
  PROVE  WorkInv'
<1> DEFINE line == LineFor(in)
           b == [job[j] EXCEPT !.items = Append(@, line)]
<1>1. /\ IsJob(j) /\ job[j].status = "open" /\ UNCHANGED entries
      /\ Recalculated(b).paid <= Recalculated(b).total
      /\ job' = [job EXCEPT ![j] = Recalculated(b)]
  BY DEF AddItem, IsOpen, notebookVars
<1>2. line \in LineRows
  <2> DEFINE isPurchase == in.purchase # NoPurchase
             qty == Given(in.qty, IF isPurchase THEN Bought[in.purchase].qty ELSE 1)
             price == IF isPurchase THEN Given(in.price, Bought[in.purchase].price)
                      ELSE in.price
             kind == IF isPurchase THEN "part" ELSE in.kind
  <2>1. /\ in.kind \in Work /\ in.qty \in Nat /\ in.price \in Nat
        /\ in.purchase \in Purchases \cup {NoPurchase}
        /\ isPurchase => /\ Bought[in.purchase].qty \in Nat
                         /\ Bought[in.purchase].price \in Nat
    BY WorkshopAssumption DEF Work
  <2>2. qty \in Nat /\ price \in Nat /\ kind \in Work
    BY <2>1 DEF Given, Work
  <2>3. line = [kind |-> kind, purchase |-> in.purchase, line |-> qty * price]
    BY DEF LineFor
  <2> HIDE DEF qty, price, kind, line
  <2>4. qty * price \in Nat
    BY <2>2
  <2> QED
    BY <2>1, <2>2, <2>3, <2>4 DEF LineRows
<1> HIDE DEF line
<1>3. job[j] \in JobRows
  BY <1>1, JobForms DEF WorkInv
<1>4. b \in JobRows /\ b.status = "open"
  <2>1. Append(job[j].items, line) \in Seq(LineRows)
    BY <1>2, <1>3 DEF JobRows
  <2> QED
    BY <1>1, <1>3, <2>1 DEF JobRows
<1> HIDE DEF b
<1>5. /\ Recalculated(b) \in JobRows /\ Summed(Recalculated(b))
      /\ Recalculated(b).status = "open"
  BY <1>1, <1>4, RecalculatedSums
<1> QED
  BY <1>1, <1>5, OpenJobWritten DEF JobWritten

(* A payment changes the amounts of a job, open or completed, and not its items.  *)
LEMMA PaymentAdded ==
  ASSUME WorkInv, NEW j \in Jobs, NEW m \in Mechanics, NEW amount \in Payments,
         AddPayment(m, j, amount)
  PROVE  WorkInv'
<1> DEFINE b == [job[j] EXCEPT !.payments = Append(@, amount)]
<1>1. /\ IsJob(j) /\ UNCHANGED entries
      /\ Recalculated(b).paid <= Recalculated(b).total
      /\ job' = [job EXCEPT ![j] = Recalculated(b)]
  BY DEF AddPayment, notebookVars
<1>2. job[j] \in JobRows
  BY <1>1, JobForms DEF WorkInv
<1>3. /\ b \in JobRows /\ b.status = job[j].status
      /\ b.vehicle = job[j].vehicle /\ b.items = job[j].items
  <2>1. amount \in Nat
    BY WorkshopAssumption
  <2>2. Append(job[j].payments, amount) \in Seq(Nat)
    BY <1>2, <2>1 DEF JobRows
  <2> QED
    BY <1>2, <2>2 DEF JobRows
<1> HIDE DEF b
<1>4. /\ Recalculated(b) \in JobRows /\ Summed(Recalculated(b))
      /\ Recalculated(b).status = b.status /\ Recalculated(b).vehicle = b.vehicle
      /\ Recalculated(b).items = b.items
  BY <1>1, <1>3, RecalculatedSums
<1> QED
  BY <1>1, <1>3, <1>4, SameItemsWritten DEF JobWritten

(* Other actions leave the jobs and the notebooks alone.                          *)
LEMMA WorkQuiet ==
  ASSUME WorkInv, UNCHANGED <<job, entries>>
  PROVE  WorkInv'
<1>1. WorkTypes' /\ JobsSummed'
  BY DEF WorkInv, WorkTypes, JobsSummed, IsJob
<1>2. NotesBelong'
  <2>1. \A item, v : Belongs(item, v) => Belongs(item, v)'
    BY DEF Belongs, IsJob
  <2> QED
    BY <2>1 DEF WorkInv, HistoryKept, NotesBelong
<1>3. NotedOnce' /\ AllNoted'
  BY DEF WorkInv, HistoryKept, NotedOnce, AllNoted, IsJob
<1> QED
  BY <1>1, <1>2, <1>3 DEF WorkInv, HistoryKept

(* The invariant of the jobs holds, whatever the workshop and the owners do.      *)
LEMMA WorkInvAlways == Spec => []WorkInv
<1>1. Init => WorkInv
  <2> SUFFICES ASSUME Init
               PROVE  WorkInv
    OBVIOUS
  <2>1. /\ job = [j \in Jobs |-> NoJob]
        /\ entries = [v \in Vehicles |-> <<>>]
    BY DEF Init, WorkshopInit, NotebookInit
  <2>2. WorkTypes /\ \A j \in Jobs : ~ IsJob(j)
    BY <2>1 DEF WorkTypes, IsJob
  <2>3. \A v \in Vehicles : DOMAIN entries[v] = {}
    BY <2>1
  <2> QED
    BY <2>2, <2>3 DEF WorkInv, JobsSummed, HistoryKept, NotesBelong, NotedOnce,
                      AllNoted
<1>2. WorkInv /\ CodesInv /\ [Next]_vars => WorkInv'
  <2> SUFFICES ASSUME WorkInv, CodesInv, [Next]_vars
               PROVE  WorkInv'
    OBVIOUS
  <2>1. CASE UNCHANGED <<workshopVars, notebookVars>>
    BY <2>1, WorkQuiet DEF workshopVars, notebookVars
  <2>2. CASE WorkshopNext
    <3>1. ASSUME NEW p \in Purchases, Fulfil(p)
          PROVE  WorkInv'
      BY <3>1, WorkQuiet DEF Fulfil, notebookVars
    <3>2. ASSUME NEW j \in Jobs, NEW m \in Mechanics, Complete(m, j)
          PROVE  WorkInv'
      BY <3>2, CompletedJobNoted DEF Complete
    <3> QED
      BY <2>2, <3>1, <3>2, JobCreated, ItemAdded, PaymentAdded DEF WorkshopNext
  <2>3. CASE NotebookNext /\ UNCHANGED workshopVars
    <3>1. ASSUME NEW v \in Vehicles, NEW who \in Makers, Create(v, who)
          PROVE  WorkInv'
      BY <2>3, <3>1, WorkQuiet DEF Create, workshopVars
    <3>2. ASSUME NEW v \in Vehicles, NEW role \in {"store", "mechanic"},
                 AddEntry(v, "note", role)
          PROVE  WorkInv'
      BY <2>3, <3>2, HandEntry DEF AddEntry, workshopVars
    <3> QED
      BY <2>3, <3>1, <3>2 DEF NotebookNext
  <2>4. CASE CodeNext /\ UNCHANGED workshopVars
    <3>1. CASE UNCHANGED entries
      BY <2>4, <3>1, WorkQuiet DEF workshopVars
    <3>2. ASSUME NEW c \in Calls, AddOwnerEntry(c)
          PROVE  WorkInv'
      <4>1. call[c].vehicle \in Vehicles
        BY <3>2, CallForms DEF AddOwnerEntry, CodesInv
      <4> QED
        BY <2>4, <3>2, <4>1, HandEntry DEF AddOwnerEntry, workshopVars
    <3>3. ASSUME NEW c \in Calls,
                 \/ \E v \in Vehicles :
                      \/ \E who \in Makers : FindNotebook(c, v, who)
                      \/ \E given \in OwnerCodes : CheckCode(c, v, given)
                 \/ StoreCode(c) \/ AnswerCode(c) \/ GiveUp(c)
          PROVE  UNCHANGED entries
      BY <3>3 DEF FindNotebook, CheckCode, StoreCode, AnswerCode, GiveUp
    <3> QED
      BY <2>4, <3>1, <3>2, <3>3 DEF CodeNext
  <2> QED
    BY <2>1, <2>2, <2>3, <2>4 DEF Next, vars
<1> QED
  BY <1>1, <1>2, CodesInvAlways, PTL DEF Spec

(* The permanent history of a vehicle has each item of each of its completed jobs *)
(* exactly once and nothing of an open one, for any jobs, mechanics and vehicles. *)
THEOREM HistoryIsExact == Spec => []CompletedJobsAreHistory
<1>1. WorkInv => CompletedJobsAreHistory
  <2> SUFFICES ASSUME WorkInv, NEW j \in Jobs, IsJob(j), NEW v \in Vehicles,
                      NEW i \in DOMAIN job[j].items
               PROVE  TimesNoted(v, <<j, i>>) =
                        IF v = job[j].vehicle /\ job[j].status = "completed"
                        THEN 1 ELSE 0
    BY DEF CompletedJobsAreHistory
  <2> DEFINE N == {k \in DOMAIN entries[v] : entries[v][k].item = <<j, i>>}
  <2>1. TimesNoted(v, <<j, i>>) = Cardinality(N)
    BY DEF TimesNoted
  <2>2. <<j, i>> # ByHand
    BY DEF ByHand
  <2>3. CASE v = job[j].vehicle /\ job[j].status = "completed"
    <3>1. PICK k \in N : TRUE
      BY <2>3 DEF WorkInv, HistoryKept, AllNoted
    <3>2. N = {k}
      BY <2>2, <3>1 DEF WorkInv, HistoryKept, NotedOnce
    <3> QED
      BY <2>1, <2>3, <3>2, FS_Singleton
  <2>4. CASE ~ (v = job[j].vehicle /\ job[j].status = "completed")
    <3>1. ~ Belongs(<<j, i>>, v)
      BY <2>4 DEF Belongs
    <3>2. N = {}
      BY <2>2, <3>1 DEF WorkInv, HistoryKept, NotesBelong
    <3> QED
      BY <2>1, <2>4, <3>2, FS_EmptySet
  <2> QED
    BY <2>3, <2>4
<1> QED
  BY <1>1, WorkInvAlways, PTL

(* What customers still owe a mechanic is what the items of the jobs come to less *)
(* what has been paid, and no job is overpaid, for any items and payments.        *)
THEOREM JobsAlwaysAddUp == Spec => []JobsAddUp
<1>1. WorkInv => JobsAddUp
  <2> SUFFICES ASSUME WorkInv, NEW j \in Jobs, IsJob(j)
               PROVE  /\ job[j].labor + job[j].parts
                           = SumOfLines(job[j].items, {"part", "labor", "service"})
                      /\ job[j].due = job[j].labor + job[j].parts
                                       - SumOfPayments(job[j].payments)
                      /\ job[j].due >= 0
    BY DEF JobsAddUp
  <2>1. job[j].items \in Seq(LineRows) /\ job[j].payments \in Seq(Nat)
    BY JobForms DEF WorkInv, JobRows
  <2>2. Summed(job[j])
    BY DEF WorkInv, JobsSummed
  <2> QED
    BY <2>1, <2>2, LinesHaveSums DEF Summed, Work
<1> QED
  BY <1>1, WorkInvAlways, PTL

-----------------------------------------------------------------------------
(* Units, prices, stock and its value, in the books and in an import under way *)

UnitRows == [factor : Nat, sale : BOOLEAN, active : BOOLEAN]
UnitsOk(units) == units \in [Products -> [Units -> UnitRows]]

\* A row of product_price_breaks is found by its key.
BreaksOk(rows) ==
  /\ \A b \in rows : b.min \in Nat
  /\ \A b, c \in rows : Key(b) = Key(c) => b = c

StockRows == [exists : BOOLEAN, on : Nat, cost : Nat]
MoveRows == [opening : Nat, other : Nat]

\* What has no row has no stock and no history.
StockOk(st, mv) ==
  /\ st \in [Products -> StockRows]
  /\ mv \in [Products -> MoveRows]
  /\ \A p \in Products : ~ st[p].exists => st[p].on = 0 /\ mv[p].opening + mv[p].other = 0

ValueOf(st) == [p \in Products |-> st[p].on * st[p].cost]
CountOf(mv) == [p \in Products |-> mv[p].opening + mv[p].other]

\* The account is the value of the stock, up to half a rial for each movement.
ValueOk(st, mv, book) ==
  /\ book \in Int
  /\ Summable(ValueOf(st), Products) /\ Summable(CountOf(mv), Products)
  /\ SumOf(ValueOf(st), Products) \in Int /\ SumOf(CountOf(mv), Products) \in Int
  /\ 2 * (Parts * book - SumOf(ValueOf(st), Products))
       <= Parts * SumOf(CountOf(mv), Products)
  /\ 2 * (SumOf(ValueOf(st), Products) - Parts * book)
       <= Parts * SumOf(CountOf(mv), Products)

\* The import under way has left alone what has a history.
LiveKept(st, mv) ==
  \A p \in Products :
    moves[p].opening + moves[p].other > 0 => st[p] = stock[p] /\ mv[p] = moves[p]

ImportFields == {"underWay", "key", "rows", "done", "draft"}
DraftFields ==
  {"known", "fractional", "unit", "breaks", "offer", "stock", "moves", "value"}

DraftOk(d) ==
  /\ DOMAIN d = DraftFields
  /\ UnitsOk(d.unit) /\ BreaksOk(d.breaks) /\ StockOk(d.stock, d.moves)
  /\ d.value \in Int /\ ValueOk(d.stock, d.moves, inventory + d.value)
  /\ LiveKept(d.stock, d.moves)

ImportOk ==
  importing.underWay =>
    /\ DOMAIN importing = ImportFields
    /\ \A i \in DOMAIN importing.rows : IsFileRow(importing.rows[i])
    /\ DraftOk(importing.draft)

DeskInv ==
  /\ margin \in 0 .. 9000
  /\ UnitsOk(unit) /\ BreaksOk(breaks) /\ StockOk(stock, moves)
  /\ ValueOk(stock, moves, inventory)
  /\ ImportOk

(* Rows of units that are written over are rows of units.                         *)
LEMMA UnitsWritten ==
  ASSUME NEW units, UnitsOk(units), NEW p \in Products,
         NEW rows, rows \in [Units -> UnitRows], NEW form, IsUnitForm(form),
         NEW frac, ValidUnits(form, frac),
         NEW after, after = [units EXCEPT ![p] = UnitsUpserted(rows, form)]
  PROVE  UnitsOk(after)
<1>1. UnitsUpserted(rows, form) \in [Units -> UnitRows]
  <2> SUFFICES ASSUME NEW u \in Units
               PROVE  (IF u \in DOMAIN form
                       THEN [factor |-> form[u].factor, sale |-> form[u].sale,
                             active |-> TRUE]
                       ELSE rows[u]) \in UnitRows
    BY DEF UnitsUpserted
  <2>1. CASE u \in DOMAIN form
    <3>1. form[u].factor \in Nat /\ form[u].sale \in BOOLEAN
      BY <2>1 DEF IsUnitForm, ValidUnits
    <3> QED
      BY <2>1, <3>1 DEF UnitRows
  <2>2. CASE u \notin DOMAIN form
    BY <2>2
  <2> QED
    BY <2>1, <2>2
<1> QED
  BY <1>1 DEF UnitsOk

(* The rows a product's units are written over.                                   *)
LEMMA RowsOfUnits ==
  ASSUME NEW rows \in [Units -> UnitRows]
  PROVE  /\ BaseUnit \in UnitRows
         /\ \A u \in Units : [rows[u] EXCEPT !.active = FALSE] \in UnitRows
BY PartsAssumption DEF BaseUnit, UnitRows

(* Breaks that are written over the rows with their keys.                         *)
LEMMA BreaksUpserted ==
  ASSUME NEW rows, NEW new, BreaksOk(rows), BreaksOk(new)
  PROVE  BreaksOk(Upserted(rows, new))
<1>1. \A b \in Upserted(rows, new) :
        b \in new \/ (b \in rows /\ \A n \in new : Key(n) # Key(b))
  BY DEF Upserted
<1> QED
  BY <1>1 DEF BreaksOk

(* The breaks of a form or a file: one for each unit.                             *)
LEMMA FirstBreaksOk ==
  ASSUME NEW p, NEW l, NEW price, NEW units
  PROVE  BreaksOk(FirstBreaks(p, l, price, units))
<1> DEFINE given == [u \in DOMAIN units \cup {Base} |->
                       IF u = Base THEN price ELSE units[u].price]
           row(u) == [product |-> p, list |-> l, unit |-> u, min |-> 1,
                      price |-> given[u]]
<1>1. \A b \in FirstBreaks(p, l, price, units) : \E u : b = row(u)
  BY DEF FirstBreaks
<1>2. \A u, w : /\ row(u).min = 1
                /\ Key(row(u)) = <<p, l, u, 1>>
                /\ Key(row(w)) = Key(row(u)) => w = u
  BY DEF Key
<1> HIDE DEF row
<1> QED
  BY <1>1, <1>2 DEF BreaksOk

\* What ReplaceProductBreaks leaves.
Replaced(rows, p, l, u, new) ==
  {b \in rows : <<b.product, b.list, b.unit>> # <<p, l, u>>}
    \cup {[product |-> p, list |-> l, unit |-> u, min |-> m,
           price |-> new[m]] : m \in DOMAIN new}

(* The breaks of a unit, replaced: one for each quantity they begin at.           *)
LEMMA BreaksReplaced ==
  ASSUME NEW rows, BreaksOk(rows), NEW p, NEW l, NEW u, NEW new,
         DOMAIN new \subseteq Nat
  PROVE  BreaksOk(Replaced(rows, p, l, u, new))
<1> DEFINE row(m) == [product |-> p, list |-> l, unit |-> u, min |-> m,
                      price |-> new[m]]
           kept == {b \in rows : <<b.product, b.list, b.unit>> # <<p, l, u>>}
           added == {row(m) : m \in DOMAIN new}
<1>1. \A m, k : /\ row(m).min = m
                /\ Key(row(m)) = <<p, l, u, m>>
                /\ Key(row(m)) = Key(row(k)) => m = k
  BY DEF Key
<1>2. \A b \in kept : \A m : Key(b) # Key(row(m))
  BY DEF Key
<1>3. \A b \in added : \E m \in DOMAIN new : b = row(m)
  OBVIOUS
<1>4. \A b \in kept : b \in rows
  OBVIOUS
<1> HIDE DEF row, kept, added
<1>5. BreaksOk(kept \cup added)
  BY <1>1, <1>2, <1>3, <1>4 DEF BreaksOk
<1> QED
  BY <1>5 DEF kept, added, row, Replaced

(* A rounded value is a whole number of rials at most half a rial away, and       *)
(* nothing is worth nothing.                                                      *)
LEMMA RoundedValue ==
  ASSUME NEW n \in Nat
  PROVE  /\ Rounded(n, Parts) \in Nat
         /\ 2 * (Parts * Rounded(n, Parts) - n) <= Parts
         /\ 2 * (n - Parts * Rounded(n, Parts)) <= Parts
         /\ n = 0 => Rounded(n, Parts) = 0
<1>1. Parts \in Nat \ {0}
  BY PartsAssumption
<1> DEFINE x == 2 * n + Parts
           d == 2 * Parts
           q == x \div d
           m == x % d
<1>2. x \in Nat /\ d \in Nat \ {0}
  BY <1>1
<1>3. q \in Nat /\ m \in 0 .. d - 1 /\ x = d * q + m
  <2> HIDE DEF x, d
  <2> QED
    BY <1>2, DivMod
<1>4. Rounded(n, Parts) = q
  BY DEF Rounded
<1> HIDE DEF q, m
<1>5. d * q = 2 * (Parts * q) /\ Parts * q \in Nat
  BY <1>1, <1>3
<1>6. n = 0 => q = 0
  <2> SUFFICES ASSUME n = 0, q >= 1
               PROVE  FALSE
    BY <1>3
  <2>1. Parts * q >= Parts
    BY <1>1, <1>3
  <2> QED
    BY <1>1, <1>3, <1>5, <2>1
<1> QED
  BY <1>1, <1>3, <1>4, <1>5, <1>6

\* The stock of p and its movements change, its value by a, their number by c, and
\* nothing else does.
RowMoved(st, mv, st2, mv2, p, a, c) ==
  /\ p \in Products /\ a \in Int /\ c \in Int
  /\ st[p].on * st[p].cost \in Int /\ mv[p].opening + mv[p].other \in Int
  /\ \A x \in Products \ {p} : st2[x] = st[x] /\ mv2[x] = mv[x]
  /\ st2[p].on * st2[p].cost = st[p].on * st[p].cost + a
  /\ mv2[p].opening + mv2[p].other = mv[p].opening + mv[p].other + c

\* What is booked for a change of value: up to half a rial for each movement.
BookedFor(b, a, c) ==
  /\ b \in Int
  /\ 2 * (Parts * b - a) <= Parts * c
  /\ 2 * (a - Parts * b) <= Parts * c

(* When the stock of one product, its movements and the account change together,  *)
(* the account stays as near to the value as it was, a half for each movement.    *)
LEMMA ValueMoves ==
  ASSUME NEW st, NEW mv, NEW book, ValueOk(st, mv, book),
         NEW st2, NEW mv2, NEW p, NEW a, NEW b, NEW c,
         RowMoved(st, mv, st2, mv2, p, a, c), BookedFor(b, a, c),
         NEW book2, book2 = book + b
  PROVE  ValueOk(st2, mv2, book2)
<1>0. /\ p \in Products /\ a \in Int /\ c \in Int /\ b \in Int
      /\ st[p].on * st[p].cost \in Int /\ mv[p].opening + mv[p].other \in Int
      /\ \A x \in Products \ {p} : st2[x] = st[x] /\ mv2[x] = mv[x]
      /\ st2[p].on * st2[p].cost = st[p].on * st[p].cost + a
      /\ mv2[p].opening + mv2[p].other = mv[p].opening + mv[p].other + c
      /\ 2 * (Parts * b - a) <= Parts * c /\ 2 * (a - Parts * b) <= Parts * c
  BY DEF RowMoved, BookedFor
<1>1. /\ Summable(ValueOf(st2), Products)
      /\ SumOf(ValueOf(st2), Products) = SumOf(ValueOf(st), Products) + a
  <2>1. \A x \in Products : ValueOf(st)[x] = st[x].on * st[x].cost
    BY DEF ValueOf
  <2>2. \A x \in Products : ValueOf(st2)[x] = st2[x].on * st2[x].cost
    BY DEF ValueOf
  <2>3. \A x \in Products \ {p} : ValueOf(st2)[x] = ValueOf(st)[x]
    BY <1>0, <2>1, <2>2
  <2>4. ValueOf(st)[p] \in Int /\ ValueOf(st2)[p] = ValueOf(st)[p] + a
    BY <1>0, <2>1, <2>2
  <2>5. Summable(ValueOf(st), Products)
    BY DEF ValueOk
  <2> DEFINE f == ValueOf(st)
             g == ValueOf(st2)
  <2> HIDE DEF f, g
  <2>6. Summable(g, Products) /\ SumOf(g, Products) = SumOf(f, Products) + a
    BY <1>0, <2>3, <2>4, <2>5, SumMoves DEF f, g
  <2> QED
    BY <2>6 DEF f, g
<1>2. /\ Summable(CountOf(mv2), Products)
      /\ SumOf(CountOf(mv2), Products) = SumOf(CountOf(mv), Products) + c
  <2>1. \A x \in Products : CountOf(mv)[x] = mv[x].opening + mv[x].other
    BY DEF CountOf
  <2>2. \A x \in Products : CountOf(mv2)[x] = mv2[x].opening + mv2[x].other
    BY DEF CountOf
  <2>3. \A x \in Products \ {p} : CountOf(mv2)[x] = CountOf(mv)[x]
    BY <1>0, <2>1, <2>2
  <2>4. CountOf(mv)[p] \in Int /\ CountOf(mv2)[p] = CountOf(mv)[p] + c
    BY <1>0, <2>1, <2>2
  <2>5. Summable(CountOf(mv), Products)
    BY DEF ValueOk
  <2> DEFINE f == CountOf(mv)
             g == CountOf(mv2)
  <2> HIDE DEF f, g
  <2>6. Summable(g, Products) /\ SumOf(g, Products) = SumOf(f, Products) + c
    BY <1>0, <2>3, <2>4, <2>5, SumMoves DEF f, g
  <2> QED
    BY <2>6 DEF f, g
<1> DEFINE v == SumOf(ValueOf(st), Products)
           k == SumOf(CountOf(mv), Products)
<1>3. /\ book \in Int /\ v \in Int /\ k \in Int
      /\ 2 * (Parts * book - v) <= Parts * k
      /\ 2 * (v - Parts * book) <= Parts * k
  BY DEF ValueOk
<1> HIDE DEF v, k
<1>4. /\ Parts \in Nat
      /\ Parts * (book + b) = Parts * book + Parts * b
      /\ Parts * (k + c) = Parts * k + Parts * c
      /\ Parts * book \in Int /\ Parts * b \in Int
      /\ Parts * k \in Int /\ Parts * c \in Int
  BY <1>0, <1>3, PartsAssumption
<1>5. /\ 2 * (Parts * (book + b) - (v + a)) <= Parts * (k + c)
      /\ 2 * ((v + a) - Parts * (book + b)) <= Parts * (k + c)
  <2> DEFINE pb == Parts * book
             pd == Parts * b
             pk == Parts * k
             pc == Parts * c
  <2>1. /\ pb \in Int /\ pd \in Int /\ pk \in Int /\ pc \in Int
        /\ 2 * (pb - v) <= pk /\ 2 * (v - pb) <= pk
        /\ 2 * (pd - a) <= pc /\ 2 * (a - pd) <= pc
    BY <1>0, <1>3, <1>4
  <2> HIDE DEF pb, pd, pk, pc
  <2>2. /\ 2 * ((pb + pd) - (v + a)) <= pk + pc
        /\ 2 * ((v + a) - (pb + pd)) <= pk + pc
    BY <1>0, <1>3, <2>1
  <2> QED
    BY <1>4, <2>2 DEF pb, pd, pk, pc
<1>6. book + b \in Int /\ v + a \in Int /\ k + c \in Int
  BY <1>0, <1>3
<1> QED
  BY <1>1, <1>2, <1>5, <1>6 DEF ValueOk, v, k

(* A row's product and units, in the transaction of the import.                   *)
LEMMA DraftWithProduct ==
  ASSUME NEW s, DraftOk(s), NEW row, IsFileRow(row), NEW frac,
         ValidUnits(row.units, frac)
  PROVE  DraftOk(WithProduct(s, row))
<1> DEFINE p == row.product
           rows == [u \in Units |->
                      CASE u = Base -> BaseUnit
                        [] u \in row.takes -> [s.unit[p][u] EXCEPT !.active = FALSE]
                        [] OTHER -> s.unit[p][u]]
           after == WithProduct(s, row)
<1>1. p \in Products /\ IsUnitForm(row.units)
  BY DEF IsFileRow
<1>2. s.unit[p] \in [Units -> UnitRows]
  BY <1>1 DEF DraftOk, UnitsOk
<1>3. rows \in [Units -> UnitRows]
  <2> SUFFICES ASSUME NEW u \in Units
               PROVE  rows[u] \in UnitRows
    OBVIOUS
  <2>1. /\ BaseUnit \in UnitRows
        /\ [s.unit[p][u] EXCEPT !.active = FALSE] \in UnitRows
    BY <1>2, RowsOfUnits
  <2>2. s.unit[p][u] \in UnitRows
    BY <1>2
  <2> QED
    BY <2>1, <2>2
<1>4. /\ DOMAIN after = DraftFields
      /\ after.unit = [s.unit EXCEPT ![p] = UnitsUpserted(rows, row.units)]
      /\ after.breaks = s.breaks /\ after.stock = s.stock
      /\ after.moves = s.moves /\ after.value = s.value
  BY DEF WithProduct, DraftOk, DraftFields
<1> HIDE DEF p, rows, after
<1>5. UnitsOk(after.unit)
  BY <1>1, <1>3, <1>4, UnitsWritten DEF DraftOk
<1> QED
  BY <1>4, <1>5 DEF DraftOk, after

(* Stock is opened where there is none and nothing ever moved: at its value, as   *)
(* one movement, if there is any.                                                 *)
LEMMA DraftWithStock ==
  ASSUME NEW s, DraftOk(s), NEW row, IsFileRow(row), inventory \in Int,
         StockOk(stock, moves)
  PROVE  DraftOk(WithOpeningStock(s, row))
<1> DEFINE p == row.product
           worth == row.onHand * row.cost
           c == IF row.onHand > 0 THEN 1 ELSE 0
           new == [exists |-> TRUE, on |-> row.onHand, cost |-> row.cost]
           after == [s EXCEPT !.stock[p] = new, !.moves[p].opening = @ + c,
                              !.value = @ + RowValue(row)]
<1>1. p \in Products /\ row.onHand \in Nat /\ row.cost \in Nat
  BY DEF IsFileRow
<1>2. StockOk(s.stock, s.moves) /\ LiveKept(s.stock, s.moves)
      /\ ValueOk(s.stock, s.moves, inventory + s.value) /\ s.value \in Int
  BY DEF DraftOk
<1>3. s.stock[p] \in StockRows /\ s.moves[p] \in MoveRows
  BY <1>1, <1>2 DEF StockOk
<1>4. CASE s.stock[p].exists /\ (s.stock[p].on # 0 \/ HasMovement(s, p))
  BY <1>4 DEF WithOpeningStock
<1>5. CASE ~ (s.stock[p].exists /\ (s.stock[p].on # 0 \/ HasMovement(s, p)))
  <2>1. WithOpeningStock(s, row) = after
    BY <1>5 DEF WithOpeningStock
  <2>2. s.stock[p].on = 0 /\ s.moves[p].opening + s.moves[p].other = 0
    <3>1. CASE ~ s.stock[p].exists
      BY <1>1, <1>2, <3>1 DEF StockOk
    <3>2. CASE s.stock[p].on = 0 /\ ~ HasMovement(s, p)
      BY <1>3, <3>2 DEF HasMovement, MoveRows
    <3>3. s.stock[p].exists \in BOOLEAN
      BY <1>3 DEF StockRows
    <3> QED
      BY <1>5, <3>1, <3>2, <3>3
  <2> DEFINE counted == [s.moves[p] EXCEPT !.opening = @ + c]
  <2>3. /\ DOMAIN after = DraftFields
        /\ after.unit = s.unit /\ after.breaks = s.breaks
        /\ after.stock = [s.stock EXCEPT ![p] = new]
        /\ after.moves = [s.moves EXCEPT ![p] = counted]
        /\ after.value = s.value + RowValue(row)
    BY DEF DraftOk, DraftFields
  <2>4. /\ counted \in MoveRows
        /\ counted.opening + counted.other = s.moves[p].opening + s.moves[p].other + c
    BY <1>3 DEF MoveRows
  <2>5. new \in StockRows /\ new.exists = TRUE /\ new.on * new.cost = worth
    BY <1>1 DEF StockRows
  <2>6. worth \in Nat /\ (row.onHand = 0 => worth = 0)
    BY <1>1
  <2>7. /\ RowValue(row) \in Nat
        /\ 2 * (Parts * RowValue(row) - worth) <= Parts * c
        /\ 2 * (worth - Parts * RowValue(row)) <= Parts * c
    <3>1. /\ RowValue(row) \in Nat
          /\ 2 * (Parts * RowValue(row) - worth) <= Parts
          /\ 2 * (worth - Parts * RowValue(row)) <= Parts
          /\ worth = 0 => RowValue(row) = 0
      BY <2>6, RoundedValue DEF RowValue
    <3>2. CASE row.onHand > 0
      BY <3>1, <3>2, PartsAssumption
    <3>3. CASE row.onHand = 0
      BY <2>6, <3>1, <3>3, PartsAssumption
    <3> QED
      BY <1>1, <3>2, <3>3
  <2>8. c \in Int /\ s.stock[p].on * s.stock[p].cost = 0
    BY <1>3, <2>2 DEF StockRows
  <2> HIDE DEF worth, c, new, counted, after
  <2>9. /\ DOMAIN s.stock = Products /\ DOMAIN s.moves = Products
    BY <1>2 DEF StockOk
  <2>10. /\ after.stock[p] = new /\ after.moves[p] = counted
         /\ \A x \in Products \ {p} : after.stock[x] = s.stock[x]
                                      /\ after.moves[x] = s.moves[x]
    BY <1>1, <2>3, <2>9, Zenon
  <2>11. StockOk(after.stock, after.moves)
    <3>1. after.stock \in [Products -> StockRows]
      BY <1>1, <1>2, <2>3, <2>5 DEF StockOk
    <3>2. after.moves \in [Products -> MoveRows]
      BY <1>1, <1>2, <2>3, <2>4 DEF StockOk
    <3>3. ASSUME NEW x \in Products, ~ after.stock[x].exists
          PROVE  after.stock[x].on = 0 /\ after.moves[x].opening + after.moves[x].other = 0
      BY <1>2, <2>5, <2>10, <3>3 DEF StockOk
    <3> QED
      BY <3>1, <3>2, <3>3 DEF StockOk
  <2>12. ValueOk(after.stock, after.moves, inventory + after.value)
    <3>1. new.on * new.cost = s.stock[p].on * s.stock[p].cost + worth
      BY <2>5, <2>6, <2>8
    <3>2. s.moves[p].opening + s.moves[p].other \in Int
          /\ s.stock[p].on * s.stock[p].cost \in Int
      BY <2>2, <2>8
    <3>3. ValueOk(after.stock, after.moves, inventory + s.value + RowValue(row))
      <4> DEFINE st == s.stock
                 mv == s.moves
                 st2 == after.stock
                 mv2 == after.moves
                 book == inventory + s.value
                 value == RowValue(row)
                 book2 == inventory + s.value + RowValue(row)
      <4>1. ValueOk(st, mv, book) /\ book2 = book + value
        BY <1>2
      <4>2. RowMoved(st, mv, st2, mv2, p, worth, c)
        BY <1>1, <2>4, <2>6, <2>8, <2>10, <3>1, <3>2 DEF RowMoved
      <4>3. BookedFor(value, worth, c)
        BY <2>7 DEF BookedFor
      <4> HIDE DEF st, mv, st2, mv2, book, value, book2, p
      <4>5. ValueOk(st2, mv2, book2)
        BY <4>1, <4>2, <4>3, ValueMoves
      <4> QED
        BY <4>5 DEF st2, mv2, book2
    <3>4. inventory + s.value + RowValue(row) = inventory + after.value
      BY <1>2, <2>3, <2>7
    <3> QED
      BY <3>3, <3>4
  <2>13. LiveKept(after.stock, after.moves)
    <3> SUFFICES ASSUME NEW x \in Products, moves[x].opening + moves[x].other > 0
                 PROVE  after.stock[x] = stock[x] /\ after.moves[x] = moves[x]
      BY DEF LiveKept
    <3>1. s.stock[x] = stock[x] /\ s.moves[x] = moves[x]
      BY <1>2 DEF LiveKept
    <3>2. x # p
      BY <2>2, <3>1
    <3> QED
      BY <2>10, <3>1, <3>2
  <2>14. after.value \in Int
    BY <1>2, <2>3, <2>7
  <2>15. UnitsOk(s.unit) /\ BreaksOk(s.breaks)
    BY DEF DraftOk
  <2>16. DraftOk(after)
    BY <2>3, <2>11, <2>12, <2>13, <2>14, <2>15 DEF DraftOk
  <2> QED
    BY <2>1, <2>16
<1> QED
  BY <1>4, <1>5

(* A row's prices.                                                                *)
LEMMA DraftWithPrices ==
  ASSUME NEW s, DraftOk(s), NEW row, NEW l
  PROVE  DraftOk(WithPrices(s, row, l))
<1> DEFINE new == FirstBreaks(row.product, l, row.price, row.units)
           after == WithPrices(s, row, l)
<1>1. /\ DOMAIN after = DraftFields
      /\ after.breaks = Upserted(s.breaks, new)
      /\ after.unit = s.unit /\ after.stock = s.stock
      /\ after.moves = s.moves /\ after.value = s.value
  BY DEF WithPrices, DraftOk, DraftFields
<1> HIDE DEF after, new
<1>2. BreaksOk(after.breaks)
  BY <1>1, FirstBreaksOk, BreaksUpserted DEF DraftOk, new
<1> QED
  BY <1>1, <1>2 DEF DraftOk, after

(* A whole row.                                                                   *)
LEMMA DraftWithRow ==
  ASSUME NEW s, DraftOk(s), NEW row, IsFileRow(row), NEW frac,
         ValidUnits(row.units, frac), inventory \in Int, StockOk(stock, moves)
  PROVE  DraftOk(WithRow(s, row))
<1> DEFINE s1 == WithProduct(s, row)
           s2 == WithOpeningStock(s1, row)
<1>1. DraftOk(s1)
  BY DraftWithProduct
<1> HIDE DEF s1
<1>2. DraftOk(s2)
  BY <1>1, DraftWithStock
<1> HIDE DEF s2
<1>3. DraftOk(WithPrices(s2, row, DefaultList(WithDefault)))
  BY <1>2, DraftWithPrices
<1> QED
  BY <1>3 DEF WithRow, s2, s1

-----------------------------------------------------------------------------
(* Steps of the desk                                                        *)

(* A step that touches none of it.                                              *)
LEMMA DeskQuiet ==
  ASSUME DeskInv,
         UNCHANGED <<margin, unit, breaks, stock, moves, inventory, importing>>
  PROVE  DeskInv'
<1>1. ASSUME NEW d, DraftOk(d)
      PROVE  DraftOk(d)'
  BY <1>1 DEF DraftOk, LiveKept
<1> QED
  BY <1>1 DEF DeskInv, ImportOk

\* With no import under way there is no draft to speak of.
LEMMA DeskIdle ==
  ASSUME DeskInv, ~ importing.underWay,
         UNCHANGED <<stock, moves, inventory, importing>>,
         margin' \in 0 .. 9000, UnitsOk(unit'), BreaksOk(breaks')
  PROVE  DeskInv'
<1>1. ValueOk(stock', moves', inventory') /\ StockOk(stock', moves')
  BY DEF DeskInv
<1>2. (ValueOk(stock, moves, inventory) /\ StockOk(stock, moves))'
  BY <1>1 DEF ValueOk, StockOk
<1>3. (UnitsOk(unit) /\ BreaksOk(breaks))'
  BY DEF UnitsOk, BreaksOk
<1>4. ImportOk'
  BY DEF ImportOk
<1> QED
  BY <1>2, <1>3, <1>4 DEF DeskInv

(* Price lists, settings, breaks, offers and the lists of customers.            *)
LEMMA DeskOfPriceWork ==
  ASSUME DeskInv, ~ importing.underWay, PriceWork, UNCHANGED stockVars
  PROVE  DeskInv'
<1>0. UNCHANGED <<stock, moves, inventory, importing>>
  BY DEF stockVars
<1>4. margin \in 0 .. 9000 /\ UnitsOk(unit) /\ BreaksOk(breaks)
  BY DEF DeskInv
<1>1. ASSUME NEW m, NEW o, UpdatePriceSettings(m, o)
      PROVE  DeskInv'
  <2>1. m \in 0 .. 9000 /\ margin' = m /\ UNCHANGED <<unit, breaks>>
    BY <1>1 DEF UpdatePriceSettings, productVars
  <2> QED
    BY <1>0, <1>4, <2>1, DeskIdle
<1>2. ASSUME NEW p \in Products, NEW l, NEW u, NEW b \in BreakForms,
             ReplaceProductBreaks(p, l, u, b)
      PROVE  DeskInv'
  <2>1. breaks' = Replaced(breaks, p, l, u, b) /\ UNCHANGED <<unit, margin>>
    BY <1>2 DEF ReplaceProductBreaks, Replaced, productVars
  <2>2. BreaksOk(breaks) /\ DOMAIN b \subseteq Nat
    BY <1>4, SaleDeskAssumption
  <2>3. BreaksOk(breaks')
    BY <2>1, <2>2, BreaksReplaced
  <2> QED
    BY <1>0, <1>4, <2>1, <2>3, DeskIdle
<1>3. CASE UNCHANGED <<margin, breaks, unit>>
  BY <1>0, <1>3, DeskQuiet
<1> QED
  BY <1>1, <1>2, <1>3
     DEF PriceWork, ReadPrices, CreatePriceList, UpdatePriceList, AssignPriceList,
         UpsertOffer, productVars

(* Products, their units, and the start of an import.                           *)
LEMMA DeskOfCatalogWork ==
  ASSUME DeskInv, ~ importing.underWay, CatalogWork
  PROVE  DeskInv'
<1>0. margin \in 0 .. 9000 /\ UnitsOk(unit) /\ BreaksOk(breaks)
  BY DEF DeskInv
<1>1. ASSUME NEW p \in Products, NEW f \in ProductForms,
             CreateProduct(p, f.frac, f.price, f.units)
      PROVE  DeskInv'
  <2> DEFINE rows == [unit[p] EXCEPT ![Base] = BaseUnit]
  <2>1. /\ ValidUnits(f.units, f.frac) /\ IsUnitForm(f.units)
        /\ unit' = [unit EXCEPT ![p] = UnitsUpserted(rows, f.units)]
        /\ \/ breaks' = breaks
           \/ breaks' = Upserted(breaks,
                FirstBreaks(p, DefaultList(WithDefault), f.price, f.units))
        /\ UNCHANGED <<margin, stock, moves, inventory, importing>>
    BY <1>1, SaleDeskAssumption DEF CreateProduct, stockVars
  <2>2. rows \in [Units -> UnitRows]
    BY <1>0, RowsOfUnits, PriceListsAssumption DEF UnitsOk
  <2> HIDE DEF rows
  <2>3. UnitsOk(unit')
    <3> DEFINE form == f.units
               frac == f.frac
    <3>1. IsUnitForm(form) /\ ValidUnits(form, frac) /\ UnitsOk(unit) /\ p \in Products
      BY <1>0, <2>1
    <3>2. unit' = [unit EXCEPT ![p] = UnitsUpserted(rows, form)]
      BY <2>1
    <3> HIDE DEF form, frac
    <3> QED
      BY <3>1, <3>2, <2>2, UnitsWritten
  <2>4. BreaksOk(breaks')
    BY <1>0, <2>1, FirstBreaksOk, BreaksUpserted
  <2> QED
    BY <1>0, <2>1, <2>3, <2>4, DeskIdle
<1>2. ASSUME NEW p \in Products, NEW f \in ProductForms,
             ReplaceProductUnits(p, f.frac, f.units)
      PROVE  DeskInv'
  <2> DEFINE rows == [u \in Units |-> IF u = Base THEN BaseUnit
                                      ELSE [unit[p][u] EXCEPT !.active = FALSE]]
  <2>1. /\ ValidUnits(f.units, f.frac) /\ IsUnitForm(f.units)
        /\ unit' = [unit EXCEPT ![p] = UnitsUpserted(rows, f.units)]
        /\ UNCHANGED <<breaks, margin, stock, moves, inventory, importing>>
    BY <1>2, SaleDeskAssumption DEF ReplaceProductUnits, priceVars, stockVars
  <2>2. unit[p] \in [Units -> UnitRows]
    BY <1>0 DEF UnitsOk
  <2>3. rows \in [Units -> UnitRows]
    BY <2>2, RowsOfUnits
  <2> HIDE DEF rows
  <2>4. UnitsOk(unit')
    <3> DEFINE form == f.units
               frac == f.frac
    <3>1. IsUnitForm(form) /\ ValidUnits(form, frac) /\ UnitsOk(unit) /\ p \in Products
      BY <1>0, <2>1
    <3>2. unit' = [unit EXCEPT ![p] = UnitsUpserted(rows, form)]
      BY <2>1
    <3> HIDE DEF form, frac
    <3> QED
      BY <3>1, <3>2, <2>3, UnitsWritten
  <2> QED
    BY <1>0, <2>1, <2>4, DeskIdle
<1>3. ASSUME NEW f \in Files, BeginImport(f.key, f.rows)
      PROVE  DeskInv'
  <2>1. /\ importing' = [underWay |-> TRUE, key |-> f.key, rows |-> f.rows,
                         done |-> 0, draft |-> Found]
        /\ UNCHANGED <<margin, unit, breaks, stock, moves, inventory>>
    BY <1>3 DEF BeginImport, priceVars, productVars
  <2>2. DraftOk(Found)
    <3>1. /\ DOMAIN Found = DraftFields
          /\ Found.unit = unit /\ Found.breaks = breaks
          /\ Found.stock = stock /\ Found.moves = moves /\ Found.value = 0
      BY DEF Found, DraftFields
    <3>2. inventory + 0 = inventory
      BY DEF DeskInv, ValueOk
    <3> QED
      BY <3>1, <3>2 DEF DraftOk, DeskInv, LiveKept
  <2>3. DOMAIN importing' = ImportFields /\ importing'.rows = f.rows
        /\ importing'.draft = Found
    BY <2>1 DEF ImportFields
  <2>4. ASSUME NEW d, DraftOk(d)
        PROVE  DraftOk(d)'
    BY <2>1, <2>4 DEF DraftOk, LiveKept
  <2>5. \A i \in DOMAIN f.rows : IsFileRow(f.rows[i])
    BY SaleDeskAssumption
  <2>6. ImportOk'
    BY <2>2, <2>3, <2>4, <2>5 DEF ImportOk
  <2> QED
    BY <2>1, <2>6 DEF DeskInv
<1> QED
  BY <1>1, <1>2, <1>3 DEF CatalogWork

(* The rows of an import, its end and its rollback.                             *)
LEMMA DeskOfImportWork ==
  ASSUME DeskInv, ImportWork
  PROVE  DeskInv'
<1>1. /\ importing.underWay
      /\ DOMAIN importing = ImportFields
      /\ \A i \in DOMAIN importing.rows : IsFileRow(importing.rows[i])
      /\ DraftOk(importing.draft)
  BY DEF DeskInv, ImportOk, ImportWork, ImportRow, FinishImport, AbandonImport
<1>2. margin \in 0 .. 9000 /\ StockOk(stock, moves) /\ inventory \in Int
  BY DEF DeskInv, ValueOk
<1>3. CASE ImportRow
  <2> DEFINE row == importing.rows[importing.done + 1]
             frac == row.product \in importing.draft.fractional \/ row.fractional
             after == WithRow(importing.draft, row)
  <2>1. /\ importing.done + 1 \in DOMAIN importing.rows
        /\ ValidUnits(row.units, frac)
        /\ importing' = [importing EXCEPT !.done = @ + 1, !.draft = after]
        /\ UNCHANGED <<margin, unit, breaks, stock, moves, inventory>>
    BY <1>3 DEF ImportRow, priceVars, productVars
  <2> HIDE DEF frac
  <2>2. IsFileRow(row)
    BY <1>1, <2>1
  <2>3. DraftOk(after)
    <3> HIDE DEF row
    <3> QED
      BY <1>1, <1>2, <2>1, <2>2, DraftWithRow
  <2>4. /\ DOMAIN importing' = ImportFields /\ importing'.rows = importing.rows
        /\ importing'.draft = after
    BY <1>1, <2>1 DEF ImportFields
  <2>5. ASSUME NEW d, DraftOk(d)
        PROVE  DraftOk(d)'
    BY <2>1, <2>5 DEF DraftOk, LiveKept
  <2> HIDE DEF after, row
  <2>6. ImportOk'
    BY <1>1, <2>3, <2>4, <2>5 DEF ImportOk
  <2> QED
    BY <2>1, <2>6 DEF DeskInv
<1>4. CASE FinishImport
  <2> DEFINE end == importing.draft
  <2>1. /\ unit' = end.unit /\ breaks' = end.breaks
        /\ stock' = end.stock /\ moves' = end.moves
        /\ inventory' = inventory + end.value
        /\ importing' = NoImport /\ margin' = margin
    BY <1>4 DEF FinishImport
  <2>2. /\ UnitsOk(end.unit) /\ BreaksOk(end.breaks) /\ StockOk(end.stock, end.moves)
        /\ ValueOk(end.stock, end.moves, inventory + end.value)
    BY <1>1 DEF DraftOk
  <2> HIDE DEF end
  <2>3. ImportOk'
    BY <2>1 DEF ImportOk, NoImport
  <2> QED
    BY <1>2, <2>1, <2>2, <2>3 DEF DeskInv
<1>5. CASE AbandonImport
  <2>1. /\ importing' = NoImport
        /\ UNCHANGED <<margin, unit, breaks, stock, moves, inventory>>
    BY <1>5 DEF AbandonImport, priceVars, productVars
  <2>2. ImportOk'
    BY <2>1 DEF ImportOk, NoImport
  <2> QED
    BY <2>1, <2>2 DEF DeskInv
<1> QED
  BY <1>3, <1>4, <1>5 DEF ImportWork

(* A sale takes what it sells from the stock, which has it, and its cost from the *)
(* account.                                                                       *)
LEMMA DeskOfSale ==
  ASSUME DeskInv, ~ importing.underWay, NEW r \in Requests, Sell(r)
  PROVE  DeskInv'
<1> DEFINE p == r.product
           qty == BaseQtyOf(r)
           cost == stock[p].cost
           worth == qty * cost
           booked == Rounded(worth, Parts)
           row == [stock[p] EXCEPT !.on = @ - qty]
           counted == [moves[p] EXCEPT !.other = @ + 1]
<1>1. /\ stock' = [stock EXCEPT ![p] = row]
      /\ moves' = [moves EXCEPT ![p] = counted]
      /\ inventory' = inventory - booked
      /\ UNCHANGED <<margin, unit, breaks, importing>>
      /\ stock[p].exists /\ stock[p].on >= qty
  BY DEF Sell, CostOfGoods, CostOf, Accepts, InStock, priceVars, productVars
<1>2. /\ p \in Products /\ r.unit \in Units /\ r.qty \in Nat
  BY SaleDeskAssumption
<1>3. UnitsOk(unit) /\ StockOk(stock, moves) /\ ValueOk(stock, moves, inventory)
  BY DEF DeskInv
<1>4. qty \in Nat
  <2>1. unit[p][r.unit] \in UnitRows
    BY <1>2, <1>3 DEF UnitsOk
  <2>2. unit[p][r.unit].factor \in Nat
    BY <2>1 DEF UnitRows
  <2> QED
    BY <1>2, <2>2 DEF BaseQtyOf, BaseQty, RowOf
<1>5. /\ stock[p].on \in Nat /\ cost \in Nat
      /\ stock[p] \in StockRows /\ moves[p] \in MoveRows
      /\ moves[p].opening \in Nat /\ moves[p].other \in Nat
  BY <1>2, <1>3 DEF StockOk, StockRows, MoveRows
<1> HIDE DEF qty, p
<1>6. /\ row \in StockRows /\ row.exists = TRUE
      /\ row.on = stock[p].on - qty /\ row.cost = cost
  BY <1>1, <1>4, <1>5 DEF StockRows
<1>7. /\ counted \in MoveRows
      /\ counted.opening + counted.other = moves[p].opening + moves[p].other + 1
  BY <1>5 DEF MoveRows
<1>8. /\ worth \in Nat /\ row.on * row.cost = stock[p].on * cost + (0 - worth)
      /\ stock[p].on * cost \in Int
  BY <1>4, <1>5, <1>6
<1> HIDE DEF row, counted, worth
<1>9. /\ booked \in Nat
      /\ 2 * (Parts * booked - worth) <= Parts
      /\ 2 * (worth - Parts * booked) <= Parts
  BY <1>8, RoundedValue
<1> HIDE DEF booked
<1>10. /\ stock'[p] = row /\ moves'[p] = counted
       /\ \A x \in Products \ {p} : stock'[x] = stock[x] /\ moves'[x] = moves[x]
  BY <1>1, <1>2, <1>3 DEF StockOk
<1>11. StockOk(stock', moves')
  <2>1. stock' \in [Products -> StockRows] /\ moves' \in [Products -> MoveRows]
    BY <1>1, <1>2, <1>3, <1>6, <1>7 DEF StockOk
  <2>2. ASSUME NEW x \in Products, ~ stock'[x].exists
        PROVE  stock'[x].on = 0 /\ moves'[x].opening + moves'[x].other = 0
    BY <1>3, <1>6, <1>10, <2>2 DEF StockOk
  <2> QED
    BY <2>1, <2>2 DEF StockOk
<1>12. ValueOk(stock', moves', inventory')
  <2> DEFINE a == 0 - worth
             b == 0 - booked
  <2>1. RowMoved(stock, moves, stock', moves', p, a, 1)
    BY <1>2, <1>5, <1>7, <1>8, <1>10 DEF RowMoved
  <2>2. BookedFor(b, a, 1)
    <3>1. Parts * b = 0 - Parts * booked /\ Parts * booked \in Nat /\ Parts * 1 = Parts
      BY <1>9, PartsAssumption
    <3> QED
      BY <1>8, <1>9, <3>1, PartsAssumption DEF BookedFor
  <2>3. inventory' = inventory + b
    BY <1>1, <1>3, <1>9 DEF ValueOk
  <2> HIDE DEF a, b
  <2> QED
    BY <1>3, <2>1, <2>2, <2>3, ValueMoves
<1>13. ImportOk'
  BY <1>1 DEF ImportOk
<1> QED
  BY <1>1, <1>11, <1>12, <1>13 DEF DeskInv

(* DeskInv holds of an empty store and is inductive.                            *)
LEMMA DeskInvAlways == Spec => []DeskInv
<1>1. Init => DeskInv
  <2> SUFFICES ASSUME Init
               PROVE  DeskInv
    OBVIOUS
  <2>1. CatalogInit /\ PriceInit
    BY DEF Init, DeskInit, CatalogInit
  <2>2. margin \in 0 .. 9000 /\ BreaksOk(breaks) /\ ImportOk
    BY <2>1 DEF CatalogInit, PriceInit, BreaksOk, ImportOk, NoImport
  <2>3. UnitsOk(unit)
    BY <2>1 DEF PriceInit, NoUnit, UnitsOk, UnitRows
  <2>4. StockOk(stock, moves)
    BY <2>1 DEF CatalogInit, NoRow, StockOk, StockRows, MoveRows
  <2>5. ValueOk(stock, moves, inventory)
    <3>1. /\ \A p \in Products : ValueOf(stock)[p] = 0
          /\ \A p \in Products : CountOf(moves)[p] = 0
      BY <2>1 DEF CatalogInit, NoRow, ValueOf, CountOf
    <3>2. SumOf(ValueOf(stock), Products) = 0 /\ Summable(ValueOf(stock), Products)
      BY <3>1, SumOfZero
    <3>3. SumOf(CountOf(moves), Products) = 0 /\ Summable(CountOf(moves), Products)
      BY <3>1, SumOfZero
    <3>4. inventory = 0 /\ Parts * 0 = 0
      BY <2>1, PartsAssumption DEF CatalogInit
    <3> QED
      BY <3>2, <3>3, <3>4 DEF ValueOk
  <2> QED
    BY <2>2, <2>3, <2>4, <2>5 DEF DeskInv
<1>2. DeskInv /\ [Next]_vars => DeskInv'
  <2> SUFFICES ASSUME DeskInv, [Next]_vars
               PROVE  DeskInv'
    OBVIOUS
  <2>1. CASE UNCHANGED deskVars
    BY <2>1, DeskQuiet DEF deskVars, priceVars, productVars, stockVars
  <2>2. CASE DeskNext
    <3>1. CASE ~ importing.underWay /\ PriceWork /\ UNCHANGED stockVars
      BY <3>1, DeskOfPriceWork
    <3>2. CASE ~ importing.underWay /\ CatalogWork
      BY <3>2, DeskOfCatalogWork
    <3>3. CASE UNCHANGED <<priceVars, productVars, stockVars>>
      BY <3>3, DeskQuiet DEF priceVars, productVars, stockVars
    <3>4. CASE ImportWork
      BY <3>4, DeskOfImportWork
    <3>5. CASE ~ importing.underWay /\ \E r \in Requests : Sell(r)
      BY <3>5, DeskOfSale
    <3> QED
      BY <2>2, <3>1, <3>2, <3>3, <3>4, <3>5 DEF DeskNext
  <2> QED
    BY <2>1, <2>2 DEF Next, vars
<1> QED
  BY <1>1, <1>2, PTL DEF Spec

(* Sales are counted.                                                           *)
LEMMA SalesCounted == Spec => [](sales \in Nat)
<1>1. Init => sales \in Nat
  <2>1. Init => sales = 0
    BY DEF Init, DeskInit
  <2> QED
    BY <2>1
<1>2. sales \in Nat /\ [Next]_vars => (sales \in Nat)'
  <2>1. [Next]_vars => sales' = sales \/ sales' = sales + 1
    BY DEF Next, vars, deskVars, DeskNext
  <2> QED
    BY <2>1
<1> QED
  BY <1>1, <1>2, PTL DEF Spec

(* Only a sale touches the stock of a product that has a history: no import of    *)
(* any number of rows does, whichever product each of them means and whatever the *)
(* rows before it opened.                                                         *)
THEOREM LiveStockIsKept == Spec => LiveStockKept
<1> DEFINE Kept == sales' = sales
                    => \A p \in Products :
                         moves[p].opening + moves[p].other > 0
                           => stock'[p] = stock[p]
<1>1. DeskInv /\ sales \in Nat /\ [Next]_vars => [Kept]_deskVars
  <2> SUFFICES ASSUME DeskInv, sales \in Nat, [Next]_vars, ~ UNCHANGED deskVars, sales' = sales
               PROVE  \A p \in Products : moves[p].opening + moves[p].other > 0
                                           => stock'[p] = stock[p]
    OBVIOUS
  <2>1. DeskNext
    BY DEF Next, vars
  <2>2. CASE UNCHANGED stock
    BY <2>2
  <2>3. CASE FinishImport
    <3>1. LiveKept(importing.draft.stock, importing.draft.moves)
      BY <2>3 DEF DeskInv, ImportOk, DraftOk, FinishImport
    <3>2. stock' = importing.draft.stock
      BY <2>3 DEF FinishImport
    <3> QED
      BY <3>1, <3>2 DEF LiveKept
  <2>4. CASE sales' = sales + 1
    BY <2>4
  <2> QED
    BY <2>1, <2>2, <2>3, <2>4
       DEF DeskNext, ImportWork, ImportRow, AbandonImport, CatalogWork, BeginImport,
           CreateProduct, ReplaceProductUnits, stockVars
<1> QED
  BY <1>1, DeskInvAlways, SalesCounted, PTL DEF LiveStockKept, Spec

(* The account of the stock follows its value, whatever it is opened at, sold by  *)
(* and in whatever units: no more than half a rial is lost with each movement.    *)
THEOREM InventoryIsStockValue == Spec => []InventoryFollowsStock
<1>1. DeskInv => InventoryFollowsStock
  <2> SUFFICES ASSUME DeskInv
               PROVE  InventoryFollowsStock
    OBVIOUS
  <2> DEFINE v == SumOf(ValueOf(stock), Products)
             k == SumOf(CountOf(moves), Products)
             pk == Parts * k
             pb == Parts * inventory
  <2>1. /\ inventory \in Int /\ v \in Int /\ k \in Int
        /\ 2 * (Parts * inventory - v) <= Parts * k
        /\ 2 * (v - Parts * inventory) <= Parts * k
    BY DEF DeskInv, ValueOk
  <2>2. pk \in Int /\ pb \in Int /\ -Parts * k = 0 - pk
    BY <2>1, PartsAssumption
  <2>3. 2 * (pb - v) <= pk /\ 2 * (v - pb) <= pk
    BY <2>1
  <2>4. InventoryFollowsStock <=> -Parts * k <= 2 * (pb - v) /\ 2 * (pb - v) <= pk
    BY DEF InventoryFollowsStock, ValueOf, CountOf
  <2> HIDE DEF v, pk, pb
  <2> QED
    BY <2>1, <2>2, <2>3, <2>4
<1> QED
  BY <1>1, DeskInvAlways, PTL

(* Whoever may not undercut the margin never gets a price accepted that leaves    *)
(* less of it, in any unit of whole base units, at any cost and any setting.      *)
THEOREM MarginAlwaysGuarded == Spec => []MarginGuarded
<1>1. DeskInv => MarginGuarded
  <2> SUFFICES ASSUME DeskInv, NEW r \in Requests, r.role \in {"cashier", "edge"},
                      WholeQty(RowOf(r).factor),
                      r.price * Parts * (10000 - margin)
                        < CostOf(r) * RowOf(r).factor * 10000,
                      Accepts(r)
               PROVE  FALSE
    BY DEF MarginGuarded
  <2> DEFINE cost == CostOf(r)
             row == RowOf(r)
             least == MinimumPriceForMargin(cost)
  <2>1. /\ r.product \in Products /\ r.unit \in Units /\ r.price \in Nat
    BY SaleDeskAssumption
  <2>2. cost \in Nat /\ row.factor \in Nat /\ margin \in 0 .. 9000
    <3>1. stock[r.product] \in StockRows /\ unit[r.product][r.unit] \in UnitRows
      BY <2>1 DEF DeskInv, StockOk, UnitsOk
    <3> QED
      BY <3>1 DEF CostOf, RowOf, StockRows, UnitRows, DeskInv
  <2>3. MinAllowedPrice(cost, row) \in Nat
    <3>1. least \in Nat
      BY <2>2, MinimumKeepsMargin
    <3> HIDE DEF least, row
    <3>2. least * row.factor \in Nat
      BY <2>2, <3>1
    <3>3. Rounded(least * row.factor, Parts) \in Nat
      BY <3>2, RoundedValue
    <3> QED
      BY <3>3 DEF MinAllowedPrice, CommercialMoney, least
  <2>4. r.price >= MinAllowedPrice(cost, row)
    <3>1. ~ BelowMargin(r)
      BY DEF Accepts, MayUndercut
    <3> QED
      BY <2>1, <2>3, <3>1 DEF BelowMargin
  <2>5. r.price * Parts * (10000 - margin) >= cost * row.factor * 10000
    <3> DEFINE price == r.price
    <3>1. price \in Nat /\ WholeQty(row.factor) /\ price >= MinAllowedPrice(cost, row)
      BY <2>1, <2>4
    <3> HIDE DEF price, cost, row
    <3>2. price * Parts * (10000 - margin) >= cost * row.factor * 10000
      BY <2>2, <3>1, AllowedPriceKeepsMargin
    <3> QED
      BY <3>2 DEF price
  <2> DEFINE x == r.price * Parts * (10000 - margin)
             y == cost * row.factor * 10000
  <2>6. x \in Int /\ y \in Int
    <3> HIDE DEF cost, row
    <3> QED
      BY <2>1, <2>2, PartsAssumption
  <2>7. x < y /\ x >= y
    BY <2>5
  <2> HIDE DEF x, y
  <2> QED
    BY <2>6, <2>7
<1> QED
  BY <1>1, DeskInvAlways, PTL

-----------------------------------------------------------------------------
(* The price of a unit *)

AtMostOne(S) == \A x, y \in S : x = y

(* One break of a unit begins last, so that there is one price at most.         *)
LEMMA BreakPriceIsOne ==
  ASSUME BreaksOk(breaks), NEW p, NEW l, NEW u, NEW parts
  PROVE  AtMostOne(BreakPrice(p, l, u, parts))
<1> DEFINE reached == {b \in breaks : /\ <<b.product, b.list, b.unit>> = <<p, l, u>>
                                      /\ b.min * Parts <= parts}
           best == {x \in reached : \A y \in reached : y.min <= x.min}
<1>1. ASSUME NEW x \in best, NEW y \in best
      PROVE  x = y
  <2>1. x \in breaks /\ y \in breaks /\ x.min <= y.min /\ y.min <= x.min
    OBVIOUS
  <2>2. x.min = y.min
    BY <2>1 DEF BreaksOk
  <2>3. Key(x) = Key(y)
    BY <2>2 DEF Key
  <2> QED
    BY <2>1, <2>3 DEF BreaksOk
<1>2. BreakPrice(p, l, u, parts) = {b.price : b \in best}
  BY DEF BreakPrice
<1> HIDE DEF best
<1> QED
  BY <1>1, <1>2 DEF AtMostOne

(* One price of a base unit makes one of a pack.                                *)
LEMMA PackPriceIsOne ==
  ASSUME NEW prices, AtMostOne(prices), NEW row
  PROVE  AtMostOne(OfPack(prices, row))
BY DEF AtMostOne, OfPack

(* What is found first among prices each of which is one, if any, is one, if any. *)
LEMMA FirstFoundIsOne ==
  ASSUME NEW tries, \A i \in DOMAIN tries : AtMostOne(tries[i]),
         DOMAIN tries = 1 .. 5
  PROVE  AtMostOne(FirstFound(tries))
<1> DEFINE found == {i \in DOMAIN tries : tries[i] # {}}
<1>1. CASE found = {}
  BY <1>1 DEF FirstFound, AtMostOne
<1>2. CASE found # {}
  <2>1. \E i \in found : \A j \in found : i <= j
    BY <1>2
  <2> DEFINE k == CHOOSE i \in found : \A j \in found : i <= j
  <2>2. k \in found
    BY <2>1
  <2>3. FirstFound(tries) = tries[k]
    BY <1>2 DEF FirstFound
  <2> QED
    BY <2>2, <2>3
<1> QED
  BY <1>1, <1>2

(* A sale that nobody explained is at the price the counter was quoted, whatever  *)
(* the lists, breaks, units and offers: what two packages look up apart is one    *)
(* price at most, and the same one.                                               *)
THEOREM SalesAtTheQuote == Spec => []SalePriceIsQuoted
<1>1. DeskInv => SalePriceIsQuoted
  <2> SUFFICES ASSUME DeskInv, NEW r \in Requests, ~ r.reason, r.source # "edge",
                      Accepts(r)
               PROVE  QuotedPrice(r.product, r.unit, r.qty, r.customer)
                        \in {{}, {r.price}}
    BY DEF SalePriceIsQuoted
  <2> DEFINE quoted == QuotedPrice(r.product, r.unit, r.qty, r.customer)
  <2>1. WithDefault = list
    BY DEF Accepts, WithDefault
  <2>2. SuggestedPrice(r) = quoted
    BY <2>1 DEF SuggestedPrice, QuotedPrice, TierOfBase, RowOf, BaseQtyOf
  <2>3. SuggestedPrice(r) = {} \/ r.price \in SuggestedPrice(r)
    BY DEF Accepts, MayOverridePrice, IsOverride
  <2>4. AtMostOne(quoted)
    <3> DEFINE row == unit[r.product][r.unit]
               chosen == SelectedList(r.customer, WithDefault)
               default == DefaultList(WithDefault)
               own(l) == BreakPrice(r.product, l, r.unit, r.qty * Parts)
               ofBase(l) == IF r.unit = Base THEN {}
                            ELSE OfPack(BreakPrice(r.product, l, Base,
                                                   BaseQty(r.qty, row)), row)
               offered == OfPack(OfferPrice(r.product), row)
               tries == <<own(chosen), own(default), ofBase(chosen),
                          ofBase(default), offered>>
    <3>1. BreaksOk(breaks)
      BY DEF DeskInv
    <3>2. \A l : AtMostOne(own(l))
      BY <3>1, BreakPriceIsOne
    <3>3. \A l : AtMostOne(ofBase(l))
      <4> SUFFICES ASSUME NEW l
                   PROVE  AtMostOne(ofBase(l))
        OBVIOUS
      <4>1. AtMostOne(BreakPrice(r.product, l, Base, BaseQty(r.qty, row)))
        BY <3>1, BreakPriceIsOne
      <4>2. AtMostOne({})
        BY DEF AtMostOne
      <4> QED
        BY <4>1, <4>2, PackPriceIsOne
    <3>4. AtMostOne(offered)
      <4>1. AtMostOne(OfferPrice(r.product))
        BY DEF OfferPrice, AtMostOne
      <4> QED
        BY <4>1, PackPriceIsOne
    <3>5. quoted = FirstFound(tries)
      BY DEF QuotedPrice
    <3> HIDE DEF own, ofBase, offered, chosen, default, row
    <3>6. DOMAIN tries = 1 .. 5 /\ \A i \in DOMAIN tries : AtMostOne(tries[i])
      BY <3>2, <3>3, <3>4
    <3> HIDE DEF tries
    <3> QED
      BY <3>5, <3>6, FirstFoundIsOne
  <2> HIDE DEF quoted
  <2>5. quoted = {} \/ quoted = {r.price}
    BY <2>2, <2>3, <2>4 DEF AtMostOne
  <2> QED
    BY <2>5 DEF quoted
<1> QED
  BY <1>1, DeskInvAlways, PTL
=============================================================================
