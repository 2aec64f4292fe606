------------------------------ MODULE TaxDesk ------------------------------
(***************************************************************************)
(* The taxes of a store and its official invoices (internal/tax): settings, *)
(* versions of rates, the code of a product, and the numbers of invoices.  *)
(* What an invoice prints besides, and the width of its number, is left     *)
(* out.                                                                    *)
(***************************************************************************)
EXTENDS TaxLines, ProductUnits, Sequences

CONSTANTS
  Codes,          \* tax codes
  NoCode,
  Series,         \* the series of official invoices
  LastDay         \* bound: the last day

ASSUME TaxDeskAssumption ==
  /\ NoCode \notin Codes
  /\ "A" \in Series
  /\ LastDay \in Nat

VARIABLES
  taxes,      \* the store's row of store_tax_settings, and is the seller named
  rates,      \* rows of tax_rates
  codeOf,     \* product -> code of its own
  invoices,   \* official invoices in the order they were issued
  today

taxVars == <<taxes, rates, codeOf, invoices, today>>

Settings ==
  [enabled : BOOLEAN, onNormal : BOOLEAN, mode : {"exclusive", "inclusive"},
   invoice : {"normal", "official"}, code : Codes \cup {NoCode},
   series : Series, next : Nat, seller : BOOLEAN]

\* The settings a store is provisioned with (external: the migration).
Provisioned ==
  [enabled |-> FALSE, onNormal |-> FALSE, mode |-> "exclusive",
   invoice |-> "normal", code |-> NoCode, series |-> "A", next |-> 1,
   seller |-> FALSE]

TaxInit ==
  /\ taxes = Provisioned
  /\ rates = {}
  /\ codeOf = [p \in Products |-> NoCode]
  /\ invoices = <<>>
  /\ today = 0

\* A default code must have versions only while taxes are enabled.
ValidSettings(new) ==
  /\ new.next >= 1
  /\ new.enabled /\ new.code # NoCode => \E r \in rates : r.code = new.code

\* Mistake: the next number is set as it comes.
UpdateTaxSettingsAsGiven(new) ==
  /\ ValidSettings(new)
  /\ taxes' = new
  /\ UNCHANGED <<rates, codeOf, invoices, today>>

\* GREATEST(next_official_number, new).
UpdateTaxSettings(new) ==
  /\ ValidSettings(new)
  /\ taxes' = [new EXCEPT !.next = IF @ < taxes.next THEN taxes.next ELSE @]
  /\ UNCHANGED <<rates, codeOf, invoices, today>>

\* One version for each code and first day.
UpsertRate(new) ==
  /\ new.rate \in Rates
  /\ new.from <= new.to
  /\ rates' = {r \in rates : <<r.code, r.from>> # <<new.code, new.from>>}
                \cup {new}
  /\ UNCHANGED <<taxes, codeOf, invoices, today>>

AssignProductTaxCode(p, code) ==
  /\ code = NoCode \/ \E r \in rates : r.code = code
  /\ codeOf' = [codeOf EXCEPT ![p] = code]
  /\ UNCHANGED <<taxes, rates, invoices, today>>

NextDay ==
  /\ today < LastDay
  /\ today' = today + 1
  /\ UNCHANGED <<taxes, rates, codeOf, invoices>>

-----------------------------------------------------------------------------
(* ResolveQuote, for a sale in an invoice mode, "" for the store's own.  What *)
(* is looked up is a set, empty where the code answers an error.             *)

InvoiceMode(asked) == IF asked = "" THEN taxes.invoice ELSE asked
Applied(mode) == taxes.enabled /\ (mode = "official" \/ taxes.onNormal)
CodeOf(p) == IF codeOf[p] = NoCode THEN taxes.code ELSE codeOf[p]

\* The version in effect: the latest one that is active and has not ended.
RateOf(p) ==
  LET current == {r \in rates : /\ r.code = CodeOf(p) /\ r.active
                                /\ r.from <= today /\ today <= r.to}
  IN  {r \in current : \A x \in current : x.from <= r.from}

LineOf(p, amount, mode) ==
  IF Applied(mode)
  THEN {CalculateLine(amount, r.rate, taxes.mode) : r \in RateOf(p)}
  ELSE {[base |-> amount, tax |-> 0, total |-> amount]}

\* An official invoice needs a seller, and cannot come from an edge device.
InvoiceAllowed(mode, source) ==
  mode = "official" => source # "edge" /\ taxes.seller

\* AllocateOfficialNumber; a series has each number once (unique index).
NumberFree ==
  \A i \in DOMAIN invoices :
    <<invoices[i].series, invoices[i].number>> # <<taxes.series, taxes.next>>

IssueInvoice(mode) ==
  IF mode = "official"
  THEN /\ NumberFree
       /\ invoices' = Append(invoices, [series |-> taxes.series,
                                        number |-> taxes.next,
                                        state |-> "issued"])
       /\ taxes' = [taxes EXCEPT !.next = @ + 1]
       /\ UNCHANGED <<rates, codeOf, today>>
  ELSE UNCHANGED taxVars

RequestInvoiceAction(i, type) ==
  /\ i \in DOMAIN invoices
  /\ invoices[i].state = "issued"
  /\ invoices' = [invoices EXCEPT ![i].state =
                    IF type = "correction" THEN "correction_requested"
                    ELSE "cancellation_requested"]
  /\ UNCHANGED <<taxes, rates, codeOf, today>>
=============================================================================
