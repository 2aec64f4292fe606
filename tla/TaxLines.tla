------------------------------ MODULE TaxLines ------------------------------
(***************************************************************************)
(* The value added tax of one line (internal/tax/calc.go), in whole rials. *)
(* A rate is in basis points; lines that are exempt have rate 0.           *)
(***************************************************************************)
EXTENDS Integers

Rates == 0 .. 10000

\* The quotient, and one more when twice the remainder reaches the divisor.
RoundedRatio(amount, numerator, denominator) ==
  LET product == amount * numerator
      remainder == product % denominator
  IN  (product \div denominator)
        + (IF 2 * remainder >= denominator THEN 1 ELSE 0)

\* The tax of an amount that it comes on top of, and of one that includes it.
ExclusiveTax(amount, rate) == RoundedRatio(amount, rate, 10000)
InclusiveTax(amount, rate) == RoundedRatio(amount, rate, 10000 + rate)

CalculateLine(amount, rate, mode) ==
  IF mode = "exclusive"
  THEN [base |-> amount, tax |-> ExclusiveTax(amount, rate),
        total |-> amount + ExclusiveTax(amount, rate)]
  ELSE [base |-> amount - InclusiveTax(amount, rate),
        tax |-> InclusiveTax(amount, rate), total |-> amount]
=============================================================================
