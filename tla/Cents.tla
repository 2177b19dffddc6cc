------------------------------- MODULE Cents -------------------------------
(***************************************************************************)
(* Conversion of an amount at a quoted rate.  The rate is a Prisma.Decimal  *)
(* that has passed through JSON: a numeral without trailing zeros, as in    *)
(* "118.5" or "0.92".  It is given by the number n that its digits spell    *)
(* without the point and by how many digits stand before and after it.      *)
(***************************************************************************)
EXTENDS Naturals

\* fx_quotes.rate is NUMERIC(18, 8).
Numerals == [n : Nat, whole : 1 .. 10, frac : 0 .. 8]

Pow10(k) == <<1, 10, 100, 1000, 10000, 100000, 1000000, 10000000, 100000000,
              1000000000>>[k + 1]

Digits(rate) == rate.whole + rate.frac

\* rate.replace(".", "").padEnd(9, "0")
Padded(rate) ==
  IF Digits(rate) < 9 THEN rate.n * Pow10(9 - Digits(rate)) ELSE rate.n

cents(amount, rate) == (amount * Padded(rate)) \div 100000000

\* What the amount is worth at that rate, a part of a cent dropped.
Worth(amount, rate) == (amount * rate.n) \div Pow10(rate.frac)
=============================================================================
