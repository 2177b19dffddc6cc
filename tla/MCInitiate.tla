----------------------------- MODULE MCInitiate -----------------------------
(* Small instances of Initiate for TLC. *)
EXTENDS Initiate, TLC

CONSTANTS r1, r2, r3, r4, r5, k1, k2, q1, usd, eur, bdt

Transfer(amount, from, to) ==
  [cents |-> amount, source |-> from, dest |-> to, quote |-> q1]

\* r1 and its repetition r2; r3 reuses their key for another transfer; r4 has a
\* key of its own and competes for their quote; r5 is not valid.
KeyOf  == [r \in Requests |-> IF r \in {r4, r5} THEN k2 ELSE k1]
BodyOf == [r \in Requests |->
             CASE r \in {r1, r2} -> Transfer(12, eur, usd)
               [] r = r3 -> Transfer(1, usd, eur)
               [] r = r4 -> Transfer(1, eur, usd)
               [] OTHER  -> Transfer(0, eur, usd)]

\* The provider's table: 0.92, 1.09 and 0.00843882, then 118.5 with them.
RatesBelowTen ==
  (<<usd, eur>> :> [n |-> 92, whole |-> 1, frac |-> 2]) @@
  (<<eur, usd>> :> [n |-> 109, whole |-> 1, frac |-> 2]) @@
  (<<bdt, usd>> :> [n |-> 843882, whole |-> 1, frac |-> 8])
AllRates ==
  RatesBelowTen @@ (<<usd, bdt>> :> [n |-> 1185, whole |-> 3, frac |-> 1])

\* A transfer of 12 cents from usd to bdt.
BodyOfBdt == [r \in Requests |-> Transfer(12, usd, bdt)]
=============================================================================
