----------------------------- MODULE MCPayroll -----------------------------
(* Small instances of Payroll for TLC. *)
EXTENDS PayrollInv

CONSTANTS j1, j2, acme, s1, s2

SameEmployer == [j \in Jobs |-> acme]
Sizes        == [j \in Jobs |-> IF j = j1 THEN 2 ELSE 1]
=============================================================================
