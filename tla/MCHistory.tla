----------------------------- MODULE MCHistory -----------------------------
(* A small instance of History for TLC. *)
EXTENDS History

CONSTANTS alice, bob, carol

\* alice pays bob, bob pays carol
Payments == {<<alice, bob>>, <<bob, carol>>}
=============================================================================
