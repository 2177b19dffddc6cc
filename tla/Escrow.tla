------------------------------- MODULE Escrow -------------------------------
(***************************************************************************)
(* What a transfer promises.  The sender's money is taken once, if it is   *)
(* there; from then on it is held for exactly one of two ends: the         *)
(* recipient is paid, or the sender gets it back.  A verdict is announced  *)
(* after the end it names, once, and never changes.                        *)
(***************************************************************************)
EXTENDS Naturals

CONSTANTS Txs, Wallets, sender, recipient, amount, quoted, initial

VARIABLES
  phase,    \* where the money of a transfer is
  verdict,  \* what the sender is told
  balance

vars == <<phase, verdict, balance>>

Init ==
  /\ phase = [t \in Txs |-> "sender"]
  /\ verdict = [t \in Txs |-> "open"]
  /\ balance = initial

Move(t, from, to) == phase[t] = from /\ phase' = [phase EXCEPT ![t] = to]

Hold(t) ==
  /\ Move(t, "sender", "held")
  /\ verdict[t] = "open"
  /\ balance[sender[t]] >= amount[t]
  /\ balance' = [balance EXCEPT ![sender[t]] = @ - amount[t]]
  /\ UNCHANGED verdict

Pay(t) ==
  /\ Move(t, "held", "recipient")
  /\ \E cents \in {amount[t], quoted[t]} :
       balance' = [balance EXCEPT ![recipient[t]] = @ + cents]
  /\ UNCHANGED verdict

Refund(t) ==
  /\ Move(t, "held", "refunded")
  /\ balance' = [balance EXCEPT ![sender[t]] = @ + amount[t]]
  /\ UNCHANGED verdict

VerdictOf(p) ==
  CASE p = "recipient" -> "COMPLETED"
    [] p = "refunded"  -> "REVERSED"
    [] p = "sender"    -> "FAILED"
    [] OTHER           -> "open"

\* FAILED is announced only of a transfer that never took any money.
Announce(t) ==
  /\ verdict[t] = "open"
  /\ verdict' = [verdict EXCEPT ![t] = VerdictOf(phase[t])]
  /\ UNCHANGED <<phase, balance>>

Next == \E t \in Txs : Hold(t) \/ Pay(t) \/ Refund(t) \/ Announce(t)

Spec == Init /\ [][Next]_vars
=============================================================================
