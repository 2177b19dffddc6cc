--------------------------- MODULE WalletService ---------------------------
(***************************************************************************)
(* account-service: applyWalletOperation() statement by statement, as      *)
(* PostgreSQL runs it at its default isolation (read committed), and       *)
(* createWallet().  An UPDATE keeps its row locked until its transaction   *)
(* ends; one that waits for it then looks at the new version of the row.   *)
(***************************************************************************)
EXTENDS Integers, FiniteSets, Functions

CONSTANTS
  Wallets, Keys,
  opening,     \* initialBalanceCents of a wallet
  Active,      \* wallets whose status is 'active'; no code changes it
  Requests,    \* the operations that callers ask for
  Clients      \* POST /wallets/:walletId/operations in progress at once

ASSUME WalletAssumption ==
  /\ opening \in [Wallets -> Nat] /\ Active \subseteq Wallets
  /\ Requests \subseteq [wallet : Wallets, key : Keys, delta : Int \ {0}]
  /\ Requests # {}

VARIABLES
  created,     \* wallets that exist
  balance,     \* wallets.balance_cents
  version,     \* wallets.version
  op,          \* delta_cents of wallet_balance_operations, 0 if there is none
  pc,          \* per client the statement that comes next
  posted,      \* per client its request
  answer,      \* per client what it was told
  repeated     \* per client: its operation was on record when it asked

tables == <<created, balance, version, op>>
vars   == <<tables, pc, posted, answer, repeated>>

Recorded(m) == op[m.wallet][m.key] # 0

\* The UPDATE's WHERE clause.
Covers(m) == m.wallet \in created \cap Active /\ balance[m.wallet] + m.delta >= 0

\* An open transaction that has updated its wallet's row.
Holds(c) == pc[c] \in {"insert", "commit"}

TypeOK ==
  /\ created \subseteq Wallets
  /\ balance \in [Wallets -> Nat] /\ version \in [Wallets -> Nat]
  /\ op \in [Wallets -> [Keys -> Int]]
  /\ pc \in [Clients -> {"idle", "find", "update", "insert", "commit"}]
  /\ posted \in [Clients -> Requests]
  /\ answer \in [Clients -> {"none", "ok", "refused", "error"}]
  /\ repeated \in [Clients -> BOOLEAN]

Init ==
  /\ created = {}
  /\ balance = [w \in Wallets |-> 0] /\ version = [w \in Wallets |-> 0]
  /\ op = [w \in Wallets |-> [k \in Keys |-> 0]]
  /\ pc = [c \in Clients |-> "idle"]
  /\ posted = [c \in Clients |-> CHOOSE m \in Requests : TRUE]
  /\ answer = [c \in Clients |-> "none"]
  /\ repeated = [c \in Clients |-> FALSE]

Goto(c, label) == pc' = [pc EXCEPT ![c] = label]

Reply(c, value) == Goto(c, "idle") /\ answer' = [answer EXCEPT ![c] = value]

-----------------------------------------------------------------------------
CreateWallet(w) ==
  /\ w \notin created
  /\ created' = created \cup {w}
  /\ balance' = [balance EXCEPT ![w] = opening[w]]
  /\ UNCHANGED <<version, op, pc, posted, answer, repeated>>

Post(c) ==
  /\ pc[c] = "idle"
  /\ \E m \in Requests :
       /\ posted' = [posted EXCEPT ![c] = m]
       /\ repeated' = [repeated EXCEPT ![c] = Recorded(m)]
  /\ Goto(c, "find")
  /\ answer' = [answer EXCEPT ![c] = "none"]
  /\ UNCHANGED tables

\* Mutations of FindReplay: it comes to nothing; it looks for the key alone.
FindReplayNever(c) ==
  /\ pc[c] = "find"
  /\ Goto(c, "update")
  /\ UNCHANGED <<tables, posted, answer, repeated>>

FindReplayByKey(c) ==
  /\ pc[c] = "find"
  /\ IF \E w \in Wallets : op[w][posted[c].key] # 0
     THEN Reply(c, "ok")
     ELSE Goto(c, "update") /\ UNCHANGED answer
  /\ UNCHANGED <<tables, posted, repeated>>

FindReplay(c) ==
  /\ pc[c] = "find"
  /\ IF Recorded(posted[c])
     THEN Reply(c, "ok")
     ELSE Goto(c, "update") /\ UNCHANGED answer
  /\ UNCHANGED <<tables, posted, repeated>>

\* Mutation of UpdateBalance: it does not wait for the row's lock.
UpdateBalanceDirty(c) ==
  /\ pc[c] = "update" /\ Covers(posted[c])
  /\ Goto(c, "insert")
  /\ UNCHANGED <<tables, posted, answer, repeated>>

\* It waits for the row's lock, and locks it itself.
UpdateBalance(c) ==
  /\ pc[c] = "update" /\ Covers(posted[c])
  /\ \A d \in Clients \ {c} : Holds(d) => posted[d].wallet # posted[c].wallet
  /\ Goto(c, "insert")
  /\ UNCHANGED <<tables, posted, answer, repeated>>

\* No row that is committed fits: 422, without waiting.
Refuse(c) ==
  /\ pc[c] = "update" /\ ~Covers(posted[c])
  /\ Reply(c, "refused")
  /\ UNCHANGED <<tables, posted, repeated>>

\* Mutation of InsertOperation: no unique index.
InsertOperationTwice(c) ==
  /\ pc[c] = "insert"
  /\ Goto(c, "commit")
  /\ UNCHANGED <<tables, posted, answer, repeated>>

\* The unique index undoes the UPDATE of a second operation with the key.
InsertOperation(c) ==
  /\ pc[c] = "insert"
  /\ IF Recorded(posted[c])
     THEN Reply(c, "error")
     ELSE Goto(c, "commit") /\ UNCHANGED answer
  /\ UNCHANGED <<tables, posted, repeated>>

\* The answer may still be lost.
Commit(c) ==
  LET m == posted[c]
      w == m.wallet
  IN
  /\ pc[c] = "commit"
  /\ balance' = [balance EXCEPT ![w] = balance[w] + m.delta]
  /\ version' = [version EXCEPT ![w] = version[w] + 1]
  /\ op' = [op EXCEPT ![w][m.key] = m.delta]
  /\ Reply(c, "ok") \/ Reply(c, "error")
  /\ UNCHANGED <<created, posted, repeated>>

\* A crash, a lost connection or the transaction's timeout, which free the row.
Abort(c) ==
  /\ pc[c] # "idle"
  /\ Reply(c, "error")
  /\ UNCHANGED <<tables, posted, repeated>>

Step(c) ==
  FindReplay(c) \/ UpdateBalance(c) \/ Refuse(c) \/ InsertOperation(c) \/ Commit(c)

Next ==
  \/ \E w \in Wallets : CreateWallet(w)
  \/ \E c \in Clients : Post(c) \/ Step(c) \/ Abort(c)

Spec == Init /\ [][Next]_vars

-----------------------------------------------------------------------------
\* Each balance is what its recorded operations make of the opening balance, and
\* each version counts them, however UPDATEs of the wallet overlap.
BalanceIsHistory ==
  \A w \in created :
    /\ balance[w] = opening[w] + SumFunctionOnSet(op[w], Keys)
    /\ version[w] = Cardinality({k \in Keys : op[w][k] # 0})

\* A caller that is told 200 finds its operation on record, for good.
AnsweredIsRecorded ==
  \A c \in Clients : answer[c] = "ok" => Recorded(posted[c])

\* An operation that was on record is not refused when it is asked for again,
\* though its own effect may have left too little to do it twice.
ReplayIsAccepted ==
  \A c \in Clients : repeated[c] => answer[c] # "refused"

Store == INSTANCE WalletStore

\* The statements amount to one atomic operation.
ImplementsStore == Store!Spec
=============================================================================
