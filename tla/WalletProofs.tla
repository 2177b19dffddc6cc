---------------------------- MODULE WalletProofs ----------------------------
(***************************************************************************)
(* Proofs about WalletService, for every set of wallets, keys, requests and*)
(* clients: its statements amount to the atomic operations of WalletStore. *)
(***************************************************************************)
EXTENDS WalletService, SumTheorems, TLAPS

\* One operation more in the history of a wallet.
LEMMA HistoryInt ==
  ASSUME IsFiniteSet(Keys), NEW f, \A x \in Keys : f[x] \in Int
  PROVE  SumFunctionOnSet(f, Keys) \in Int
BY SumInt

LEMMA HistoryGrows ==
  ASSUME IsFiniteSet(Keys), NEW f, NEW g, NEW k \in Keys,
         \A x \in Keys : f[x] \in Int, \A x \in Keys : g[x] \in Int,
         \A x \in Keys : x # k => f[x] = g[x], f[k] = 0
  PROVE  SumFunctionOnSet(g, Keys) = SumFunctionOnSet(f, Keys) + g[k]
<1>1. SumFunctionOnSet(g, Keys) = SumFunctionOnSet(f, Keys) + (g[k] - f[k])
  BY SumChange
<1>2. PICK s \in Int : s = SumFunctionOnSet(f, Keys)
  BY SumInt
<1>3. g[k] - f[k] = g[k] /\ g[k] \in Int
  OBVIOUS
<1>4. SumFunctionOnSet(g, Keys) = s + (g[k] - f[k])
  BY <1>1, <1>2, Zenon
<1> QED
  BY <1>2, <1>3, <1>4

LEMMA HistoryCounts ==
  ASSUME IsFiniteSet(Keys), NEW f, NEW g, NEW k \in Keys,
         \A x \in Keys : x # k => f[x] = g[x], f[k] = 0, g[k] # 0
  PROVE  Cardinality({x \in Keys : g[x] # 0})
           = Cardinality({x \in Keys : f[x] # 0}) + 1
<1> DEFINE A == {x \in Keys : f[x] # 0}
           B == {x \in Keys : g[x] # 0}
<1>1. B = A \cup {k} /\ k \notin A
  OBVIOUS
<1>2. IsFiniteSet(A)
  BY FS_Subset
<1> HIDE DEF A, B
<1>3. Cardinality(B) = Cardinality(A) + 1
  BY <1>1, <1>2, FS_AddElement
<1> QED
  BY <1>3 DEF A, B

\* A wallet with no operation has no history.
LEMMA NoHistory ==
  ASSUME IsFiniteSet(Keys), NEW f, \A x \in Keys : f[x] = 0
  PROVE  /\ SumFunctionOnSet(f, Keys) = 0
         /\ Cardinality({x \in Keys : f[x] # 0}) = 0
<1>1. {x \in Keys : f[x] # 0} = {}
  OBVIOUS
<1> QED
  BY <1>1, SumZero, FS_EmptySet

USE WalletAssumption

\* The row's lock: one open transaction per wallet, and what its UPDATE saw is
\* still so; nothing is recorded for it before it commits.
LockInv ==
  /\ \A c, d \in Clients :
       Holds(c) /\ Holds(d) /\ posted[c].wallet = posted[d].wallet => c = d
  /\ \A c \in Clients : Holds(c) => Covers(posted[c])
  /\ \A c \in Clients : pc[c] = "commit" => ~Recorded(posted[c])

\* A request that asks again finds its operation, and never gets to the UPDATE.
AskedInv ==
  \A c \in Clients : repeated[c] =>
    Recorded(posted[c]) /\ pc[c] \in {"idle", "find"} /\ answer[c] # "refused"

WalletInv == TypeOK /\ LockInv /\ AskedInv /\ AnsweredIsRecorded

LEMMA RequestType ==
  ASSUME NEW m \in Requests
  PROVE  /\ m.wallet \in Wallets /\ m.key \in Keys
         /\ m.delta \in Int /\ m.delta # 0
OBVIOUS

LEMMA InitInv == Init => WalletInv
<1> SUFFICES ASSUME Init PROVE WalletInv
  OBVIOUS
<1>1. (CHOOSE m \in Requests : TRUE) \in Requests
  OBVIOUS
<1>2. TypeOK
  BY <1>1 DEF Init, TypeOK
<1>3. LockInv /\ AskedInv /\ AnsweredIsRecorded
  BY DEF Init, LockInv, AskedInv, AnsweredIsRecorded, Holds
<1> QED BY <1>2, <1>3 DEF WalletInv

\* Steps that leave the tables alone.
LEMMA TypeKept ==
  ASSUME TypeOK, UNCHANGED tables,
         pc' \in [Clients -> {"idle", "find", "update", "insert", "commit"}],
         posted' \in [Clients -> Requests],
         answer' \in [Clients -> {"none", "ok", "refused", "error"}],
         repeated' \in [Clients -> BOOLEAN]
  PROVE  TypeOK'
BY DEF TypeOK, tables

\* A client that answers, and holds no row any more, keeps the invariant, if
\* what it says is true.
LEMMA ReplyKeeps ==
  ASSUME WalletInv, NEW c \in Clients, NEW value \in {"ok", "refused", "error"},
         Reply(c, value), UNCHANGED <<tables, posted, repeated>>,
         value = "ok" => Recorded(posted[c]), value = "refused" => ~repeated[c]
  PROVE  WalletInv'
<1>1. /\ pc' = [pc EXCEPT ![c] = "idle"] /\ answer' = [answer EXCEPT ![c] = value]
      /\ TypeOK /\ LockInv /\ AskedInv /\ AnsweredIsRecorded
  BY DEF Reply, Goto, WalletInv
<1>2. TypeOK'
  BY <1>1, TypeKept DEF TypeOK
<1>3. LockInv'
  BY <1>1 DEF LockInv, Holds, Covers, Recorded, TypeOK, tables
<1>4. AskedInv'
  BY <1>1 DEF AskedInv, Recorded, TypeOK, tables
<1>5. AnsweredIsRecorded'
  BY <1>1 DEF AnsweredIsRecorded, Recorded, TypeOK, tables
<1> QED BY <1>2, <1>3, <1>4, <1>5 DEF WalletInv

\* A commit of a client that holds its wallet's row.
LEMMA CommitEffect ==
  ASSUME WalletInv, NEW c \in Clients, Commit(c)
  PROVE  /\ Store!Apply(posted[c])
         /\ \A m \in Requests : Recorded(m) => Recorded(m)'
         /\ \A d \in Clients \ {c} : Holds(d) => Covers(posted[d])'
         /\ \A d \in Clients \ {c} : pc[d] = "commit" => ~Recorded(posted[d])'
<1> DEFINE m == posted[c]
<1>0. /\ TypeOK /\ LockInv /\ m \in Requests /\ Holds(c) /\ Covers(m) /\ ~Recorded(m)
      /\ m.wallet \in Wallets /\ m.key \in Keys /\ m.delta \in Int /\ m.delta # 0
  BY RequestType DEF WalletInv, LockInv, TypeOK, Commit, Holds
<1>1. /\ balance' = [balance EXCEPT ![m.wallet] = balance[m.wallet] + m.delta]
      /\ op' = [op EXCEPT ![m.wallet][m.key] = m.delta]
      /\ UNCHANGED <<created, posted>>
  BY DEF Commit
<1> HIDE DEF m
<1>2. Store!Apply(m)
  BY <1>0, <1>1 DEF Store!Apply, Covers, Recorded
<1>3. \A n \in Requests : Recorded(n) => Recorded(n)'
  BY <1>0, <1>1, RequestType DEF Recorded, TypeOK
<1>4. ASSUME NEW d \in Clients \ {c}, Holds(d)
      PROVE  /\ posted[d].wallet # m.wallet /\ posted[d] \in Requests
             /\ posted[d].wallet \in Wallets
  BY <1>0, <1>4, RequestType DEF LockInv, TypeOK, m
<1>5. ASSUME NEW d \in Clients \ {c}, Holds(d)
      PROVE  Covers(posted[d])'
  BY <1>0, <1>1, <1>4, <1>5 DEF LockInv, Covers, TypeOK
<1>6. ASSUME NEW d \in Clients \ {c}, pc[d] = "commit"
      PROVE  ~Recorded(posted[d])'
  BY <1>0, <1>1, <1>4, <1>6 DEF LockInv, Recorded, TypeOK, Holds
<1> QED BY <1>2, <1>3, <1>5, <1>6 DEF m

LEMMA CommitKeeps ==
  ASSUME WalletInv, NEW c \in Clients, Commit(c)
  PROVE  WalletInv'
<1> DEFINE m == posted[c]
<1>0. /\ TypeOK /\ LockInv /\ AskedInv /\ AnsweredIsRecorded
      /\ m \in Requests /\ Covers(m) /\ pc[c] = "commit" /\ ~repeated[c]
      /\ m.wallet \in Wallets /\ m.key \in Keys /\ m.delta \in Int /\ m.delta # 0
  BY RequestType DEF WalletInv, LockInv, AskedInv, TypeOK, Commit, Holds
<1>1. /\ balance' = [balance EXCEPT ![m.wallet] = balance[m.wallet] + m.delta]
      /\ version' = [version EXCEPT ![m.wallet] = version[m.wallet] + 1]
      /\ op' = [op EXCEPT ![m.wallet][m.key] = m.delta]
      /\ pc' = [pc EXCEPT ![c] = "idle"]
      /\ UNCHANGED <<created, posted, repeated>>
  BY DEF Commit, Reply, Goto
<1>2. PICK value \in {"ok", "error"} : answer' = [answer EXCEPT ![c] = value]
  BY DEF Commit, Reply
<1> HIDE DEF m
<1>3. /\ \A n \in Requests : Recorded(n) => Recorded(n)'
      /\ \A d \in Clients \ {c} : Holds(d) => Covers(posted[d])'
      /\ \A d \in Clients \ {c} : pc[d] = "commit" => ~Recorded(posted[d])'
  BY CommitEffect
<1>4. op'[m.wallet][m.key] # 0
  BY <1>0, <1>1 DEF TypeOK
<1>5. TypeOK'
  BY <1>0, <1>1, <1>2 DEF TypeOK, Covers
<1>6. \A d \in Clients : Holds(d)' => d # c /\ Holds(d) /\ posted'[d] = posted[d]
  BY <1>0, <1>1 DEF Holds, TypeOK
<1>7. LockInv'
  <2>1. \A d, e \in Clients :
          Holds(d)' /\ Holds(e)' /\ posted'[d].wallet = posted'[e].wallet => d = e
    BY <1>0, <1>6 DEF LockInv
  <2>2. \A d \in Clients : Holds(d)' => Covers(posted[d])'
    BY <1>3, <1>6
  <2>3. \A d \in Clients : pc'[d] = "commit" => ~Recorded(posted[d])'
    BY <1>0, <1>1, <1>3 DEF TypeOK
  <2> QED BY <2>1, <2>2, <2>3 DEF LockInv
<1>8. AskedInv'
  <2> SUFFICES ASSUME NEW d \in Clients, repeated'[d]
               PROVE  /\ Recorded(posted[d])' /\ pc'[d] \in {"idle", "find"}
                      /\ answer'[d] # "refused"
    BY DEF AskedInv
  <2>1. d # c /\ posted[d] \in Requests
    BY <1>0, <1>1 DEF TypeOK
  <2>2. Recorded(posted[d])'
    BY <1>0, <1>1, <1>3, <2>1 DEF AskedInv, Recorded
  <2> QED BY <1>0, <1>1, <1>2, <2>1, <2>2 DEF AskedInv, TypeOK
<1>9. AnsweredIsRecorded'
  <2> SUFFICES ASSUME NEW d \in Clients, answer'[d] = "ok"
               PROVE  Recorded(posted[d])'
    BY DEF AnsweredIsRecorded
  <2>1. CASE d = c
    BY <1>1, <1>4, <2>1 DEF Recorded, m
  <2>2. CASE d # c
    <3>1. Recorded(posted[d]) /\ posted[d] \in Requests
      BY <1>0, <1>2, <2>2 DEF AnsweredIsRecorded, TypeOK
    <3> QED BY <1>1, <1>3, <3>1 DEF Recorded
  <2> QED BY <2>1, <2>2
<1> QED BY <1>5, <1>7, <1>8, <1>9 DEF WalletInv

LEMMA StepInv ==
  ASSUME WalletInv, [Next]_vars
  PROVE  WalletInv'
<1>0. TypeOK /\ LockInv /\ AskedInv /\ AnsweredIsRecorded
  BY DEF WalletInv
<1>1. ASSUME NEW w \in Wallets, CreateWallet(w)
      PROVE  WalletInv'
  <2>1. TypeOK'
    BY <1>0, <1>1 DEF CreateWallet, TypeOK
  <2>2. \A m \in Requests : (Covers(m) => Covers(m)') /\ (Recorded(m)' <=> Recorded(m))
    BY <1>0, <1>1, RequestType DEF CreateWallet, Covers, Recorded, TypeOK
  <2>3. UNCHANGED <<op, pc, posted, answer, repeated>>
    BY <1>1 DEF CreateWallet
  <2>4. \A c \in Clients : posted[c] \in Requests
    BY <1>0 DEF TypeOK
  <2>5. \A c \in Clients : Holds(c) => Covers(posted[c])'
    BY <1>0, <2>2, <2>4, <2>3 DEF LockInv, Covers
  <2>6. LockInv'
    BY <1>0, <2>3, <2>5 DEF LockInv, Recorded, Holds
  <2>7. AskedInv' /\ AnsweredIsRecorded'
    BY <1>0, <2>3 DEF AskedInv, AnsweredIsRecorded, Recorded
  <2> QED BY <2>1, <2>6, <2>7 DEF WalletInv
<1>2. ASSUME NEW c \in Clients, Post(c)
      PROVE  WalletInv'
  <2>1. PICK m \in Requests : /\ posted' = [posted EXCEPT ![c] = m]
                              /\ repeated' = [repeated EXCEPT ![c] = Recorded(m)]
    BY <1>2 DEF Post
  <2>2. /\ pc[c] = "idle" /\ pc' = [pc EXCEPT ![c] = "find"]
        /\ answer' = [answer EXCEPT ![c] = "none"] /\ UNCHANGED tables
    BY <1>2 DEF Post, Goto
  <2>3. Recorded(m) \in BOOLEAN
    BY DEF Recorded
  <2>4. TypeOK'
    BY <1>0, <2>1, <2>2, <2>3, TypeKept DEF TypeOK
  <2>5. LockInv'
    BY <1>0, <2>1, <2>2 DEF LockInv, Holds, Covers, Recorded, TypeOK, tables
  <2>6. AskedInv'
    BY <1>0, <2>1, <2>2 DEF AskedInv, Recorded, TypeOK, tables
  <2>7. AnsweredIsRecorded'
    BY <1>0, <2>1, <2>2 DEF AnsweredIsRecorded, Recorded, TypeOK, tables
  <2> QED BY <2>4, <2>5, <2>6, <2>7 DEF WalletInv
<1>3. ASSUME NEW c \in Clients, FindReplay(c)
      PROVE  WalletInv'
  <2>1. CASE Recorded(posted[c])
    BY <1>3, <2>1, ReplyKeeps DEF FindReplay
  <2>2. CASE ~Recorded(posted[c])
    <3>1. /\ pc' = [pc EXCEPT ![c] = "update"] /\ ~repeated[c]
          /\ UNCHANGED <<tables, posted, answer, repeated>>
      BY <1>0, <1>3, <2>2 DEF FindReplay, Goto, AskedInv
    <3>2. TypeOK'
      BY <1>0, <3>1, TypeKept DEF TypeOK
    <3>3. LockInv' /\ AskedInv' /\ AnsweredIsRecorded'
      BY <1>0, <3>1 DEF LockInv, AskedInv, AnsweredIsRecorded, Holds, Covers, Recorded,
                        TypeOK, tables
    <3> QED BY <3>2, <3>3 DEF WalletInv
  <2> QED BY <2>1, <2>2
<1>4. ASSUME NEW c \in Clients, UpdateBalance(c)
      PROVE  WalletInv'
  <2>1. /\ pc[c] = "update" /\ pc' = [pc EXCEPT ![c] = "insert"] /\ ~repeated[c]
        /\ Covers(posted[c])
        /\ \A d \in Clients \ {c} : Holds(d) => posted[d].wallet # posted[c].wallet
        /\ UNCHANGED <<tables, posted, answer, repeated>>
    BY <1>0, <1>4 DEF UpdateBalance, Goto, AskedInv
  <2>2. TypeOK'
    BY <1>0, <2>1, TypeKept DEF TypeOK
  <2>3. LockInv'
    BY <1>0, <2>1 DEF LockInv, Holds, Covers, Recorded, TypeOK, tables
  <2>4. AskedInv' /\ AnsweredIsRecorded'
    BY <1>0, <2>1 DEF AskedInv, AnsweredIsRecorded, Recorded, TypeOK, tables
  <2> QED BY <2>2, <2>3, <2>4 DEF WalletInv
<1>5. ASSUME NEW c \in Clients, Refuse(c)
      PROVE  WalletInv'
  <2>1. ~repeated[c]
    BY <1>0, <1>5 DEF Refuse, AskedInv
  <2> QED BY <1>5, <2>1, ReplyKeeps DEF Refuse
<1>6. ASSUME NEW c \in Clients, InsertOperation(c)
      PROVE  WalletInv'
  <2>1. CASE Recorded(posted[c])
    BY <1>6, <2>1, ReplyKeeps DEF InsertOperation
  <2>2. CASE ~Recorded(posted[c])
    <3>1. /\ pc[c] = "insert" /\ pc' = [pc EXCEPT ![c] = "commit"] /\ ~repeated[c]
          /\ UNCHANGED <<tables, posted, answer, repeated>>
      BY <1>0, <1>6, <2>2 DEF InsertOperation, Goto, AskedInv
    <3>2. TypeOK'
      BY <1>0, <3>1, TypeKept DEF TypeOK
    <3>3. LockInv'
      BY <1>0, <2>2, <3>1 DEF LockInv, Holds, Covers, Recorded, TypeOK, tables
    <3>4. AskedInv' /\ AnsweredIsRecorded'
      BY <1>0, <3>1 DEF AskedInv, AnsweredIsRecorded, Recorded, TypeOK, tables
    <3> QED BY <3>2, <3>3, <3>4 DEF WalletInv
  <2> QED BY <2>1, <2>2
<1>7. ASSUME NEW c \in Clients, Abort(c)
      PROVE  WalletInv'
  BY <1>7, ReplyKeeps DEF Abort
<1>8. CASE UNCHANGED vars
  BY <1>0, <1>8 DEF WalletInv, TypeOK, LockInv, AskedInv, AnsweredIsRecorded, Holds,
                    Covers, Recorded, vars, tables
<1> QED
  BY <1>1, <1>2, <1>3, <1>4, <1>5, <1>6, <1>7, <1>8, CommitKeeps DEF Next, Step

-----------------------------------------------------------------------------
(* The theorems.                                                           *)

LEMMA WalletInvAlways == Spec => []WalletInv
<1>1. WalletInv /\ [Next]_vars => WalletInv'
  BY StepInv
<1> QED BY <1>1, InitInv, PTL DEF Spec

\* Every reachable state is typed: no balance is below zero, whatever UPDATEs
\* of a wallet overlap.
THEOREM NoOverdraft == Spec => []TypeOK
<1>1. WalletInv => TypeOK
  BY DEF WalletInv
<1> QED BY <1>1, WalletInvAlways, PTL

\* What applyWalletOperation() has answered with 200 is on record.
THEOREM AnswersAreTrue == Spec => []AnsweredIsRecorded
<1>1. WalletInv => AnsweredIsRecorded
  BY DEF WalletInv
<1> QED BY <1>1, WalletInvAlways, PTL

\* An operation that is on record when it is asked for again is never refused.
THEOREM ReplaysAreAccepted == Spec => []ReplayIsAccepted
<1>1. WalletInv => ReplayIsAccepted
  BY DEF WalletInv, AskedInv, ReplayIsAccepted
<1> QED BY <1>1, WalletInvAlways, PTL

\* Every step of the statements is an operation of WalletStore or changes none of
\* its tables.
LEMMA StoreStep ==
  ASSUME WalletInv, [Next]_vars
  PROVE  [Store!Next]_<<created, balance, op>>
<1>1. ASSUME NEW w \in Wallets, CreateWallet(w)
      PROVE  Store!Next
  <2>1. Store!CreateWallet(w)
    BY <1>1 DEF CreateWallet, Store!CreateWallet
  <2> QED BY <2>1 DEF Store!Next
<1>2. ASSUME NEW c \in Clients, Commit(c)
      PROVE  Store!Next
  <2>1. posted[c] \in Requests /\ Store!Apply(posted[c])
    BY <1>2, CommitEffect DEF WalletInv, TypeOK
  <2> QED BY <2>1 DEF Store!Next
<1>3. ASSUME NEW c \in Clients,
             \/ Post(c) \/ FindReplay(c) \/ UpdateBalance(c) \/ Refuse(c)
             \/ InsertOperation(c) \/ Abort(c)
      PROVE  UNCHANGED <<created, balance, op>>
  BY <1>3 DEF Post, FindReplay, UpdateBalance, Refuse, InsertOperation, Abort, tables
<1>4. CASE UNCHANGED vars
  BY <1>4 DEF vars, tables
<1> QED BY <1>1, <1>2, <1>3, <1>4 DEF Next, Step

\* account-service keeps its promise: statements under read committed isolation,
\* a row lock and a unique index amount to atomic operations, once per key.
THEOREM ServiceImplementsStore == Spec => ImplementsStore
<1>1. Init => Store!Init
  BY DEF Init, Store!Init
<1>2. WalletInv /\ [Next]_vars => [Store!Next]_<<created, balance, op>>
  BY StoreStep
<1> QED BY <1>1, <1>2, WalletInvAlways, PTL DEF Spec, ImplementsStore, Store!Spec

-----------------------------------------------------------------------------
(* Balances and versions.                                                  *)

Unused(w) == version[w] = 0 /\ \A k \in Keys : op[w][k] = 0

Told(w) ==
  /\ balance[w] = opening[w] + SumFunctionOnSet(op[w], Keys)
  /\ version[w] = Cardinality({k \in Keys : op[w][k] # 0})

\* A wallet that does not exist yet has no operations either.
HistoryInv == \A w \in Wallets : IF w \in created THEN Told(w) ELSE Unused(w)

LEMMA HistoryStep ==
  ASSUME IsFiniteSet(Keys), WalletInv, HistoryInv, [Next]_vars
  PROVE  HistoryInv'
<1>1. ASSUME UNCHANGED tables PROVE HistoryInv'
  BY <1>1 DEF tables, HistoryInv, Told, Unused
<1>2. ASSUME NEW w \in Wallets, CreateWallet(w) PROVE HistoryInv'
  <2> SUFFICES ASSUME NEW v \in Wallets
               PROVE  (IF v \in created THEN Told(v) ELSE Unused(v))'
    BY DEF HistoryInv
  <2>1. /\ w \notin created /\ created' = created \cup {w}
        /\ balance' = [balance EXCEPT ![w] = opening[w]]
        /\ version' = version /\ op' = op
    BY <1>2 DEF CreateWallet
  <2>2. CASE v # w
    <3>1. balance'[v] = balance[v] /\ (v \in created' <=> v \in created)
      BY <2>1, <2>2 DEF WalletInv, TypeOK
    <3> QED
      BY <2>1, <3>1 DEF HistoryInv, Told, Unused
  <2>3. CASE v = w
    <3>1. balance'[w] = opening[w] /\ w \in created' /\ Unused(w)
      BY <2>1 DEF WalletInv, TypeOK, HistoryInv
    <3>2. PICK f : f = op[w]
      OBVIOUS
    <3>3. /\ SumFunctionOnSet(op[w], Keys) = 0
          /\ Cardinality({k \in Keys : op[w][k] # 0}) = 0
      BY <3>1, <3>2, NoHistory DEF Unused
    <3>4. opening[w] \in Nat /\ version[w] = 0
      BY <3>1 DEF Unused
    <3> QED
      BY <2>1, <2>3, <3>1, <3>3, <3>4 DEF Told
  <2> QED
    BY <2>2, <2>3
<1>3. ASSUME NEW c \in Clients, Commit(c) PROVE HistoryInv'
  <2> DEFINE m == posted[c]
  <2> SUFFICES ASSUME NEW v \in Wallets
               PROVE  (IF v \in created THEN Told(v) ELSE Unused(v))'
    BY DEF HistoryInv
  <2>0. TypeOK /\ m \in Requests
    BY DEF WalletInv, TypeOK
  <2>1. /\ m.wallet \in created /\ ~Recorded(m)
        /\ m.wallet \in Wallets /\ m.key \in Keys
        /\ m.delta \in Int /\ m.delta # 0
    BY <1>3, <2>0, RequestType DEF WalletInv, LockInv, Commit, Holds, Covers
  <2>2. /\ balance' = [balance EXCEPT ![m.wallet] = balance[m.wallet] + m.delta]
        /\ version' = [version EXCEPT ![m.wallet] = version[m.wallet] + 1]
        /\ op' = [op EXCEPT ![m.wallet][m.key] = m.delta]
        /\ created' = created
    BY <1>3 DEF Commit
  <2> HIDE DEF m
  <2>3. CASE v # m.wallet
    <3>1. balance'[v] = balance[v] /\ version'[v] = version[v] /\ op'[v] = op[v]
      BY <2>0, <2>2, <2>3 DEF TypeOK
    <3> QED
      BY <2>2, <3>1 DEF HistoryInv, Told, Unused
  <2>4. CASE v = m.wallet
    <3>1. Told(v) /\ v \in created'
      BY <2>1, <2>2, <2>4 DEF HistoryInv
    <3>2. /\ balance'[v] = balance[v] + m.delta
          /\ version'[v] = version[v] + 1
      BY <2>0, <2>2, <2>4 DEF TypeOK
    <3>3. PICK f, g : f = op[v] /\ g = op'[v]
      OBVIOUS
    <3>4. /\ \A k \in Keys : f[k] \in Int /\ g[k] \in Int
          /\ \A k \in Keys \ {m.key} : f[k] = g[k]
          /\ f[m.key] = 0 /\ g[m.key] = m.delta
      BY <2>0, <2>1, <2>2, <2>4, <3>3 DEF TypeOK, Recorded
    <3>5. /\ SumFunctionOnSet(f, Keys) \in Int
          /\ SumFunctionOnSet(g, Keys) = SumFunctionOnSet(f, Keys) + m.delta
          /\ Cardinality({k \in Keys : g[k] # 0})
               = Cardinality({k \in Keys : f[k] # 0}) + 1
      <4>1. PICK n \in Keys : n = m.key
        BY <2>1
      <4>2. f[n] = 0 /\ g[n] # 0 /\ \A k \in Keys : k # n => f[k] = g[k]
        BY <2>1, <3>4, <4>1
      <4>3. (\A k \in Keys : f[k] \in Int) /\ (\A k \in Keys : g[k] \in Int)
        BY <3>4
      <4>4. SumFunctionOnSet(f, Keys) \in Int
        BY <4>3, HistoryInt
      <4>5. SumFunctionOnSet(g, Keys) = SumFunctionOnSet(f, Keys) + g[n]
        BY <4>2, <4>3, HistoryGrows, Zenon
      <4>6. Cardinality({k \in Keys : g[k] # 0})
              = Cardinality({k \in Keys : f[k] # 0}) + 1
        BY <4>2, HistoryCounts
      <4> QED
        BY <3>4, <4>1, <4>4, <4>5, <4>6
    <3>6. /\ balance[v] = opening[v] + SumFunctionOnSet(f, Keys)
          /\ version[v] = Cardinality({k \in Keys : f[k] # 0})
      BY <3>1, <3>3 DEF Told
    <3>7. balance'[v] = opening[v] + SumFunctionOnSet(g, Keys)
      <4>1. PICK s \in Int : s = SumFunctionOnSet(f, Keys)
        BY <3>5
      <4>2. SumFunctionOnSet(g, Keys) = s + m.delta /\ balance[v] = opening[v] + s
        BY <3>5, <3>6, <4>1, Zenon
      <4>3. opening[v] \in Nat
        OBVIOUS
      <4> QED
        BY <2>1, <3>2, <4>2, <4>3
    <3>8. version'[v] = Cardinality({k \in Keys : g[k] # 0})
      BY <3>2, <3>5, <3>6
    <3> QED
      BY <3>1, <3>3, <3>7, <3>8 DEF Told
  <2> QED
    BY <2>3, <2>4
<1>4. ASSUME NEW c \in Clients,
             \/ Post(c) \/ FindReplay(c) \/ UpdateBalance(c) \/ Refuse(c)
             \/ InsertOperation(c) \/ Abort(c)
      PROVE  HistoryInv'
  BY <1>1, <1>4 DEF Post, FindReplay, UpdateBalance, Refuse, InsertOperation,
                    Abort
<1>5. CASE UNCHANGED vars
  BY <1>1, <1>5 DEF vars
<1> QED
  BY <1>2, <1>3, <1>4, <1>5 DEF Next, Step

\* Each balance is the opening balance and all recorded deltas, and the version
\* counts them, however the UPDATEs of a wallet overlap.
THEOREM BalancesAreHistories ==
  ASSUME IsFiniteSet(Keys)
  PROVE  Spec => []BalanceIsHistory
<1>1. Init => HistoryInv
  BY DEF Init, HistoryInv, Unused
<1>2. WalletInv /\ HistoryInv /\ [Next]_vars => HistoryInv'
  BY HistoryStep
<1>3. HistoryInv /\ WalletInv => BalanceIsHistory
  BY DEF HistoryInv, WalletInv, TypeOK, Told, BalanceIsHistory
<1> QED
  BY <1>1, <1>2, <1>3, WalletInvAlways, PTL DEF Spec
=============================================================================
