---------------------------- MODULE GatewayProofs ----------------------------
(***************************************************************************)
(* Proofs about Gateway: what is promised to clients is kept, and the rules*)
(* of the services fit those who call them.                                *)
(***************************************************************************)
EXTENDS Gateway, TLAPS

-----------------------------------------------------------------------------
(* Where a call comes from.                                                *)

Ops == Documented \cup Undocumented

Route(op, to, method, path) ==
  [op |-> op, to |-> to, method |-> method, path |-> path]

getOperation ==
  Get(<<"accounts", "wallets", "id", "operations", "id">>, Id, {})
getLedgerInvariant == Get(<<"admin", "ledger-invariant">>, {}, {})
getAuditVerify     == Get(<<"admin", "audit", "verify">>, {}, {})

\* Where the gateway sends each operation.
Routes ==
  {Route(createUser, "account-service", "POST", <<"users">>),
   Route(createWallet, "account-service", "POST", <<"wallets">>),
   Route(listWallets, "account-service", "GET", <<"wallets", "id">>),
   Route(getWalletBalance, "account-service", "GET",
         <<"wallets", "id", "balance">>),
   Route(applyWalletOperation, "account-service", "POST",
         <<"wallets", "id", "operations">>),
   Route(getOperation, "account-service", "GET",
         <<"wallets", "id", "operations", "id">>),
   Route(listTransactionHistory, "transaction-service", "GET",
         <<"transactions">>),
   Route(createDomesticTransaction, "transaction-service", "POST",
         <<"transactions">>),
   Route(createInternationalTransaction, "transaction-service", "POST",
         <<"transfers", "international">>),
   Route(createLedgerBatch, "ledger-service", "POST", <<"batches">>),
   Route(getLedgerBatch, "ledger-service", "GET", <<"batches", "id">>),
   Route(checkLedgerInvariant, "ledger-service", "GET", <<"invariant-check">>),
   Route(verifyAuditChain, "ledger-service", "GET", <<"audit", "verify">>),
   Route(createFxQuote, "fx-service", "POST", <<"quote">>),
   Route(getFxQuote, "fx-service", "GET", <<"quote", "id">>),
   Route(consumeFxQuote, "fx-service", "POST", <<"quote", "id", "consume">>),
   Route(createPayrollJob, "payroll-service", "POST", <<"jobs">>),
   Route(getPayrollJob, "payroll-service", "GET", <<"jobs", "id">>),
   Route(createIncident, "admin-service", "POST", <<"incidents">>),
   Route(getLedgerInvariant, "admin-service", "GET", <<"ledger-invariant">>),
   Route(getAuditVerify, "admin-service", "GET", <<"audit", "verify">>)}

Sends(q, c) ==
  /\ c.from = "client" /\ c.to = "api-gateway"
  /\ c.method = q.method /\ c.path = q.path /\ c.defects \subseteq q.flaws

Forwards(q, c) ==
  /\ c.from = "api-gateway"
  /\ \E r \in Routes :
       r.op = q /\ c.to = r.to /\ c.method = r.method /\ c.path = r.path
  /\ c.defects \subseteq q.flaws

\* For one operation of the API.
Asks(q, c) == Sends(q, c) \/ Forwards(q, c)

\* What a service asks of another one for a transfer.
PartOfTransfer(c) ==
  /\ c.from = "transaction-service"
  /\ \/ /\ c.to = "fx-service" /\ c.method = "POST"
        /\ c.path = <<"quote", "id", "consume">> /\ c.defects \subseteq Id
     \/ /\ c.to = "account-service"
        /\ \/ /\ c.method = "GET"
              /\ c.path = <<"wallets", "id", "operations", "id">>
           \/ c.method = "POST" /\ c.path = <<"wallets", "id", "operations">>
        /\ c.defects = {}
     \/ /\ c.to = "ledger-service"
        /\ \/ c.method = "GET" /\ c.path = <<"batches", "id">>
           \/ c.method = "POST" /\ c.path = <<"batches">>
        /\ c.defects \subseteq {<<"amountCents", "malformed">>}

\* What admin-service asks of the ledger.
Diagnoses(c) ==
  /\ c.from = "admin-service" /\ c.to = "ledger-service" /\ c.method = "GET"
  /\ c.path \in {<<"invariant-check">>, <<"audit", "verify">>}
  /\ c.defects = {}

\* What comes from nobody's request.
OnItsOwn(c) ==
  /\ c.defects = {}
  /\ \/ c.from = "prometheus" /\ c.method = "GET" /\ c.path = <<"metrics">>
     \/ /\ c.from = "payroll-service" /\ c.to = "transaction-service"
        /\ c.method = "POST" /\ c.path = <<"transactions">>
     \/ /\ c.from = "transaction-service" /\ c.to = "transaction-service"
        /\ c.method = "POST" /\ c.path = <<"internal", "recover">>

Origin(c) ==
  \/ \E q \in Ops : Asks(q, c)
  \/ PartOfTransfer(c) \/ Diagnoses(c) \/ OnItsOwn(c)

\* The call p waits for the answer of c.
Waits(p, c) ==
  /\ c.from = p.to
  /\ \/ /\ p.to = "api-gateway" /\ p.next = 1 /\ c.defects = p.defects
        /\ \E q \in Ops : Sends(q, p) /\ Forwards(q, c)
     \/ /\ p.to = "admin-service" /\ p.next = 2 /\ Diagnoses(c)
        /\ p.path \in {<<"ledger-invariant">>, <<"audit", "verify">>}
     \/ /\ p.to = "transaction-service" /\ p.next > 2 /\ PartOfTransfer(c)
        /\ p.path = <<"transfers", "international">> /\ p.next = 3 =>
             c.to = "fx-service"

-----------------------------------------------------------------------------
(* The calls in progress.                                                  *)

\* The two operations that clients are refused.
Internal(c) ==
  \/ c.to = "ledger-service" /\ c.method = "POST" /\ c.path = <<"batches">>
  \/ /\ c.to = "fx-service" /\ c.method = "POST"
     /\ c.path = <<"quote", "id", "consume">>

Executable(c) == c.defects \cap FatalFlaws(c.path) = {}

\* Admitted as the rules say, and executing only what may be executed.
Lawful(c) ==
  /\ Origin(c)
  /\ c.from = "api-gateway" /\ c.next > 0 => ~Internal(c)
  /\ c.to = "transaction-service" /\ c.next > 1
     /\ c.path # <<"internal", "recover">> => Executable(c)

\* Part of a transfer whose key is stored.
NeedsKey(c) ==
  \/ c.from = "transaction-service" /\ c.to # "transaction-service"
  \/ c.to = "transaction-service" /\ c.next > 1

CallSet ==
  [from : Services \cup {"client", "prometheus"}, to : Services,
   method : {"GET", "POST"},
   path : {q.path : q \in Ops} \cup {r.path : r \in Routes}
          \cup {<<"internal", "recover">>},
   defects : SUBSET UNION {q.flaws : q \in Ops}, next : Nat]

StackInv ==
  /\ stack \in Seq(CallSet)
  /\ \A i \in 1 .. Len(stack) :
       Lawful(stack[i]) /\ (NeedsKey(stack[i]) => "key" \in db)
  /\ \A i \in 1 .. Len(stack) - 1 : Waits(stack[i + 1], stack[i])

-----------------------------------------------------------------------------
(* The answers.                                                            *)

Told(c, status) ==
  /\ \A q \in Ops : Asks(q, c) =>
       /\ q \in Documented => Promised(q, c.defects, status)
       /\ status \in {401, 403} => q \in {createLedgerBatch, consumeFxQuote}
  /\ status \in {401, 403} => c.from \in {"client", "api-gateway"}
  /\ PartOfTransfer(c) /\ c.to = "fx-service" =>
       status \in {0, 200, 404, 409, 500}

ReplyInv ==
  reply # Null =>
    /\ Origin(reply.call) /\ Told(reply.call, reply.status)
    /\ stack # <<>> => Waits(Top, reply.call)

DbInv == {"batch", "usedQuote"} \cap db # {} => "key" \in db

\* What every step preserves.
GatewayInv == StackInv /\ ReplyInv /\ DbInv

-----------------------------------------------------------------------------
(* Operations and routes.                                                  *)

\* Method and path tell operations apart.
LEMMA SameOp ==
  ASSUME NEW q \in Ops, NEW r \in Ops, q.method = r.method, q.path = r.path
  PROVE  q = r
BY DEF Ops, Documented, Undocumented, Get, Post, getHealth, getMetrics,
       createUser, createWallet, listWallets, getWalletBalance,
       applyWalletOperation, listTransactionHistory, createDomesticTransaction,
       createInternationalTransaction, createLedgerBatch, getLedgerBatch,
       checkLedgerInvariant, verifyAuditChain, createFxQuote, getFxQuote,
       consumeFxQuote, createPayrollJob, getPayrollJob, createIncident

\* The routes, with their methods spelled out.
LEMMA RoutesAre ==
  ASSUME NEW r \in Routes
  PROVE  /\ r.op \in Ops /\ r.method = r.op.method
         /\ r.to \in Services \ {"api-gateway"} /\ r.path \notin PublicPaths
BY DEF Routes, Route, Ops, Documented, Undocumented, Get, Post, createUser,
       createWallet, listWallets, getWalletBalance, applyWalletOperation,
       listTransactionHistory, createDomesticTransaction,
       createInternationalTransaction, createLedgerBatch, getLedgerBatch,
       checkLedgerInvariant, verifyAuditChain, createFxQuote, getFxQuote,
       consumeFxQuote, createPayrollJob, getPayrollJob, createIncident,
       getOperation, getLedgerInvariant, getAuditVerify, Services, PublicPaths

\* What is sent to the services whose rules tell calls apart.
LEMMA RoutesToTransaction ==
  ASSUME NEW r \in Routes, r.to = "transaction-service"
  PROVE  \/ r.method = "GET" /\ r.path = <<"transactions">>
         \/ r.method = "POST" /\ r.path = <<"transactions">>
         \/ r.method = "POST" /\ r.path = <<"transfers", "international">>
BY DEF Routes, Route

LEMMA RoutesToLedger ==
  ASSUME NEW r \in Routes, r.to = "ledger-service"
  PROVE  \/ r.method = "POST" /\ r.path = <<"batches">>
         \/ r.method = "GET" /\ r.path = <<"batches", "id">>
         \/ r.method = "GET" /\ r.path = <<"invariant-check">>
         \/ r.method = "GET" /\ r.path = <<"audit", "verify">>
BY DEF Routes, Route

LEMMA RoutesToFx ==
  ASSUME NEW r \in Routes, r.to = "fx-service"
  PROVE  \/ r.method = "POST" /\ r.path = <<"quote">>
         \/ r.method = "GET" /\ r.path = <<"quote", "id">>
         \/ r.method = "POST" /\ r.path = <<"quote", "id", "consume">>
BY DEF Routes, Route

\* A route is known by where it leads.
LEMMA SameRoute ==
  ASSUME NEW r \in Routes, NEW s \in Routes,
         r.to = s.to, r.method = s.method, r.path = s.path
  PROVE  r = s
BY DEF Routes, Route

\* The gateway sends an operation along its route.
Leads(q, to, path) == Upstream(q.path[1]) = to /\ Rewrite(q.path) = path

LEMMA Routed ==
  ASSUME NEW q \in Ops, q.path \notin PublicPaths
  PROVE  \E r \in Routes : r.op = q /\ Leads(q, r.to, r.path)
<1> USE DEF Get, Post
<1>1. /\ Leads(createUser, "account-service", <<"users">>)
      /\ Leads(createWallet, "account-service", <<"wallets">>)
      /\ Leads(listWallets, "account-service", <<"wallets", "id">>)
      /\ Leads(getWalletBalance, "account-service",
               <<"wallets", "id", "balance">>)
      /\ Leads(applyWalletOperation, "account-service",
               <<"wallets", "id", "operations">>)
      /\ Leads(getOperation, "account-service",
               <<"wallets", "id", "operations", "id">>)
  BY DEF Leads, Upstream, Rewrite, createUser, createWallet, listWallets,
     getWalletBalance, applyWalletOperation, getOperation
<1>2. /\ Leads(listTransactionHistory, "transaction-service",
               <<"transactions">>)
      /\ Leads(createDomesticTransaction, "transaction-service",
               <<"transactions">>)
      /\ Leads(createInternationalTransaction, "transaction-service",
               <<"transfers", "international">>)
  BY DEF Leads, Upstream, Rewrite, listTransactionHistory,
     createDomesticTransaction, createInternationalTransaction
<1>3. /\ Leads(createLedgerBatch, "ledger-service", <<"batches">>)
      /\ Leads(getLedgerBatch, "ledger-service", <<"batches", "id">>)
      /\ Leads(checkLedgerInvariant, "ledger-service", <<"invariant-check">>)
      /\ Leads(verifyAuditChain, "ledger-service", <<"audit", "verify">>)
  BY DEF Leads, Upstream, Rewrite, createLedgerBatch, getLedgerBatch,
     checkLedgerInvariant, verifyAuditChain
<1>4. /\ Leads(createFxQuote, "fx-service", <<"quote">>)
      /\ Leads(getFxQuote, "fx-service", <<"quote", "id">>)
      /\ Leads(consumeFxQuote, "fx-service", <<"quote", "id", "consume">>)
  BY DEF Leads, Upstream, Rewrite, createFxQuote, getFxQuote, consumeFxQuote
<1>5. /\ Leads(createPayrollJob, "payroll-service", <<"jobs">>)
      /\ Leads(getPayrollJob, "payroll-service", <<"jobs", "id">>)
  BY DEF Leads, Upstream, Rewrite, createPayrollJob, getPayrollJob
<1>6. /\ Leads(createIncident, "admin-service", <<"incidents">>)
      /\ Leads(getLedgerInvariant, "admin-service", <<"ledger-invariant">>)
      /\ Leads(getAuditVerify, "admin-service", <<"audit", "verify">>)
  BY DEF Leads, Upstream, Rewrite, createIncident, getLedgerInvariant,
     getAuditVerify
<1>7. \E r \in Routes : r.op = q
  BY DEF Ops, Documented, Undocumented, PublicPaths, Routes, Route, getHealth,
         getMetrics, getOperation, getLedgerInvariant, getAuditVerify
<1> QED
  BY <1>1, <1>2, <1>3, <1>4, <1>5, <1>6, <1>7 DEF Routes, Route

\* Where a call comes from does not change.
LEMMA SameOrigin ==
  ASSUME NEW c, NEW d, Origin(c), d.from = c.from, d.to = c.to,
         d.method = c.method, d.path = c.path, d.defects = c.defects
  PROVE  Origin(d)
BY DEF Origin, Asks, Sends, Forwards, PartOfTransfer, Diagnoses, OnItsOwn

\* A call asks for one operation at most.
LEMMA OneOp ==
  ASSUME NEW q \in Ops, NEW r \in Ops, NEW c, Asks(q, c), Asks(r, c)
  PROVE  q = r
<1>1. CASE Sends(q, c)
  <2>1. Sends(r, c)
    BY <1>1 DEF Asks, Sends, Forwards
  <2> QED
    BY <1>1, <2>1, SameOp DEF Sends
<1>2. CASE Forwards(q, c)
  <2>1. Forwards(r, c)
    BY <1>2 DEF Asks, Sends, Forwards
  <2> QED
    BY <1>2, <2>1, SameRoute DEF Forwards
<1> QED
  BY <1>1, <1>2 DEF Asks

-----------------------------------------------------------------------------
(* The rules.                                                              *)

LEMMA EverythingAllowed ==
  ASSUME NEW rules, Everything \in rules, NEW c, Len(c.path) \in Nat
  PROVE  allowed(rules, c)
<1>1. IsPrefix(<<>>, c.path)
  BY DEF IsPrefix
<1> QED
  BY <1>1 DEF allowed, Everything

LEMMA ExactAllowed ==
  ASSUME NEW rules, NEW c, Exact(c.method, c.path) \in rules
  PROVE  allowed(rules, c)
BY DEF allowed, Exact

LEMMA PrefixAllowed ==
  ASSUME NEW rules, NEW c, NEW path, Prefix(c.method, path) \in rules,
         IsPrefix(path, c.path)
  PROVE  allowed(rules, c)
BY DEF allowed, Prefix

LEMMA BelowAllowed ==
  ASSUME NEW rules, NEW c, NEW path, Below(c.method, path) \in rules,
         IsStrictPrefix(path, c.path)
  PROVE  allowed(rules, c)
BY DEF allowed, Below

\* Who may ask for what, of the calls that there are: all but two.
Admits(c) ==
  /\ Identity(c.from) \in DOMAIN Allow(c.to)
  /\ allowed(Allow(c.to)[Identity(c.from)], c)

LEMMA AccountAdmits ==
  ASSUME NEW c, c.to = "account-service", Len(c.path) \in Nat,
         c.from \in {"api-gateway", "transaction-service"}
  PROVE  Admits(c)
<1>1. /\ Identity(c.from) \in DOMAIN AccountAllow
      /\ AccountAllow[Identity(c.from)] = {Everything}
  BY DEF Identity, AccountAllow
<1> QED
  BY <1>1, EverythingAllowed DEF Admits, Allow

LEMMA PayrollAdmits ==
  ASSUME NEW c, c.to \in {"payroll-service", "admin-service"},
         Len(c.path) \in Nat, c.from = "api-gateway"
  PROVE  Admits(c)
<1>1. /\ Identity(c.from) \in DOMAIN Allow(c.to)
      /\ Allow(c.to)[Identity(c.from)] = {Everything}
  BY DEF Identity, Allow, PayrollAllow, AdminAllow
<1> QED
  BY <1>1, EverythingAllowed DEF Admits

LEMMA TransactionAdmits ==
  ASSUME NEW c, c.to = "transaction-service",
         \/ /\ c.from = "api-gateway" /\ c.method = "GET"
            /\ c.path = <<"transactions">>
         \/ /\ c.from \in {"api-gateway", "payroll-service"}
            /\ c.method = "POST" /\ c.path = <<"transactions">>
         \/ /\ c.from = "api-gateway" /\ c.method = "POST"
            /\ c.path = <<"transfers", "international">>
         \/ /\ c.from = "transaction-service" /\ c.method = "POST"
            /\ c.path = <<"internal", "recover">>
  PROVE  Admits(c)
<1>1. Allow(c.to) = TransactionAllow
  BY DEF Allow
<1>2. /\ IsPrefix(<<"transactions">>, <<"transactions">>)
      /\ IsPrefix(<<"transfers">>, <<"transfers", "international">>)
      /\ IsStrictPrefix(<<"internal">>, <<"internal", "recover">>)
  BY DEF IsPrefix, IsStrictPrefix
<1>3. CASE c.from = "api-gateway"
  <2>1. /\ Identity(c.from) = "gateway"
        /\ "gateway" \in DOMAIN TransactionAllow
        /\ {Exact("POST", <<"transactions">>), Prefix("POST", <<"transfers">>),
            Prefix("GET", <<"transactions">>)}
             \subseteq TransactionAllow["gateway"]
    BY <1>3 DEF Identity, TransactionAllow
  <2> QED
    BY <1>1, <1>2, <1>3, <2>1, ExactAllowed, PrefixAllowed DEF Admits
<1>4. CASE c.from = "payroll-service"
  <2>1. /\ Identity(c.from) = "payroll"
        /\ "payroll" \in DOMAIN TransactionAllow
        /\ Exact("POST", <<"transactions">>) \in TransactionAllow["payroll"]
    BY <1>4 DEF Identity, TransactionAllow
  <2> QED
    BY <1>1, <1>4, <2>1, ExactAllowed DEF Admits
<1>5. CASE c.from = "transaction-service"
  <2>1. /\ Identity(c.from) = "transaction"
        /\ "transaction" \in DOMAIN TransactionAllow
        /\ Below("POST", <<"internal">>) \in TransactionAllow["transaction"]
    BY <1>5 DEF Identity, TransactionAllow
  <2> QED
    BY <1>1, <1>2, <1>5, <2>1, BelowAllowed DEF Admits
<1> QED
  BY <1>3, <1>4, <1>5

LEMMA LedgerAdmits ==
  ASSUME NEW c, c.to = "ledger-service", Len(c.path) \in Nat,
         \/ c.from = "api-gateway"
         \/ /\ c.from = "transaction-service" /\ c.method = "GET"
            /\ c.path = <<"batches", "id">>
         \/ /\ c.from = "transaction-service" /\ c.method = "POST"
            /\ c.path = <<"batches">>
         \/ Diagnoses(c)
  PROVE  /\ Identity(c.from) \in DOMAIN Allow(c.to)
         /\ Admits(c) <=> (c.from = "api-gateway" => c.method = "GET")
<1>1. Allow(c.to) = LedgerAllow
  BY DEF Allow
<1>2. CASE c.from = "api-gateway"
  <2>1. /\ Identity(c.from) = "gateway" /\ "gateway" \in DOMAIN LedgerAllow
        /\ LedgerAllow["gateway"] = {Prefix("GET", <<>>)}
    BY <1>2 DEF Identity, LedgerAllow
  <2>2. IsPrefix(<<>>, c.path)
    BY DEF IsPrefix
  <2>3. c.method = "GET" => Admits(c)
    BY <1>1, <2>1, <2>2, PrefixAllowed DEF Admits
  <2>4. c.method # "GET" => ~Admits(c)
    <3>1. \A rule \in LedgerAllow["gateway"] : rule.method = "GET"
      BY <2>1 DEF Prefix
    <3>2. allowed(LedgerAllow["gateway"], c) => c.method = "GET"
      BY <3>1 DEF allowed
    <3> QED
      BY <1>1, <2>1, <3>2 DEF Admits
  <2> QED
    BY <1>1, <1>2, <2>1, <2>3, <2>4
<1>3. CASE c.from = "transaction-service"
  <2>1. /\ Identity(c.from) = "transaction"
        /\ "transaction" \in DOMAIN LedgerAllow
        /\ {Exact("POST", <<"batches">>), Prefix("GET", <<"batches">>)}
             = LedgerAllow["transaction"]
    BY <1>3 DEF Identity, LedgerAllow
  <2>2. IsPrefix(<<"batches">>, <<"batches", "id">>)
    BY DEF IsPrefix
  <2> QED
    BY <1>1, <1>3, <2>1, <2>2, ExactAllowed, PrefixAllowed
       DEF Admits, Diagnoses
<1>4. CASE Diagnoses(c)
  <2>1. /\ Identity(c.from) = "admin" /\ "admin" \in DOMAIN LedgerAllow
        /\ {Exact("GET", <<"invariant-check">>),
            Exact("GET", <<"audit", "verify">>)} = LedgerAllow["admin"]
    BY <1>4 DEF Identity, LedgerAllow, Diagnoses
  <2> QED
    BY <1>1, <1>4, <2>1, ExactAllowed DEF Admits, Diagnoses
<1> QED
  BY <1>2, <1>3, <1>4

LEMMA FxAdmits ==
  ASSUME NEW c, c.to = "fx-service",
         \/ /\ c.from = "api-gateway" /\ c.method = "POST"
            /\ c.path = <<"quote">>
         \/ /\ c.from = "api-gateway" /\ c.method = "GET"
            /\ c.path = <<"quote", "id">>
         \/ /\ c.from \in {"api-gateway", "transaction-service"}
            /\ c.method = "POST" /\ c.path = <<"quote", "id", "consume">>
  PROVE  /\ Identity(c.from) \in DOMAIN Allow(c.to)
         /\ Admits(c) <=> (c.from = "api-gateway" => ~Internal(c))
<1>1. Allow(c.to) = FxAllow
  BY DEF Allow
<1>2. /\ IsPrefix(<<"quote">>, <<"quote", "id">>)
      /\ IsStrictPrefix(<<"quote">>, <<"quote", "id", "consume">>)
      /\ <<"quote">> # <<"quote", "id", "consume">>
      /\ <<"quote", "id">> # <<"quote", "id", "consume">>
  BY DEF IsPrefix, IsStrictPrefix
<1>3. CASE c.from = "api-gateway"
  <2>1. /\ Identity(c.from) = "gateway" /\ "gateway" \in DOMAIN FxAllow
        /\ FxAllow["gateway"]
             = {Exact("POST", <<"quote">>), Prefix("GET", <<"quote">>)}
    BY <1>3 DEF Identity, FxAllow
  <2>2. CASE c.path = <<"quote", "id", "consume">>
    <3>1. ~allowed(FxAllow["gateway"], c)
      BY <1>2, <1>3, <2>1, <2>2 DEF allowed, Exact, Prefix
    <3> QED
      BY <1>1, <1>2, <1>3, <2>1, <2>2, <3>1 DEF Admits, Internal
  <2>3. CASE c.path # <<"quote", "id", "consume">>
    <3>1. allowed(FxAllow["gateway"], c)
      BY <1>2, <1>3, <2>1, <2>3, ExactAllowed, PrefixAllowed
    <3> QED
      BY <1>1, <2>1, <2>3, <3>1 DEF Admits, Internal
  <2> QED
    BY <2>2, <2>3
<1>4. CASE c.from = "transaction-service"
  <2>1. /\ Identity(c.from) = "transaction" /\ "transaction" \in DOMAIN FxAllow
        /\ Below("POST", <<"quote">>) \in FxAllow["transaction"]
    BY <1>4 DEF Identity, FxAllow
  <2> QED
    BY <1>1, <1>2, <1>4, <2>1, BelowAllowed DEF Admits
<1> QED
  BY <1>3, <1>4

\* A call that there is is admitted, unless a client asks for one of the two
\* internal operations; then it is refused with 403.
LEMMA Admission ==
  ASSUME NEW c \in CallSet, Origin(c), c.to # "api-gateway",
         c.path \notin PublicPaths
  PROVE  /\ Identity(c.from) \in DOMAIN Allow(c.to)
         /\ Admits(c) <=> (c.from = "api-gateway" => ~Internal(c))
<1>0. Len(c.path) \in Nat
  <2>1. \A q \in Ops : Len(q.path) \in Nat
    BY DEF Ops, Documented, Undocumented, Get, Post, getHealth, getMetrics,
       createUser, createWallet, listWallets, getWalletBalance,
       applyWalletOperation, listTransactionHistory, createDomesticTransaction,
       createInternationalTransaction, createLedgerBatch, getLedgerBatch,
       checkLedgerInvariant, verifyAuditChain, createFxQuote, getFxQuote,
       consumeFxQuote, createPayrollJob, getPayrollJob, createIncident
  <2>2. \A r \in Routes : Len(r.path) \in Nat
    BY DEF Routes, Route
  <2> QED
    BY <2>1, <2>2 DEF CallSet
<1>1. ASSUME NEW q \in Ops, Asks(q, c)
      PROVE  /\ Identity(c.from) \in DOMAIN Allow(c.to)
             /\ Admits(c) <=> (c.from = "api-gateway" => ~Internal(c))
  <2>1. c.from = "api-gateway"
    BY <1>1 DEF Asks, Sends, Forwards
  <2>2. PICK r \in Routes :
          c.to = r.to /\ c.method = r.method /\ c.path = r.path
    BY <1>1, <2>1 DEF Asks, Sends, Forwards
  <2>3. CASE c.to = "account-service"
    BY <1>0, <2>1, <2>3, AccountAdmits DEF Internal, Admits
  <2>4. CASE c.to \in {"payroll-service", "admin-service"}
    BY <1>0, <2>1, <2>4, PayrollAdmits DEF Internal, Admits
  <2>5. CASE c.to = "transaction-service"
    <3>1. \/ c.method = "GET" /\ c.path = <<"transactions">>
          \/ c.method = "POST" /\ c.path = <<"transactions">>
          \/ c.method = "POST" /\ c.path = <<"transfers", "international">>
      BY <2>2, <2>5, RoutesToTransaction
    <3> QED
      BY <2>1, <2>5, <3>1, TransactionAdmits DEF Internal, Admits
  <2>6. CASE c.to = "ledger-service"
    <3>1. c.method = "GET" <=> ~Internal(c)
      BY <2>2, <2>6, RoutesToLedger DEF Internal
    <3> QED
      BY <1>0, <2>1, <2>6, <3>1, LedgerAdmits
  <2>7. CASE c.to = "fx-service"
    <3>1. \/ c.method = "POST" /\ c.path = <<"quote">>
          \/ c.method = "GET" /\ c.path = <<"quote", "id">>
          \/ c.method = "POST" /\ c.path = <<"quote", "id", "consume">>
      BY <2>2, <2>7, RoutesToFx
    <3> QED
      BY <2>1, <2>7, <3>1, FxAdmits
  <2> QED
    BY <2>2, <2>3, <2>4, <2>5, <2>6, <2>7, RoutesAre DEF Services
<1>2. CASE PartOfTransfer(c)
  <2>1. c.from = "transaction-service"
    BY <1>2 DEF PartOfTransfer
  <2>2. CASE c.to = "account-service"
    BY <1>0, <2>1, <2>2, AccountAdmits DEF Admits
  <2>3. CASE c.to = "ledger-service"
    <3>1. \/ c.method = "GET" /\ c.path = <<"batches", "id">>
          \/ c.method = "POST" /\ c.path = <<"batches">>
      BY <1>2, <2>3 DEF PartOfTransfer
    <3> QED
      BY <1>0, <2>1, <2>3, <3>1, LedgerAdmits
  <2>4. CASE c.to = "fx-service"
    <3>1. c.method = "POST" /\ c.path = <<"quote", "id", "consume">>
      BY <1>2, <2>4 DEF PartOfTransfer
    <3> QED
      BY <2>1, <2>4, <3>1, FxAdmits
  <2> QED
    BY <1>2, <2>2, <2>3, <2>4 DEF PartOfTransfer
<1>3. CASE Diagnoses(c)
  <2>1. c.from # "api-gateway" /\ c.to = "ledger-service"
    BY <1>3 DEF Diagnoses
  <2> QED
    BY <1>0, <1>3, <2>1, LedgerAdmits
<1>4. CASE OnItsOwn(c)
  <2>1. /\ c.to = "transaction-service" /\ c.from # "api-gateway"
        /\ \/ /\ c.from = "payroll-service"
              /\ c.method = "POST" /\ c.path = <<"transactions">>
           \/ /\ c.from = "transaction-service" /\ c.method = "POST"
              /\ c.path = <<"internal", "recover">>
    BY <1>4 DEF OnItsOwn, PublicPaths
  <2> QED
    BY <2>1, TransactionAdmits DEF Admits
<1> QED
  BY <1>1, <1>2, <1>3, <1>4 DEF Origin

-----------------------------------------------------------------------------
(* What a step does to the stack.                                          *)

LEMMA TopCall ==
  ASSUME StackInv, stack # <<>>
  PROVE  /\ Len(stack) \in Nat \ {0} /\ Top \in CallSet
         /\ Lawful(Top) /\ (NeedsKey(Top) => "key" \in db)
BY DEF StackInv, Top

LEMMA CallType ==
  ASSUME NEW c \in CallSet, NEW n \in Nat
  PROVE  /\ [c EXCEPT !.next = n] \in CallSet
         /\ [c EXCEPT !.next = n].next = n
         /\ \A f \in {"from", "to", "method", "path", "defects"} :
              [c EXCEPT !.next = n][f] = c[f]
BY DEF CallSet

\* A caller waits for a call whatever the call has come to.
LEMMA WaitsOn ==
  ASSUME NEW p, NEW c \in CallSet, NEW n \in Nat, Waits(p, c)
  PROVE  Waits(p, [c EXCEPT !.next = n])
<1> DEFINE d == [c EXCEPT !.next = n]
<1>1. /\ d.from = c.from /\ d.to = c.to /\ d.method = c.method
      /\ d.path = c.path /\ d.defects = c.defects
  BY DEF CallSet
<1> HIDE DEF d
<1>2. Waits(p, d)
  BY <1>1 DEF Waits, Forwards, Diagnoses, PartOfTransfer
<1> QED
  BY <1>2 DEF d

\* What the database gains takes nothing away.
DbGrows == db \subseteq db' /\ DbInv'

\* The innermost call is answered.
LEMMA AnswerStep ==
  ASSUME GatewayInv, stack # <<>>, NEW s, Answer(s), Told(Top, s), DbGrows
  PROVE  GatewayInv'
<1>1. /\ Len(stack) \in Nat \ {0} /\ stack \in Seq(CallSet)
      /\ stack' = Tail(stack) /\ reply' = [call |-> Top, status |-> s]
  BY TopCall DEF GatewayInv, StackInv, Answer, Rest
<1>2. /\ stack' \in Seq(CallSet) /\ Len(stack') = Len(stack) - 1
      /\ \A i \in 1 .. Len(stack) - 1 : stack'[i] = stack[i + 1]
  BY <1>1
<1>3. StackInv'
  <2>1. ASSUME NEW i \in 1 .. Len(stack')
        PROVE  Lawful(stack'[i]) /\ (NeedsKey(stack'[i]) => "key" \in db')
    BY <1>1, <1>2, <2>1 DEF GatewayInv, StackInv, DbGrows
  <2>2. ASSUME NEW i \in 1 .. Len(stack') - 1
        PROVE  Waits(stack'[i + 1], stack'[i])
    <3>1. i + 1 \in 1 .. Len(stack) - 1
      BY <1>1, <1>2, <2>2
    <3>2. Waits(stack[i + 1 + 1], stack[i + 1])
      BY <3>1 DEF GatewayInv, StackInv
    <3> QED
      BY <1>1, <1>2, <2>2, <3>1, <3>2
  <2> QED
    BY <1>2, <2>1, <2>2 DEF StackInv
<1>4. ReplyInv'
  <2>1. Origin(Top)
    BY TopCall DEF GatewayInv, Lawful
  <2>2. ASSUME stack' # <<>> PROVE Waits(Top', Top)
    <3>1. 1 \in 1 .. Len(stack) - 1 /\ stack'[1] = stack[1 + 1]
      BY <1>1, <1>2, <2>2
    <3>2. Waits(stack[1 + 1], stack[1])
      BY <3>1 DEF GatewayInv, StackInv
    <3> QED
      BY <3>1, <3>2 DEF Top
  <2>3. reply'.call = Top /\ reply'.status = s
    BY <1>1
  <2> QED
    BY <2>1, <2>2, <2>3 DEF ReplyInv
<1> QED
  BY <1>3, <1>4 DEF GatewayInv, DbGrows

\* The innermost call goes on.
LEMMA GotoStep ==
  ASSUME GatewayInv, stack # <<>>, NEW n \in Nat, Goto(n), reply = Null,
         Lawful([Top EXCEPT !.next = n]),
         NeedsKey([Top EXCEPT !.next = n]) => "key" \in db', DbGrows
  PROVE  GatewayInv'
<1> DEFINE c == [Top EXCEPT !.next = n]
<1>1. /\ Len(stack) \in Nat \ {0} /\ stack \in Seq(CallSet)
      /\ Top \in CallSet /\ c \in CallSet
      /\ stack' = <<c>> \o Tail(stack) /\ reply' = Null
  BY TopCall, CallType DEF GatewayInv, StackInv, Goto, Rest
<1> HIDE DEF c
<1>2. /\ stack' \in Seq(CallSet) /\ Len(stack') = Len(stack)
      /\ stack'[1] = c
      /\ \A i \in 2 .. Len(stack) : stack'[i] = stack[i]
  BY <1>1
<1>3. StackInv'
  <2>1. ASSUME NEW i \in 1 .. Len(stack')
        PROVE  Lawful(stack'[i]) /\ (NeedsKey(stack'[i]) => "key" \in db')
    <3>1. CASE i = 1
      BY <1>2, <3>1 DEF c
    <3>2. CASE i # 1
      BY <1>1, <1>2, <2>1, <3>2 DEF GatewayInv, StackInv, DbGrows
    <3> QED
      BY <3>1, <3>2
  <2>2. ASSUME NEW i \in 1 .. Len(stack') - 1
        PROVE  Waits(stack'[i + 1], stack'[i])
    <3>1. Waits(stack[i + 1], stack[i]) /\ i + 1 \in 2 .. Len(stack)
      BY <1>1, <1>2, <2>2 DEF GatewayInv, StackInv
    <3>2. CASE i = 1
      <4>1. Waits(stack[i + 1], Top)
        BY <3>1, <3>2 DEF Top
      <4>2. Waits(stack[i + 1], c)
        BY <1>1, <4>1, WaitsOn DEF c
      <4> QED
        BY <1>2, <3>1, <3>2, <4>2
    <3>3. CASE i # 1
      BY <1>1, <1>2, <2>2, <3>1, <3>3
    <3> QED
      BY <3>2, <3>3
  <2> QED
    BY <1>2, <2>1, <2>2 DEF StackInv
<1> QED
  BY <1>1, <1>3 DEF GatewayInv, DbGrows, ReplyInv

\* The innermost call makes another one.
LEMMA AskStep ==
  ASSUME GatewayInv, stack # <<>>, UNCHANGED db,
         NEW to, NEW method, NEW path, NEW defects,
         Ask(to, method, path, defects),
         NEW p, p = [Top EXCEPT !.next = @ + 1],
         NEW c \in CallSet, c = Call(Top.to, to, method, path, defects),
         Lawful(p), Lawful(c), NeedsKey(p) \/ NeedsKey(c) => "key" \in db,
         Waits(p, c)
  PROVE  GatewayInv'
<1>1. /\ Len(stack) \in Nat \ {0} /\ stack \in Seq(CallSet)
      /\ Top \in CallSet /\ Top.next + 1 \in Nat
  BY TopCall DEF GatewayInv, StackInv, CallSet
<1>2. /\ p \in CallSet /\ p = [Top EXCEPT !.next = Top.next + 1]
      /\ stack' = <<c, p>> \o Tail(stack) /\ reply' = Null
  BY <1>1, CallType DEF Ask, Rest
<1>3. /\ stack' \in Seq(CallSet) /\ Len(stack') = Len(stack) + 1
      /\ stack'[1] = c /\ stack'[2] = p
      /\ \A i \in 3 .. Len(stack) + 1 : stack'[i] = stack[i - 1]
  BY <1>1, <1>2
<1>4. StackInv'
  <2>1. ASSUME NEW i \in 1 .. Len(stack')
        PROVE  Lawful(stack'[i]) /\ (NeedsKey(stack'[i]) => "key" \in db')
    <3>1. CASE i \in {1, 2}
      BY <1>3, <3>1
    <3>2. CASE i \notin {1, 2}
      <4>1. stack'[i] = stack[i - 1] /\ i - 1 \in 1 .. Len(stack)
        BY <1>1, <1>3, <2>1, <3>2
      <4> QED
        BY <4>1 DEF GatewayInv, StackInv
    <3> QED
      BY <3>1, <3>2
  <2>2. ASSUME NEW i \in 1 .. Len(stack') - 1
        PROVE  Waits(stack'[i + 1], stack'[i])
    <3>1. CASE i = 1
      BY <1>3, <3>1
    <3>2. CASE i = 2
      <4>1. Len(stack) - 1 >= 1
        BY <1>1, <1>3, <2>2, <3>2
      <4>2. Waits(stack[2], Top) /\ stack'[3] = stack[2]
        <5>1. 1 \in 1 .. Len(stack) - 1 /\ 3 \in 3 .. Len(stack) + 1
          BY <1>1, <4>1
        <5>2. Waits(stack[1 + 1], stack[1]) /\ stack'[3] = stack[3 - 1]
          BY <1>3, <5>1 DEF GatewayInv, StackInv
        <5> QED
          BY <5>2 DEF Top
      <4>3. Waits(stack[2], p)
        BY <1>1, <1>2, <4>2, WaitsOn
      <4> QED
        BY <1>3, <3>2, <4>2, <4>3
    <3>3. CASE i > 2
      <4>1. i - 1 \in 1 .. Len(stack) - 1 /\ i - 1 + 1 = i
        BY <1>1, <1>3, <2>2, <3>3
      <4>2. Waits(stack[i], stack[i - 1])
        BY <4>1 DEF GatewayInv, StackInv
      <4>3. stack'[i + 1] = stack[i] /\ stack'[i] = stack[i - 1]
        <5>1. /\ i \in 3 .. Len(stack) + 1 /\ i + 1 \in 3 .. Len(stack) + 1
              /\ i + 1 - 1 = i
          BY <1>1, <1>3, <2>2, <3>3
        <5>2. stack'[i + 1] = stack[i + 1 - 1]
          BY <1>3, <5>1
        <5> QED
          BY <1>3, <5>1, <5>2
      <4> QED
        BY <4>2, <4>3
    <3> QED
      BY <1>1, <1>3, <2>2, <3>1, <3>2, <3>3
  <2> QED
    BY <1>3, <2>1, <2>2 DEF StackInv
<1> QED
  BY <1>2, <1>4 DEF GatewayInv, ReplyInv, DbInv

\* A call of nobody that is waiting.
LEMMA BeginStep ==
  ASSUME GatewayInv, NEW c \in CallSet, Begin(c), Lawful(c), ~NeedsKey(c)
  PROVE  GatewayInv'
<1>1. stack' = <<c>> /\ reply' = Null /\ db' = db
  BY DEF Begin
<1>2. stack' \in Seq(CallSet) /\ Len(stack') = 1 /\ stack'[1] = c
  BY <1>1
<1> QED
  BY <1>1, <1>2 DEF GatewayInv, StackInv, ReplyInv, DbInv

\* Nobody has been asked before a service has begun to work.
LEMMA NoReplyYet ==
  ASSUME GatewayInv, stack # <<>>, Top.next < 2, Top.to # "api-gateway"
  PROVE  reply = Null
<1>1. Top.next \in Nat
  BY TopCall DEF GatewayInv, CallSet
<1> QED
  BY <1>1 DEF GatewayInv, ReplyInv, Waits

-----------------------------------------------------------------------------
(* The services that answer at once.                                       *)

\* What a handler of an operation answers is told as promised.
LEMMA HandlerTold ==
  ASSUME NEW r \in Routes, NEW c,
         c.to = r.to, c.method = r.method, c.path = r.path,
         NEW s, s \notin {401, 403},
         r.op \in Documented /\ Asks(r.op, c)
           /\ c.defects \subseteq r.op.flaws => Promised(r.op, c.defects, s),
         PartOfTransfer(c) /\ c.to = "fx-service" =>
           s \in {0, 200, 404, 409, 500}
  PROVE  Told(c, s)
<1>1. ASSUME NEW q \in Ops, Asks(q, c)
      PROVE  q = r.op /\ c.defects \subseteq q.flaws
  <2>1. c.to # "api-gateway"
    BY RoutesAre
  <2>2. PICK t \in Routes :
          t.op = q /\ c.to = t.to /\ c.method = t.method /\ c.path = t.path
    BY <1>1, <2>1 DEF Asks, Sends, Forwards
  <2>3. t.to = r.to /\ t.method = r.method /\ t.path = r.path
    BY <2>2
  <2>4. t = r
    BY <2>3, SameRoute
  <2> QED
    BY <1>1, <2>2, <2>4 DEF Asks, Sends, Forwards
<1> QED
  BY <1>1 DEF Told

LEMMA HandlerStep ==
  ASSUME GatewayInv, NEW r \in Routes, Handling(r.to, r.method, r.path),
         NEW s, Answer(s), s \notin {401, 403}, DbGrows,
         r.op \in Documented /\ Asks(r.op, Top)
           /\ Top.defects \subseteq r.op.flaws =>
             Promised(r.op, Top.defects, s),
         PartOfTransfer(Top) /\ r.to = "fx-service" =>
           s \in {0, 200, 404, 409, 500}
  PROVE  GatewayInv'
<1>1. Told(Top, s)
  BY HandlerTold DEF Handling
<1> QED
  BY <1>1, AnswerStep DEF Handling

LEMMA DbStays ==
  ASSUME GatewayInv, UNCHANGED db
  PROVE  DbGrows
BY DEF GatewayInv, DbGrows, DbInv

LEMMA DbGains ==
  ASSUME GatewayInv, NEW kind, db' = db \cup {kind},
         kind \notin {"batch", "usedQuote"} \/ "key" \in db
  PROVE  DbGrows
BY DEF GatewayInv, DbGrows, DbInv

\* A request is refused if it has flaws, or else answered as documented.
LEMMA Strictly ==
  ASSUME NEW q, NEW defects, NEW s,
         IF s = 400 THEN defects # {} ELSE defects = {} /\ s \in q.statuses
  PROVE  Promised(q, defects, s)
BY DEF Promised

LEMMA PostUsersStep == GatewayInv /\ PostUsers => GatewayInv'
<1> SUFFICES ASSUME GatewayInv, PostUsers PROVE GatewayInv'
  OBVIOUS
<1>1. PICK r \in Routes :
        r = Route(createUser, "account-service", "POST", <<"users">>)
  BY DEF Routes
<1> DEFINE tested ==
             Required({"email", "fullName"}) \ {<<"email", "malformed">>}
           thrown == {<<"fullName", "mistyped">>, <<"phone", "mistyped">>}
<1>2. PICK s \in {201, 400, 409, 500} :
        /\ Answer(s) /\ (db' = db \/ db' = db \cup {"user"})
        /\ s = 400 => Top.defects # {}
        /\ s = 500 => Top.defects \cap thrown # {}
        /\ s \in {201, 409} => Top.defects \cap tested = {}
  BY DEF PostUsers, Refuse, Has, Reply, Create, Known
<1>3. DbGrows
  BY <1>2, DbStays, DbGains
<1>4. Top.defects \subseteq createUser.flaws =>
        Promised(createUser, Top.defects, s)
  <2> SUFFICES ASSUME Top.defects \subseteq createUser.flaws
               PROVE  Promised(createUser, Top.defects, s)
    OBVIOUS
  <2>1. /\ createUser.statuses = {201, 400, 409}
        /\ createUser.flaws = CreateUserRequest
    BY DEF createUser, Post
  <2>2. CASE s = 400
    BY <1>2, <2>2 DEF Promised
  <2>3. CASE s = 500
    <3>1. ASSUME NEW flaw \in thrown
          PROVE  <<createUser, flaw, 500>> \in Misanswered
      <4>1. flaw \in {"fullName", "phone"} \X {"mistyped"}
        OBVIOUS
      <4> QED
        BY <4>1 DEF Misanswered
    <3> QED
      BY <1>2, <2>3, <3>1 DEF Promised
  <2>4. CASE s \in {201, 409}
    <3>1. ASSUME NEW flaw \in Top.defects
          PROVE  <<createUser, flaw>> \in Unnoticed
      <4>1. flaw \in CreateUserRequest /\ flaw \notin tested
        BY <1>2, <2>1, <2>4
      <4>2. flaw \in {<<"email", "malformed">>, <<"phone", "mistyped">>}
        BY <4>1 DEF CreateUserRequest
      <4> QED
        BY <4>2 DEF Unnoticed
    <3> QED
      BY <2>1, <2>4, <3>1 DEF Promised
  <2> QED
    BY <1>2, <2>2, <2>3, <2>4
<1> QED
  BY <1>1, <1>2, <1>3, <1>4, HandlerStep DEF PostUsers, Route

LEMMA Undocumenteds ==
  ASSUME NEW q \in {getOperation, getLedgerInvariant, getAuditVerify}
  PROVE  q \notin Documented
BY DEF Documented, Get, Post, getHealth, getMetrics, createUser, createWallet,
       listWallets, getWalletBalance, applyWalletOperation,
       listTransactionHistory, createDomesticTransaction,
       createInternationalTransaction, createLedgerBatch, getLedgerBatch,
       checkLedgerInvariant, verifyAuditChain, createFxQuote, getFxQuote,
       consumeFxQuote, createPayrollJob, getPayrollJob, createIncident,
       getOperation, getLedgerInvariant, getAuditVerify

LEMMA PostWalletsStep == GatewayInv /\ PostWallets => GatewayInv'
<1> SUFFICES ASSUME GatewayInv, PostWallets PROVE GatewayInv'
  OBVIOUS
<1>1. PICK r \in Routes :
        r = Route(createWallet, "account-service", "POST",
                  <<"wallets">>)
  BY DEF Routes
<1>2. PICK s \in {201, 400, 404, 409} :
        /\ Answer(s) /\ (db' = db \/ db' = db \cup {"wallet"})
        /\ IF s = 400 THEN Top.defects # {}
           ELSE Top.defects = {}
  BY DEF PostWallets, Refuse, Has, Sound, Reply, Create, Known
<1>3. DbGrows
  BY <1>2, DbStays, DbGains
<1>4. Top.defects \subseteq createWallet.flaws =>
        Promised(createWallet, Top.defects, s)
  BY <1>2, Strictly DEF createWallet, Post
<1>5. ~(PartOfTransfer(Top) /\ Top.to = "fx-service")
  BY DEF PartOfTransfer, PostWallets, Handling
<1> QED
  BY <1>1, <1>2, <1>3, <1>4, <1>5, HandlerStep DEF PostWallets, Handling, Route

LEMMA GetWalletsStep == GatewayInv /\ GetWallets => GatewayInv'
<1> SUFFICES ASSUME GatewayInv, GetWallets PROVE GatewayInv'
  OBVIOUS
<1>1. PICK r \in Routes :
        r = Route(listWallets, "account-service", "GET",
                  <<"wallets", "id">>)
  BY DEF Routes
<1>2. PICK s \in {200, 400} :
        /\ Answer(s) /\ db' = db
        /\ IF s = 400 THEN Top.defects # {}
           ELSE Top.defects = {}
  BY DEF GetWallets, Refuse, Has, Sound, Reply, Create, Known
<1>3. DbGrows
  BY <1>2, DbStays, DbGains
<1>4. Top.defects \subseteq listWallets.flaws =>
        Promised(listWallets, Top.defects, s)
  BY <1>2, Strictly DEF listWallets, Get
<1>5. ~(PartOfTransfer(Top) /\ Top.to = "fx-service")
  BY DEF PartOfTransfer, GetWallets, Handling
<1> QED
  BY <1>1, <1>2, <1>3, <1>4, <1>5, HandlerStep DEF GetWallets, Handling, Route

LEMMA GetBalanceStep == GatewayInv /\ GetBalance => GatewayInv'
<1> SUFFICES ASSUME GatewayInv, GetBalance PROVE GatewayInv'
  OBVIOUS
<1>1. PICK r \in Routes :
        r = Route(getWalletBalance, "account-service", "GET",
                  <<"wallets", "id", "balance">>)
  BY DEF Routes
<1>2. PICK s \in {200, 400, 404} :
        /\ Answer(s) /\ db' = db
        /\ IF s = 400 THEN Top.defects # {}
           ELSE Top.defects = {}
  BY DEF GetBalance, Refuse, Has, Sound, Reply, Create, Known
<1>3. DbGrows
  BY <1>2, DbStays, DbGains
<1>4. Top.defects \subseteq getWalletBalance.flaws =>
        Promised(getWalletBalance, Top.defects, s)
  BY <1>2, Strictly DEF getWalletBalance, Get
<1>5. ~(PartOfTransfer(Top) /\ Top.to = "fx-service")
  BY DEF PartOfTransfer, GetBalance, Handling
<1> QED
  BY <1>1, <1>2, <1>3, <1>4, <1>5, HandlerStep DEF GetBalance, Handling, Route

LEMMA GetOperationStep == GatewayInv /\ GetOperation => GatewayInv'
<1> SUFFICES ASSUME GatewayInv, GetOperation PROVE GatewayInv'
  OBVIOUS
<1>1. PICK r \in Routes :
        r = Route(getOperation, "account-service", "GET",
                  <<"wallets", "id", "operations", "id">>)
  BY DEF Routes
<1>2. PICK s \in {200, 400, 404} :
        /\ Answer(s) /\ db' = db
        /\ IF s = 400 THEN Top.defects # {}
           ELSE Top.defects = {}
  BY DEF GetOperation, Refuse, Has, Sound, Reply, Create, Known
<1>3. DbGrows
  BY <1>2, DbStays, DbGains
<1>4. getOperation \notin Documented
  BY Undocumenteds
<1>5. ~(PartOfTransfer(Top) /\ Top.to = "fx-service")
  BY DEF PartOfTransfer, GetOperation, Handling
<1> QED
  BY <1>1, <1>2, <1>3, <1>4, <1>5, HandlerStep DEF GetOperation, Handling,
     Route

LEMMA PostOperationsStep == GatewayInv /\ PostOperations => GatewayInv'
<1> SUFFICES ASSUME GatewayInv, PostOperations PROVE GatewayInv'
  OBVIOUS
<1>1. PICK r \in Routes :
        r = Route(applyWalletOperation, "account-service", "POST",
                  <<"wallets", "id", "operations">>)
  BY DEF Routes
<1>2. PICK s \in {200, 400, 422, 500} :
        /\ Answer(s) /\ (db' = db \/ db' = db \cup {"operation"})
        /\ s = 400 <=> Top.defects # {}
  BY DEF PostOperations, Refuse, Has, Sound, Reply, Create, Known
<1>3. DbGrows
  BY <1>2, DbStays, DbGains
<1>4. Top.defects \subseteq applyWalletOperation.flaws =>
        Promised(applyWalletOperation, Top.defects, s)
  <2>1. <<applyWalletOperation, 500>> \in AlsoAnswered
    BY DEF AlsoAnswered
  <2>2. applyWalletOperation.statuses = {200, 400, 422}
    BY DEF applyWalletOperation, Post
  <2> QED
    BY <1>2, <2>1, <2>2 DEF Promised
<1>5. ~(PartOfTransfer(Top) /\ Top.to = "fx-service")
  BY DEF PartOfTransfer, PostOperations, Handling
<1> QED
  BY <1>1, <1>2, <1>3, <1>4, <1>5, HandlerStep DEF PostOperations, Handling,
     Route

LEMMA GetBatchesStep == GatewayInv /\ GetBatches => GatewayInv'
<1> SUFFICES ASSUME GatewayInv, GetBatches PROVE GatewayInv'
  OBVIOUS
<1>1. PICK r \in Routes :
        r = Route(getLedgerBatch, "ledger-service", "GET",
                  <<"batches", "id">>)
  BY DEF Routes
<1>2. PICK s \in {200, 400, 404} :
        /\ Answer(s) /\ db' = db
        /\ IF s = 400 THEN Top.defects # {}
           ELSE Top.defects = {}
  BY DEF GetBatches, Refuse, Has, Sound, Reply, Create, Known
<1>3. DbGrows
  BY <1>2, DbStays, DbGains
<1>4. Top.defects \subseteq getLedgerBatch.flaws =>
        Promised(getLedgerBatch, Top.defects, s)
  BY <1>2, Strictly DEF getLedgerBatch, Get
<1>5. ~(PartOfTransfer(Top) /\ Top.to = "fx-service")
  BY DEF PartOfTransfer, GetBatches, Handling
<1> QED
  BY <1>1, <1>2, <1>3, <1>4, <1>5, HandlerStep DEF GetBatches, Handling, Route

LEMMA PostQuoteStep == GatewayInv /\ PostQuote => GatewayInv'
<1> SUFFICES ASSUME GatewayInv, PostQuote PROVE GatewayInv'
  OBVIOUS
<1>1. PICK r \in Routes :
        r = Route(createFxQuote, "fx-service", "POST",
                  <<"quote">>)
  BY DEF Routes
<1> DEFINE tested ==
             {"baseCurrency", "quoteCurrency"} \X {"absent", "malformed"}
<1>2. PICK s \in {201, 400, 503} :
        /\ Answer(s) /\ (db' = db \/ db' = db \cup {"quote"})
        /\ s = 400 => Top.defects # {}
        /\ s = 503 => Top.defects \cap tested = {}
        /\ s = 201 => Top.defects = {}
  BY DEF PostQuote, Refuse, Has, Sound, Reply, Create, Known
<1>3. DbGrows
  BY <1>2, DbStays, DbGains
<1>4. Top.defects \subseteq createFxQuote.flaws =>
        Promised(createFxQuote, Top.defects, s)
  <2> SUFFICES ASSUME Top.defects \subseteq createFxQuote.flaws
               PROVE  Promised(createFxQuote, Top.defects, s)
    OBVIOUS
  <2>1. /\ createFxQuote.statuses = {201, 400, 503}
        /\ createFxQuote.flaws = CreateFxQuoteRequest
    BY DEF createFxQuote, Post
  <2>2. CASE s = 503 /\ Top.defects # {}
    <3>1. PICK flaw \in Top.defects :
            flaw \in {"baseCurrency", "quoteCurrency"} \X {"mistyped"}
      <4>1. PICK flaw \in Top.defects : flaw \in CreateFxQuoteRequest \ tested
        BY <1>2, <2>1, <2>2
      <4> QED
        BY <4>1 DEF CreateFxQuoteRequest, Required, Kinds
    <3>2. <<createFxQuote, flaw, 503>> \in Misanswered
      BY <3>1 DEF Misanswered
    <3> QED
      BY <2>2, <3>2 DEF Promised
  <2> QED
    BY <1>2, <2>1, <2>2, Strictly
<1>5. ~(PartOfTransfer(Top) /\ Top.to = "fx-service")
  BY DEF PartOfTransfer, PostQuote, Handling
<1> QED
  BY <1>1, <1>2, <1>3, <1>4, <1>5, HandlerStep DEF PostQuote, Handling, Route

LEMMA GetQuoteStep == GatewayInv /\ GetQuote => GatewayInv'
<1> SUFFICES ASSUME GatewayInv, GetQuote PROVE GatewayInv'
  OBVIOUS
<1>1. PICK r \in Routes :
        r = Route(getFxQuote, "fx-service", "GET",
                  <<"quote", "id">>)
  BY DEF Routes
<1>2. PICK s \in {200, 400, 404} :
        /\ Answer(s) /\ db' = db
        /\ IF s = 400 THEN Top.defects # {}
           ELSE Top.defects = {}
  BY DEF GetQuote, Refuse, Has, Sound, Reply, Create, Known
<1>3. DbGrows
  BY <1>2, DbStays, DbGains
<1>4. Top.defects \subseteq getFxQuote.flaws =>
        Promised(getFxQuote, Top.defects, s)
  BY <1>2, Strictly DEF getFxQuote, Get
<1>5. ~(PartOfTransfer(Top) /\ Top.to = "fx-service")
  BY DEF PartOfTransfer, GetQuote, Handling
<1> QED
  BY <1>1, <1>2, <1>3, <1>4, <1>5, HandlerStep DEF GetQuote, Handling, Route

LEMMA GetJobsStep == GatewayInv /\ GetJobs => GatewayInv'
<1> SUFFICES ASSUME GatewayInv, GetJobs PROVE GatewayInv'
  OBVIOUS
<1>1. PICK r \in Routes :
        r = Route(getPayrollJob, "payroll-service", "GET",
                  <<"jobs", "id">>)
  BY DEF Routes
<1>2. PICK s \in {200, 400, 404} :
        /\ Answer(s) /\ db' = db
        /\ IF s = 400 THEN Top.defects # {}
           ELSE Top.defects = {}
  BY DEF GetJobs, Refuse, Has, Sound, Reply, Create, Known
<1>3. DbGrows
  BY <1>2, DbStays, DbGains
<1>4. Top.defects \subseteq getPayrollJob.flaws =>
        Promised(getPayrollJob, Top.defects, s)
  BY <1>2, Strictly DEF getPayrollJob, Get
<1>5. ~(PartOfTransfer(Top) /\ Top.to = "fx-service")
  BY DEF PartOfTransfer, GetJobs, Handling
<1> QED
  BY <1>1, <1>2, <1>3, <1>4, <1>5, HandlerStep DEF GetJobs, Handling, Route

LEMMA PostJobsStep == GatewayInv /\ PostJobs => GatewayInv'
<1> SUFFICES ASSUME GatewayInv, PostJobs PROVE GatewayInv'
  OBVIOUS
<1>1. PICK r \in Routes :
        r = Route(createPayrollJob, "payroll-service", "POST",
                  <<"jobs">>)
  BY DEF Routes
<1>2. PICK s \in {202, 400, 500} :
        /\ Answer(s) /\ (db' = db \/ db' = db \cup {"job"})
        /\ s = 500 => <<"items", "mistyped">> \in Top.defects
        /\ s = 202 => Top.defects = {}
  BY DEF PostJobs, Refuse, Has, Sound, Reply, Create, Known
<1>3. DbGrows
  BY <1>2, DbStays, DbGains
<1>4. Top.defects \subseteq createPayrollJob.flaws =>
        Promised(createPayrollJob, Top.defects, s)
  <2>1. /\ <<createPayrollJob, 400>> \in AlsoAnswered
        /\ <<createPayrollJob, <<"items", "mistyped">>, 500>> \in Misanswered
    BY DEF AlsoAnswered, Misanswered
  <2>2. createPayrollJob.statuses = {202, 400}
    BY DEF createPayrollJob, Post
  <2> QED
    BY <1>2, <2>1, <2>2 DEF Promised
<1>5. ~(PartOfTransfer(Top) /\ Top.to = "fx-service")
  BY DEF PartOfTransfer, PostJobs, Handling
<1> QED
  BY <1>1, <1>2, <1>3, <1>4, <1>5, HandlerStep DEF PostJobs, Handling, Route

LEMMA PostIncidentsStep == GatewayInv /\ PostIncidents => GatewayInv'
<1> SUFFICES ASSUME GatewayInv, PostIncidents PROVE GatewayInv'
  OBVIOUS
<1>1. PICK r \in Routes :
        r = Route(createIncident, "admin-service", "POST",
                  <<"incidents">>)
  BY DEF Routes
<1>2. PICK s \in {201, 400} :
        /\ Answer(s) /\ db' = db
        /\ s = 400 <=> Top.defects # {}
  BY DEF PostIncidents, Refuse, Has, Sound, Reply, Create, Known
<1>3. DbGrows
  BY <1>2, DbStays, DbGains
<1>4. Top.defects \subseteq createIncident.flaws =>
        Promised(createIncident, Top.defects, s)
  BY <1>2, Strictly DEF createIncident, Post
<1>5. ~(PartOfTransfer(Top) /\ Top.to = "fx-service")
  BY DEF PartOfTransfer, PostIncidents, Handling
<1> QED
  BY <1>1, <1>2, <1>3, <1>4, <1>5, HandlerStep DEF PostIncidents, Handling,
     Route

LEMMA GetTransactionsStep == GatewayInv /\ GetTransactions => GatewayInv'
<1> SUFFICES ASSUME GatewayInv, GetTransactions PROVE GatewayInv'
  OBVIOUS
<1>1. PICK r \in Routes :
        r = Route(listTransactionHistory, "transaction-service", "GET",
                  <<"transactions">>)
  BY DEF Routes
<1>2. PICK s \in {200, 400} :
        /\ Answer(s) /\ db' = db
        /\ IF s = 400 THEN Top.defects # {}
           ELSE Top.defects \cap (listTransactionHistory.flaws \ Lax) = {}
  BY DEF GetTransactions, Refuse, Has, Sound, Reply, Create, Known
<1>3. DbGrows
  BY <1>2, DbStays, DbGains
<1>4. Top.defects \subseteq listTransactionHistory.flaws =>
        Promised(listTransactionHistory, Top.defects, s)
  <2>1. \A flaw \in Lax : <<listTransactionHistory, flaw>> \in Unnoticed
    BY DEF Unnoticed
  <2>2. listTransactionHistory.statuses = {200, 400}
    BY DEF listTransactionHistory, Get
  <2> QED
    BY <1>2, <2>1, <2>2 DEF Promised
<1>5. ~(PartOfTransfer(Top) /\ Top.to = "fx-service")
  BY DEF PartOfTransfer, GetTransactions, Handling
<1> QED
  BY <1>1, <1>2, <1>3, <1>4, <1>5, HandlerStep DEF GetTransactions, Handling,
     Route

LEMMA GetInvariantCheckStep == GatewayInv /\ GetInvariantCheck => GatewayInv'
<1> SUFFICES ASSUME GatewayInv, GetInvariantCheck PROVE GatewayInv'
  OBVIOUS
<1>1. PICK r \in Routes :
        r = Route(checkLedgerInvariant, "ledger-service", "GET",
                  <<"invariant-check">>)
  BY DEF Routes
<1>2. PICK s \in {200} :
        /\ Answer(s) /\ db' = db
  BY DEF GetInvariantCheck, Refuse, Has, Sound, Reply, Create, Known
<1>3. DbGrows
  BY <1>2, DbStays, DbGains
<1>4. Top.defects \subseteq checkLedgerInvariant.flaws =>
        Promised(checkLedgerInvariant, Top.defects, s)
  BY <1>2 DEF Promised, checkLedgerInvariant, Get
<1>5. ~(PartOfTransfer(Top) /\ Top.to = "fx-service")
  BY DEF PartOfTransfer, GetInvariantCheck, Handling
<1> QED
  BY <1>1, <1>2, <1>3, <1>4, <1>5, HandlerStep DEF GetInvariantCheck,
     Handling, Route

LEMMA GetAuditVerifyStep == GatewayInv /\ GetAuditVerify => GatewayInv'
<1> SUFFICES ASSUME GatewayInv, GetAuditVerify PROVE GatewayInv'
  OBVIOUS
<1>1. PICK r \in Routes :
        r = Route(verifyAuditChain, "ledger-service", "GET",
                  <<"audit", "verify">>)
  BY DEF Routes
<1>2. PICK s \in {200} :
        /\ Answer(s) /\ db' = db
  BY DEF GetAuditVerify, Refuse, Has, Sound, Reply, Create, Known
<1>3. DbGrows
  BY <1>2, DbStays, DbGains
<1>4. Top.defects \subseteq verifyAuditChain.flaws =>
        Promised(verifyAuditChain, Top.defects, s)
  BY <1>2 DEF Promised, verifyAuditChain, Get
<1>5. ~(PartOfTransfer(Top) /\ Top.to = "fx-service")
  BY DEF PartOfTransfer, GetAuditVerify, Handling
<1> QED
  BY <1>1, <1>2, <1>3, <1>4, <1>5, HandlerStep DEF GetAuditVerify, Handling,
     Route

\* The internal operations are executed for transfers only.
LEMMA ForATransfer ==
  ASSUME GatewayInv, stack # <<>>, Top.next = 1, Internal(Top)
  PROVE  /\ "key" \in db /\ PartOfTransfer(Top)
         /\ \A q \in Ops : ~Asks(q, Top)
<1>1. Lawful(Top) /\ (NeedsKey(Top) => "key" \in db)
  BY TopCall DEF GatewayInv
<1>2. Top.from # "api-gateway"
  BY <1>1 DEF Lawful
<1>3. \A q \in Ops : ~Asks(q, Top)
  BY <1>2 DEF Asks, Sends, Forwards, Internal
<1>4. PartOfTransfer(Top)
  BY <1>1, <1>3 DEF Lawful, Origin, Internal, Diagnoses, OnItsOwn
<1>5. NeedsKey(Top)
  BY <1>4 DEF NeedsKey, PartOfTransfer, Internal
<1> QED
  BY <1>1, <1>3, <1>4, <1>5

LEMMA PostBatchesStep == GatewayInv /\ PostBatches => GatewayInv'
<1> SUFFICES ASSUME GatewayInv, PostBatches PROVE GatewayInv'
  OBVIOUS
<1>1. PICK r \in Routes :
        r = Route(createLedgerBatch, "ledger-service", "POST", <<"batches">>)
  BY DEF Routes
<1>2. PICK s \in {200, 201, 400, 422, 500} :
        Answer(s) /\ (db' = db \/ db' = db \cup {"batch"})
  BY DEF PostBatches, Refuse, Reply, Create, Known
<1>3. "key" \in db
  BY ForATransfer DEF PostBatches, Handling, Internal
<1>4. DbGrows
  <2>1. db' = db \/ db' = db \cup {"batch"}
    BY <1>2
  <2> QED
    BY <1>3, <2>1, DbStays, DbGains
<1>5. ~Asks(createLedgerBatch, Top)
  BY ForATransfer DEF Ops, Documented, PostBatches, Handling, Internal
<1> QED
  BY <1>1, <1>2, <1>4, <1>5, HandlerStep DEF PostBatches, Handling, Route

LEMMA PostConsumeStep == GatewayInv /\ PostConsume => GatewayInv'
<1> SUFFICES ASSUME GatewayInv, PostConsume PROVE GatewayInv'
  OBVIOUS
<1>1. PICK r \in Routes :
        r = Route(consumeFxQuote, "fx-service", "POST",
                  <<"quote", "id", "consume">>)
  BY DEF Routes
<1>2. PICK s \in {200, 400, 404, 409, 500} :
        /\ Answer(s) /\ (db' = db \/ db' = db \cup {"usedQuote"})
        /\ s = 400 => Top.defects \cap ConsumeFxQuoteRequest # {}
  BY DEF PostConsume, Refuse, Has, Reply, Create, Known
<1>3. "key" \in db /\ PartOfTransfer(Top)
  BY ForATransfer DEF PostConsume, Handling, Internal
<1>4. DbGrows
  <2>1. db' = db \/ db' = db \cup {"usedQuote"}
    BY <1>2
  <2> QED
    BY <1>3, <2>1, DbStays, DbGains
<1>5. s # 400
  <2>1. Top.defects \subseteq Id
    BY <1>3 DEF PartOfTransfer, PostConsume, Handling
  <2>2. Id \cap ConsumeFxQuoteRequest = {}
    BY DEF Id, ConsumeFxQuoteRequest, Required
  <2> QED
    BY <1>2, <2>1, <2>2
<1>6. ~Asks(consumeFxQuote, Top)
  BY ForATransfer DEF Ops, Documented, PostConsume, Handling, Internal
<1> QED
  BY <1>1, <1>2, <1>4, <1>5, <1>6, HandlerStep DEF PostConsume, Route

-----------------------------------------------------------------------------
(* The gateway and the rules.                                              *)

LEMMA MetricsStep == GatewayInv /\ Metrics => GatewayInv'
<1> SUFFICES ASSUME GatewayInv, Metrics PROVE GatewayInv'
  OBVIOUS
<1>1. /\ stack # <<>> /\ Answer(200) /\ db' = db
      /\ Top.to # "api-gateway" /\ Top.path \in PublicPaths
  BY DEF Metrics, Handling, Reply, PublicPaths
<1>2. ASSUME NEW q \in Ops PROVE ~Asks(q, Top)
  BY <1>1, RoutesAre DEF Asks, Sends, Forwards
<1>3. Told(Top, 200)
  BY <1>2 DEF Told
<1> QED
  BY <1>1, <1>3, DbStays, AnswerStep

\* What comes to the gateway is a client's request or a scrape.
LEMMA ToTheGateway ==
  ASSUME NEW c, Origin(c), c.to = "api-gateway"
  PROVE  /\ \A q \in Ops : ~Forwards(q, c)
         /\ c.path \in PublicPaths \/ \E q \in Ops : Sends(q, c)
<1>1. \A q \in Ops : ~Forwards(q, c)
  BY RoutesAre DEF Forwards
<1>2. ASSUME OnItsOwn(c) PROVE c.path \in PublicPaths
  BY <1>2 DEF OnItsOwn, PublicPaths
<1>3. ~PartOfTransfer(c) /\ ~Diagnoses(c)
  BY DEF PartOfTransfer, Diagnoses
<1> QED
  BY <1>1, <1>2, <1>3 DEF Origin, Asks

LEMMA GatewayHealthStep == GatewayInv /\ GatewayHealth => GatewayInv'
<1> SUFFICES ASSUME GatewayInv, GatewayHealth PROVE GatewayInv'
  OBVIOUS
<1>1. /\ stack # <<>> /\ Answer(200) /\ db' = db
      /\ Top.to = "api-gateway" /\ Top.path \in PublicPaths
  BY DEF GatewayHealth
<1>2. ASSUME NEW q \in Ops, Asks(q, Top)
      PROVE  Promised(q, Top.defects, 200)
  <2>1. Sends(q, Top)
    BY <1>1, <1>2, RoutesAre DEF Asks, Forwards
  <2>2. q.path \in PublicPaths /\ Top.defects \subseteq q.flaws
    BY <1>1, <2>1 DEF Sends
  <2>3. q \in {getHealth, getMetrics}
    BY <2>2 DEF PublicPaths, Ops, Documented, Undocumented, Get, Post,
         createUser, createWallet, listWallets, getWalletBalance,
         applyWalletOperation, listTransactionHistory,
         createDomesticTransaction, createInternationalTransaction,
         createLedgerBatch, getLedgerBatch, checkLedgerInvariant,
         verifyAuditChain, createFxQuote, getFxQuote, consumeFxQuote,
         createPayrollJob, getPayrollJob, createIncident
  <2> QED
    BY <2>2, <2>3 DEF Promised, getHealth, getMetrics, Get
<1>3. Told(Top, 200)
  BY <1>2 DEF Told
<1> QED
  BY <1>1, <1>3, DbStays, AnswerStep

\* The gateway answers what it is told.
LEMMA RelayStep == GatewayInv /\ Relay => GatewayInv'
<1> SUFFICES ASSUME GatewayInv, Relay PROVE GatewayInv'
  OBVIOUS
<1>1. /\ stack # <<>> /\ Top.to = "api-gateway" /\ reply # Null
      /\ Answer(reply.status) /\ db' = db
  BY DEF Relay
<1>2. /\ Waits(Top, reply.call) /\ Told(reply.call, reply.status)
  BY <1>1 DEF GatewayInv, ReplyInv
<1>3. PICK q \in Ops : Sends(q, Top) /\ Forwards(q, reply.call)
  BY <1>1, <1>2 DEF Waits
<1>4. reply.call.defects = Top.defects
  BY <1>1, <1>2 DEF Waits
<1>5. /\ q \in Documented => Promised(q, Top.defects, reply.status)
      /\ reply.status \in {401, 403} =>
           q \in {createLedgerBatch, consumeFxQuote}
  BY <1>2, <1>3, <1>4 DEF Told, Asks
<1>6. \A r \in Ops : Asks(r, Top) => r = q
  BY <1>3, OneOp DEF Asks
<1>7. Top.from = "client"
  BY <1>3 DEF Sends
<1>8. Told(Top, reply.status)
  BY <1>1, <1>5, <1>6, <1>7 DEF Told
<1> QED
  BY <1>1, <1>8, DbStays, AnswerStep

\* The gateway passes a request on.
LEMMA ForwardStep == GatewayInv /\ Forward => GatewayInv'
<1> SUFFICES ASSUME GatewayInv, Forward PROVE GatewayInv'
  OBVIOUS
<1>1. /\ stack # <<>> /\ Top.to = "api-gateway" /\ Top.next = 0
      /\ Top.path \notin PublicPaths /\ UNCHANGED db
      /\ Ask(Upstream(Top.path[1]), Top.method, Rewrite(Top.path), Top.defects)
  BY DEF Forward
<1>2. Top \in CallSet /\ Lawful(Top)
  BY <1>1, TopCall DEF GatewayInv
<1>3. PICK q \in Ops : Sends(q, Top)
  BY <1>1, <1>2, ToTheGateway DEF Lawful
<1>4. PICK r \in Routes : r.op = q /\ Leads(q, r.to, r.path)
  BY <1>1, <1>3, Routed DEF Sends
<1> DEFINE c == Call(Top.to, r.to, Top.method, r.path, Top.defects)
           p == [Top EXCEPT !.next = @ + 1]
<1>5. /\ c.from = "api-gateway" /\ c.to = r.to /\ c.method = r.method
      /\ c.path = r.path /\ c.defects = Top.defects /\ c.next = 0
  BY <1>1, <1>3, <1>4, RoutesAre DEF Sends, Call
<1>6. c \in CallSet
  BY <1>1, <1>2, RoutesAre DEF CallSet, Call, Services
<1>7. Ask(r.to, Top.method, r.path, Top.defects)
  BY <1>1, <1>3, <1>4 DEF Leads, Sends
<1>8. /\ p.from = "client" /\ p.to = "api-gateway" /\ p.method = Top.method
      /\ p.path = Top.path /\ p.defects = Top.defects /\ p.next = 1
  BY <1>1, <1>2, <1>3 DEF Sends, CallSet
<1> HIDE DEF c, p
<1>9. Sends(q, p) /\ Forwards(q, c)
  BY <1>3, <1>4, <1>5, <1>8 DEF Sends, Forwards
<1>10. Lawful(p) /\ Lawful(c)
  BY <1>5, <1>8, <1>9 DEF Lawful, Origin, Asks
<1>11. ~NeedsKey(p) /\ ~NeedsKey(c)
  BY <1>5, <1>8 DEF NeedsKey
<1>12. Waits(p, c)
  BY <1>5, <1>8, <1>9 DEF Waits
<1> QED
  BY <1>1, <1>6, <1>7, <1>10, <1>11, <1>12, AskStep DEF c, p

\* A service admits a call, or refuses it for a client.
LEMMA AuthStep == GatewayInv /\ registerServiceAuth => GatewayInv'
<1> SUFFICES ASSUME GatewayInv, registerServiceAuth PROVE GatewayInv'
  OBVIOUS
<1>1. /\ stack # <<>> /\ Top.to # "api-gateway" /\ Top.next = 0
      /\ UNCHANGED db
  BY DEF registerServiceAuth
<1>2. /\ Top \in CallSet /\ Lawful(Top) /\ (NeedsKey(Top) => "key" \in db)
      /\ reply = Null
  BY <1>1, TopCall, NoReplyYet DEF GatewayInv
<1>3. ASSUME Goto(1), Top.from = "api-gateway" => ~Internal(Top)
      PROVE  GatewayInv'
  <2> DEFINE c == [Top EXCEPT !.next = 1]
  <2>1. /\ c.from = Top.from /\ c.to = Top.to /\ c.method = Top.method
        /\ c.path = Top.path /\ c.defects = Top.defects /\ c.next = 1
    BY <1>2 DEF CallSet
  <2> HIDE DEF c
  <2>2. Origin(c)
    BY <1>2, <2>1, SameOrigin DEF Lawful
  <2>3. Lawful(c) /\ (NeedsKey(c) => "key" \in db')
    BY <1>1, <1>2, <1>3, <2>1, <2>2 DEF Lawful, NeedsKey, Internal
  <2> QED
    BY <1>1, <1>2, <1>3, <2>3, DbStays, GotoStep DEF c
<1>4. CASE Top.path \in PublicPaths
  <2>1. Goto(1)
    BY <1>4 DEF registerServiceAuth
  <2>2. ~Internal(Top)
    BY <1>4 DEF Internal, PublicPaths
  <2> QED
    BY <1>3, <2>1, <2>2
<1>5. CASE Top.path \notin PublicPaths
  <2>1. /\ Identity(Top.from) \in DOMAIN Allow(Top.to)
        /\ Admits(Top) <=> (Top.from = "api-gateway" => ~Internal(Top))
    BY <1>1, <1>2, <1>5, Admission DEF Lawful
  <2>2. IF Admits(Top) THEN Goto(1) ELSE Answer(403)
    BY <1>5, <2>1 DEF registerServiceAuth, Admits
  <2>3. CASE Admits(Top)
    BY <1>3, <2>1, <2>2, <2>3
  <2>4. CASE ~Admits(Top)
    <3>1. Answer(403) /\ Top.from = "api-gateway" /\ Internal(Top)
      BY <2>1, <2>2, <2>4
    <3>2. ASSUME NEW q \in Ops, Asks(q, Top)
          PROVE  q \in {createLedgerBatch, consumeFxQuote}
      <4>1. PICK r \in Routes : /\ r.op = q /\ Top.to = r.to
                                /\ Top.method = r.method /\ Top.path = r.path
        BY <1>1, <3>2 DEF Asks, Sends, Forwards
      <4>2. \/ r.to = "ledger-service" /\ r.method = "POST"
               /\ r.path = <<"batches">>
            \/ r.to = "fx-service" /\ r.method = "POST"
               /\ r.path = <<"quote", "id", "consume">>
        BY <3>1, <4>1 DEF Internal
      <4>3. r.op \in {createLedgerBatch, consumeFxQuote}
        BY <4>2 DEF Routes, Route
      <4> QED
        BY <4>1, <4>3
    <3>3. \A q \in {createLedgerBatch, consumeFxQuote} :
            Promised(q, Top.defects, 403)
      BY DEF Promised, NotForClients
    <3>4. Told(Top, 403)
      BY <3>1, <3>2, <3>3 DEF Told, PartOfTransfer
    <3> QED
      BY <1>1, <3>1, <3>4, DbStays, AnswerStep
  <2> QED
    BY <2>3, <2>4
<1> QED
  BY <1>4, <1>5

-----------------------------------------------------------------------------
(* admin-service's questions to the ledger.                                *)

LEMMA GetDiagnosticsStep == GatewayInv /\ GetDiagnostics => GatewayInv'
<1> SUFFICES ASSUME GatewayInv, GetDiagnostics PROVE GatewayInv'
  OBVIOUS
<1>1. /\ stack # <<>> /\ Top.to = "admin-service" /\ Top.next = 1
      /\ UNCHANGED db
      /\ Top.path \in {<<"ledger-invariant">>, <<"audit", "verify">>}
  BY DEF GetDiagnostics
<1>2. PICK path \in {<<"invariant-check">>, <<"audit", "verify">>} :
        Ask("ledger-service", "GET", path, {})
  BY DEF GetDiagnostics
<1>3. Top \in CallSet /\ Lawful(Top)
  BY <1>1, TopCall DEF GatewayInv
<1> DEFINE c == Call(Top.to, "ledger-service", "GET", path, {})
           p == [Top EXCEPT !.next = @ + 1]
<1>4. /\ c.from = "admin-service" /\ c.to = "ledger-service"
      /\ c.method = "GET" /\ c.path = path /\ c.defects = {} /\ c.next = 0
  BY <1>1 DEF Call
<1>5. c \in CallSet
  <2>1. path \in {r.path : r \in Routes}
    BY <1>2 DEF Routes, Route
  <2> QED
    BY <1>1, <2>1 DEF CallSet, Call, Services
<1>6. /\ p.from = Top.from /\ p.to = Top.to /\ p.method = Top.method
      /\ p.path = Top.path /\ p.defects = Top.defects /\ p.next = 2
  BY <1>1, <1>3 DEF CallSet
<1> HIDE DEF c, p
<1>7. Diagnoses(c)
  BY <1>2, <1>4 DEF Diagnoses
<1>8. Origin(p)
  BY <1>3, <1>6, SameOrigin DEF Lawful
<1>9. Lawful(p) /\ Lawful(c)
  BY <1>1, <1>4, <1>6, <1>7, <1>8 DEF Lawful, Origin, Internal
<1>10. NeedsKey(p) \/ NeedsKey(c) => "key" \in db
  <2>1. ~NeedsKey(c) /\ (NeedsKey(p) => NeedsKey(Top))
    BY <1>1, <1>4, <1>6 DEF NeedsKey
  <2> QED
    BY <1>1, <2>1, TopCall DEF GatewayInv
<1>11. Waits(p, c)
  BY <1>1, <1>4, <1>6, <1>7 DEF Waits
<1> QED
  BY <1>1, <1>2, <1>5, <1>9, <1>10, <1>11, AskStep DEF c, p

LEMMA ForwardDiagnosticsStep ==
  GatewayInv /\ ForwardDiagnostics => GatewayInv'
<1> SUFFICES ASSUME GatewayInv, ForwardDiagnostics PROVE GatewayInv'
  OBVIOUS
<1>1. /\ stack # <<>> /\ Top.to = "admin-service" /\ Top.next = 2
      /\ reply # Null /\ db' = db
      /\ Answer(IF reply.status = 0 THEN 500 ELSE reply.status)
  BY DEF ForwardDiagnostics, Reply
<1>2. /\ Waits(Top, reply.call) /\ Told(reply.call, reply.status)
  BY <1>1 DEF GatewayInv, ReplyInv
<1>3. /\ reply.call.from = "admin-service"
      /\ Top.path \in {<<"ledger-invariant">>, <<"audit", "verify">>}
  BY <1>1, <1>2 DEF Waits
<1>4. PICK s : /\ s = IF reply.status = 0 THEN 500 ELSE reply.status
               /\ s \notin {401, 403}
  BY <1>2, <1>3 DEF Told
<1>5. ASSUME NEW q \in Ops, Asks(q, Top) PROVE q \notin Documented
  <2>1. PICK r \in Routes : r.op = q /\ Top.to = r.to /\ Top.path = r.path
    BY <1>1, <1>5 DEF Asks, Sends, Forwards
  <2>2. r.to = "admin-service"
        /\ r.path \in {<<"ledger-invariant">>, <<"audit", "verify">>}
    BY <1>1, <1>3, <2>1
  <2>3. r.op \in {getLedgerInvariant, getAuditVerify}
    BY <2>2 DEF Routes, Route
  <2> QED
    BY <2>1, <2>3, Undocumenteds
<1>6. Told(Top, s)
  BY <1>1, <1>4, <1>5 DEF Told
<1> QED
  BY <1>1, <1>4, <1>6, DbStays, AnswerStep

\* A service gives up waiting for another one.
LEMMA TimeOutStep == GatewayInv /\ TimeOut => GatewayInv'
<1> SUFFICES ASSUME GatewayInv, TimeOut PROVE GatewayInv'
  OBVIOUS
<1>1. /\ stack # <<>> /\ Answer(0) /\ db' = db
      /\ Top.from \in {"transaction-service", "admin-service"}
  BY DEF TimeOut, Reply, GatewayInv, StackInv
<1>2. Told(Top, 0)
  BY <1>1 DEF Told, Asks, Sends, Forwards
<1> QED
  BY <1>1, <1>2, DbStays, AnswerStep

-----------------------------------------------------------------------------
(* A transfer.                                                             *)

\* A transfer is executed with the flaws only that show at the consumption.
LEMMA NotFatal ==
  /\ \A flaw \in createDomesticTransaction.flaws :
       flaw \in FatalFlaws(<<"transactions">>)
  /\ \A flaw \in createInternationalTransaction.flaws :
       \/ flaw \in FatalFlaws(International)
       \/ <<createInternationalTransaction, flaw>> \in Unnoticed
<1>1. ASSUME NEW flaw \in createDomesticTransaction.flaws
      PROVE  flaw \in FatalFlaws(<<"transactions">>)
  <2>1. flaw \in IdempotencyKey \cup DomesticTransactionRequest
    BY <1>1 DEF createDomesticTransaction, Post
  <2>2. \/ flaw \in EarlyFlaws(<<"transactions">>)
        \/ flaw \in LateFlaws(<<"transactions">>)
    BY <2>1 DEF DomesticTransactionRequest, EarlyFlaws, Required, International
  <2>3. flaw \notin NullQuote
    BY <2>1 DEF IdempotencyKey, DomesticTransactionRequest, Required, NullQuote
  <2> QED
    BY <2>2, <2>3 DEF FatalFlaws
<1>2. ASSUME NEW flaw \in createInternationalTransaction.flaws
      PROVE  \/ flaw \in FatalFlaws(International)
             \/ <<createInternationalTransaction, flaw>> \in Unnoticed
  <2>1. flaw \in IdempotencyKey \cup InternationalTransactionRequest
    BY <1>2 DEF createInternationalTransaction, Post
  <2> DEFINE slips ==
               AtConsumption \cup NullQuote \cup {<<"quoteId", "absent">>}
  <2>2. CASE flaw \in slips
    BY <2>2 DEF Unnoticed
  <2>3. CASE flaw \notin slips
    <3>1. CASE flaw \in Required({"quoteId"})
      <4>1. flaw = <<"quoteId", "malformed">>
        BY <2>3, <3>1 DEF Required, Kinds, NullQuote
      <4> QED
        BY <2>3, <4>1 DEF LateFlaws, Optional, FatalFlaws
    <3>2. CASE flaw \notin Required({"quoteId"})
      <4>1. flaw \in IdempotencyKey \cup
              Required({"senderWalletId", "recipientWalletId",
                        "sourceAmountCents", "sourceCurrency"})
        BY <2>1, <2>3, <3>2 DEF InternationalTransactionRequest, AtConsumption,
           Required
      <4>2. flaw \in EarlyFlaws(International) \cup LateFlaws(International)
        BY <4>1 DEF EarlyFlaws, Required
      <4> QED
        BY <2>3, <4>2 DEF FatalFlaws
    <3> QED
      BY <3>1, <3>2
  <2> QED
    BY <2>2, <2>3
<1> QED
  BY <1>1, <1>2

\* What a transfer may answer.
Justified(s) ==
  \/ s = 400 /\ Top.defects # {}
  \/ s = 409 /\ Top.defects \cap LateFlaws(Top.path) # {}
  \/ s # 400 /\ Executable(Top)

LEMMA TransferTold ==
  ASSUME GatewayInv, Transferring, NEW s, s \notin {401, 403},
         IsInternational =>
           s \in {200, 201, 202, 400, 404, 409, 422, 500, 503},
         ~IsInternational /\ ~IsRecovery =>
           s \in {200, 201, 202, 400, 409, 500},
         ~IsRecovery => Justified(s)
  PROVE  Told(Top, s)
<1>1. stack # <<>> /\ Top.to = "transaction-service"
  BY DEF Transferring
<1>2. ASSUME NEW q \in Ops, Asks(q, Top)
      PROVE  /\ Top.defects \subseteq q.flaws
             /\ \/ IsInternational /\ q = createInternationalTransaction
                \/ /\ ~IsInternational /\ ~IsRecovery
                   /\ q = createDomesticTransaction
  <2>1. PICK r \in Routes : /\ r.op = q /\ Top.to = r.to
                            /\ Top.method = r.method /\ Top.path = r.path
    BY <1>1, <1>2 DEF Asks, Sends, Forwards
  <2>2. /\ r.to = "transaction-service"
        /\ \/ r.path = <<"transfers", "international">>
           \/ r.path = <<"internal", "recover">>
           \/ r.method = "POST" /\ r.path = <<"transactions">>
    BY <1>1, <2>1 DEF Transferring, IsInternational, International, IsRecovery
  <2>3. \/ /\ r.path = <<"transfers", "international">>
           /\ r.op = createInternationalTransaction
        \/ r.path = <<"transactions">> /\ r.op = createDomesticTransaction
    BY <2>2 DEF Routes, Route
  <2>4. Top.defects \subseteq q.flaws
    BY <1>2 DEF Asks, Sends, Forwards
  <2>5. CASE r.path = <<"transfers", "international">>
    <3>1. r.op = createInternationalTransaction
      BY <2>3, <2>5
    <3> QED
      BY <2>1, <2>4, <2>5, <3>1 DEF IsInternational, International
  <2>6. CASE r.path # <<"transfers", "international">>
    <3>1. r.path = <<"transactions">> /\ r.op = createDomesticTransaction
      BY <2>3, <2>6
    <3>2. ~IsInternational /\ ~IsRecovery
      BY <2>1, <3>1 DEF IsInternational, International, IsRecovery
    <3> QED
      BY <2>1, <2>4, <3>1, <3>2
  <2> QED
    BY <2>5, <2>6
<1>3. ASSUME NEW q \in Ops, Asks(q, Top) PROVE Promised(q, Top.defects, s)
  <2>1. CASE IsInternational /\ q = createInternationalTransaction
    <3>1. ~IsRecovery /\ Top.defects \subseteq q.flaws
      BY <1>2, <1>3, <2>1 DEF IsInternational, International, IsRecovery
    <3>2. Top.path = International
      BY <2>1 DEF IsInternational
    <3>3. CASE s = 409 /\ Top.defects \cap LateFlaws(International) # {}
      <4>1. \A flaw \in LateFlaws(International) :
              <<q, flaw, 409>> \in Misanswered
        BY <2>1 DEF Misanswered
      <4>2. PICK flaw \in Top.defects : <<q, flaw, 409>> \in Misanswered
        BY <3>3, <4>1
      <4> QED
        BY <3>3, <4>2 DEF Promised
    <3>4. CASE s # 400 /\ Executable(Top)
      <4>1. Top.defects \cap FatalFlaws(International) = {}
        BY <3>2, <3>4 DEF Executable
      <4>2. ASSUME NEW flaw \in Top.defects PROVE <<q, flaw>> \in Unnoticed
        <5>1. /\ flaw \in createInternationalTransaction.flaws
              /\ flaw \notin FatalFlaws(International)
          BY <2>1, <3>1, <3>4, <4>1
        <5> QED
          BY <2>1, <5>1, NotFatal
      <4>3. s \in {201, 202, 409, 422, 503} \/ s \in {200, 404, 500}
        BY <2>1, <3>4
      <4>4. s \in q.statuses \ {400} \/ <<q, s>> \in AlsoAnswered
        <5>1. q.statuses = {201, 202, 400, 409, 422, 503}
          BY <2>1 DEF createInternationalTransaction, Post
        <5>2. \A n \in {200, 404, 500} : <<q, n>> \in AlsoAnswered
          BY <2>1 DEF AlsoAnswered
        <5> QED
          BY <4>3, <5>1, <5>2
      <4> QED
        BY <4>2, <4>4 DEF Promised
    <3> QED
      BY <3>1, <3>2, <3>3, <3>4 DEF Promised, Justified
  <2>2. CASE ~IsInternational /\ ~IsRecovery /\ q = createDomesticTransaction
    <3>1. Top.defects \subseteq q.flaws
      BY <1>2, <1>3, <2>2
    <3>2. Top.path = <<"transactions">>
      BY <2>2 DEF Transferring
    <3>3. CASE s = 409 /\ Top.defects \cap LateFlaws(<<"transactions">>) # {}
      <4>1. \A flaw \in LateFlaws(<<"transactions">>) :
              <<q, flaw, 409>> \in Misanswered
        BY <2>2 DEF Misanswered
      <4>2. PICK flaw \in Top.defects : <<q, flaw, 409>> \in Misanswered
        BY <3>3, <4>1
      <4> QED
        BY <3>3, <4>2 DEF Promised
    <3>4. CASE s # 400 /\ Executable(Top)
      <4>1. Top.defects \cap FatalFlaws(<<"transactions">>) = {}
        BY <3>2, <3>4 DEF Executable
      <4>2. Top.defects = {}
        <5>1. \A flaw \in Top.defects :
                flaw \in FatalFlaws(<<"transactions">>)
          BY <2>2, <3>1, NotFatal
        <5> QED
          BY <3>4, <4>1, <5>1
      <4>3. s \in {201, 202, 409} \/ s \in {200, 500}
        BY <2>2, <3>4
      <4>4. s \in q.statuses \ {400} \/ <<q, s>> \in AlsoAnswered
        <5>1. q.statuses = {201, 202, 400, 409}
          BY <2>2 DEF createDomesticTransaction, Post
        <5>2. \A n \in {200, 500} : <<q, n>> \in AlsoAnswered
          BY <2>2 DEF AlsoAnswered
        <5> QED
          BY <4>3, <5>1, <5>2
      <4> QED
        BY <4>2, <4>4 DEF Promised
    <3> QED
      BY <2>2, <3>2, <3>3, <3>4 DEF Promised, Justified
  <2> QED
    BY <1>2, <1>3, <2>1, <2>2
<1> QED
  BY <1>1, <1>3 DEF Told

\* An execution in progress is of a request without fatal flaws, and its key is
\* stored.
LEMMA Executing ==
  ASSUME GatewayInv, Transferring, Top.next > 1
  PROVE  /\ Top \in CallSet /\ stack # <<>> /\ Top.to = "transaction-service"
         /\ "key" \in db /\ Lawful(Top)
         /\ ~IsRecovery => Executable(Top)
BY TopCall DEF GatewayInv, Lawful, NeedsKey, IsRecovery, Transferring

LEMMA BeginTransferStep == GatewayInv /\ BeginTransfer => GatewayInv'
<1> SUFFICES ASSUME GatewayInv, BeginTransfer PROVE GatewayInv'
  OBVIOUS
<1>1. /\ Transferring /\ Top.next = 1 /\ ~IsRecovery /\ stack # <<>>
      /\ Top.to = "transaction-service"
  BY DEF BeginTransfer, Transferring
<1>2. ASSUME NEW s \in {200, 202, 400, 409}, Answer(s), db' = db,
             \/ s = 400 /\ Top.defects # {}
             \/ s = 409 /\ Top.defects \cap LateFlaws(Top.path) # {}
             \/ s # 400 /\ Executable(Top)
      PROVE  GatewayInv'
  <2>1. Told(Top, s)
    BY <1>1, <1>2, TransferTold DEF Justified
  <2> QED
    BY <1>1, <1>2, <2>1, DbStays, AnswerStep
<1>3. ASSUME Goto(2), db' = db \cup {"key"}, Executable(Top)
      PROVE  GatewayInv'
  <2> DEFINE c == [Top EXCEPT !.next = 2]
  <2>1. Top \in CallSet /\ Lawful(Top) /\ reply = Null
    BY <1>1, TopCall, NoReplyYet DEF GatewayInv
  <2>2. /\ c.from = Top.from /\ c.to = Top.to /\ c.method = Top.method
        /\ c.path = Top.path /\ c.defects = Top.defects /\ c.next = 2
    BY <2>1 DEF CallSet
  <2> HIDE DEF c
  <2>3. Origin(c)
    BY <2>1, <2>2, SameOrigin DEF Lawful
  <2>4. Executable(c) /\ ~Internal(c)
    BY <1>1, <1>3, <2>2 DEF Executable, Internal
  <2>5. Lawful(c)
    BY <1>3, <2>2, <2>3, <2>4 DEF Lawful
  <2>6. "key" \in db' /\ DbGrows
    BY <1>3, DbGains
  <2> QED
    BY <1>1, <1>3, <2>1, <2>5, <2>6, GotoStep DEF c
<1>4. \/ Answer(400) /\ db' = db /\ Top.defects # {}
      \/ Answer(409) /\ db' = db /\ Top.defects \cap LateFlaws(Top.path) # {}
      \/ /\ Executable(Top)
         /\ \/ Goto(2) /\ db' = db \cup {"key"}
            \/ Answer(202) /\ db' = db
            \/ Answer(409) /\ db' = db
            \/ Answer(200) /\ db' = db
  BY DEF BeginTransfer, Executable, Refuse, Has, Reply, Known
<1> QED
  BY <1>2, <1>3, <1>4

LEMMA BeginRecoveryStep == GatewayInv /\ BeginRecovery => GatewayInv'
<1> SUFFICES ASSUME GatewayInv, BeginRecovery PROVE GatewayInv'
  OBVIOUS
<1>1. /\ Transferring /\ Top.next = 1 /\ IsRecovery /\ ~IsInternational
      /\ stack # <<>> /\ Top.to = "transaction-service"
  BY DEF BeginRecovery, Transferring, IsRecovery, IsInternational, International
<1>2. CASE Reply(200)
  <2>1. Told(Top, 200)
    BY <1>1, TransferTold
  <2> QED
    BY <1>1, <1>2, <2>1, DbStays, AnswerStep DEF Reply
<1>3. CASE "key" \in db /\ Goto(2) /\ UNCHANGED db
  <2> DEFINE c == [Top EXCEPT !.next = 2]
  <2>1. Top \in CallSet /\ Lawful(Top) /\ reply = Null
    BY <1>1, TopCall, NoReplyYet DEF GatewayInv
  <2>2. /\ c.from = Top.from /\ c.to = Top.to /\ c.method = Top.method
        /\ c.path = Top.path /\ c.defects = Top.defects /\ c.next = 2
    BY <2>1 DEF CallSet
  <2> HIDE DEF c
  <2>3. Origin(c)
    BY <2>1, <2>2, SameOrigin DEF Lawful
  <2>4. Lawful(c)
    BY <1>1, <2>2, <2>3 DEF Lawful, Internal, IsRecovery
  <2>5. "key" \in db' /\ DbGrows
    BY <1>3, DbStays
  <2> QED
    BY <1>1, <1>3, <2>1, <2>4, <2>5, GotoStep DEF c
<1> QED
  BY <1>2, <1>3 DEF BeginRecovery

LEMMA PrependedCall ==
  ASSUME NEW E, NEW s \in Seq(E), NEW c
  PROVE  /\ \A i \in 1 .. Len(s) : s[i] \in E
         /\ Len(<<c>> \o s) = Len(s) + 1 /\ (<<c>> \o s)[1] = c
         /\ \A i \in 2 .. Len(s) + 1 : (<<c>> \o s)[i] = s[i - 1]
OBVIOUS

\* The calls that a transfer makes; an international one begins with the quote.
LEMMA CallsOfTransfer ==
  ASSUME Made \in 0 .. Len(Calls) - 1
  PROVE  LET c == Calls[Made + 1] IN
         \/ c = ConsumeCall /\ IsInternational /\ Made = 0
         \/ /\ c \in {ExecuteCalls[1], ExecuteCalls[2], ExecuteCalls[3],
                      CreateBatchCall}
            /\ IsInternational => Made # 0
<1> DEFINE E == {ExecuteCalls[1], ExecuteCalls[2], ExecuteCalls[3],
                 CreateBatchCall}
<1>1. ExecuteCalls \in Seq(E) /\ Len(ExecuteCalls) = 5
  BY DEF ExecuteCalls
<1> HIDE DEF E
<1>2. \A i \in 1 .. 5 : ExecuteCalls[i] \in E
  BY <1>1, PrependedCall
<1>3. CASE IsInternational
  <2>1. Calls = <<ConsumeCall>> \o ExecuteCalls
    BY <1>3 DEF Calls
  <2>2. /\ Len(Calls) = 6 /\ Calls[1] = ConsumeCall
        /\ \A i \in 2 .. 6 : Calls[i] = ExecuteCalls[i - 1]
    BY <1>1, <2>1, PrependedCall
  <2>3. Made \in 0 .. 5
    BY <2>2
  <2>4. CASE Made = 0
    BY <1>3, <2>2, <2>4
  <2>5. CASE Made # 0
    <3>1. Made \in 1 .. 5 /\ Made + 1 \in 2 .. 6 /\ Made + 1 - 1 = Made
      BY <2>3, <2>5
    <3> QED
      BY <1>2, <2>2, <2>5, <3>1 DEF E
  <2> QED
    BY <2>4, <2>5
<1>4. CASE ~IsInternational
  <2>1. Calls = ExecuteCalls
    BY <1>4 DEF Calls
  <2>2. Len(Calls) = 5
    BY <1>1, <2>1
  <2>3. Made + 1 \in 1 .. 5
    BY <2>2
  <2> QED
    BY <1>2, <1>4, <2>1, <2>3 DEF E
<1> QED
  BY <1>3, <1>4

LEMMA MakeCallStep == GatewayInv /\ MakeCall => GatewayInv'
<1> SUFFICES ASSUME GatewayInv, MakeCall PROVE GatewayInv'
  OBVIOUS
<1>1. /\ Transferring /\ Made \in 0 .. Len(Calls) - 1 /\ UNCHANGED db
  BY DEF MakeCall
<1>2. PICK k : k = Calls[Made + 1]
  OBVIOUS
<1>3. PICK defects \in Passed(k) : Ask(k.to, k.method, k.path, defects)
  BY <1>2 DEF MakeCall
<1>4. Top.next > 1 /\ (Made = 0 <=> Top.next = 2)
  <2>1. Top \in CallSet
    BY TopCall DEF GatewayInv, MakeCall, Transferring
  <2>2. Top.next \in Nat
    BY <2>1 DEF CallSet
  <2> QED
    BY <1>1, <2>2 DEF Made
<1>5. /\ Top \in CallSet /\ stack # <<>> /\ Top.to = "transaction-service"
      /\ "key" \in db /\ Lawful(Top)
  BY <1>1, <1>4, Executing
<1> DEFINE c == Call(Top.to, k.to, k.method, k.path, defects)
           p == [Top EXCEPT !.next = @ + 1]
<1>6. /\ c.from = "transaction-service" /\ c.to = k.to /\ c.next = 0
      /\ c.method = k.method /\ c.path = k.path /\ c.defects = defects
  BY <1>5 DEF Call
<1>7. /\ p.from = Top.from /\ p.to = "transaction-service"
      /\ p.method = Top.method /\ p.path = Top.path
      /\ p.defects = Top.defects /\ p.next = Top.next + 1 /\ p.next > 2
  BY <1>4, <1>5 DEF CallSet
<1>8. \/ k = ConsumeCall /\ IsInternational /\ Made = 0
      \/ /\ k \in {ExecuteCalls[1], ExecuteCalls[2], ExecuteCalls[3],
                   CreateBatchCall}
         /\ IsInternational => Made # 0
  BY <1>1, <1>2, CallsOfTransfer
<1>9. /\ k.to \in Services /\ k.method \in {"GET", "POST"}
      /\ k.path \in {r.path : r \in Routes}
  <2>1. /\ k.to \in Services /\ k.method \in {"GET", "POST"}
        /\ k.path \in {<<"quote", "id", "consume">>,
                       <<"wallets", "id", "operations">>,
                       <<"wallets", "id", "operations", "id">>,
                       <<"batches">>, <<"batches", "id">>}
    BY <1>8 DEF ConsumeCall, ExecuteCalls, CreateBatchCall, Services
  <2>2. \A path \in {<<"quote", "id", "consume">>,
                     <<"wallets", "id", "operations">>,
                     <<"wallets", "id", "operations", "id">>,
                     <<"batches">>, <<"batches", "id">>} :
          \E r \in Routes : r.path = path
    BY DEF Routes, Route
  <2> QED
    BY <2>1, <2>2
<1> DEFINE zero == {<<"amountCents", "malformed">>}
<1>10. /\ defects \subseteq Id \cup zero
       /\ k = ConsumeCall => defects \subseteq Id
       /\ k # ConsumeCall /\ k # CreateBatchCall => defects = {}
       /\ k = CreateBatchCall => defects \subseteq zero
  BY <1>3 DEF Passed, ConsumeCall, CreateBatchCall
<1>11. c \in CallSet
  <2>1. Id \cup zero \subseteq UNION {q.flaws : q \in Ops}
    <3>1. getLedgerBatch \in Ops /\ createDomesticTransaction \in Ops
      BY DEF Ops, Documented
    <3>2. /\ Id \subseteq getLedgerBatch.flaws
          /\ zero \subseteq createDomesticTransaction.flaws
      BY DEF getLedgerBatch, createDomesticTransaction, Get, Post,
         DomesticTransactionRequest, Required, Kinds
    <3> QED
      BY <3>1, <3>2
  <2>2. defects \in SUBSET UNION {q.flaws : q \in Ops}
    BY <1>10, <2>1
  <2> QED
    BY <1>5, <1>9, <2>2 DEF CallSet, Call, Services
<1> HIDE DEF c, p
<1>12. PartOfTransfer(c)
  BY <1>6, <1>8, <1>10 DEF PartOfTransfer, ConsumeCall, ExecuteCalls,
     CreateBatchCall
<1>13. Origin(p)
  BY <1>5, <1>7, SameOrigin DEF Lawful
<1>14. Lawful(p) /\ Lawful(c)
  <2>1. Lawful(p)
    BY <1>4, <1>5, <1>7, <1>13 DEF Lawful, Internal, Executable
  <2>2. Lawful(c)
    BY <1>6, <1>12 DEF Lawful, Origin
  <2> QED
    BY <2>1, <2>2
<1>15. Waits(p, c)
  <2>1. p.path = <<"transfers", "international">> /\ p.next = 3 =>
          c.to = "fx-service"
    BY <1>4, <1>5, <1>6, <1>7, <1>8 DEF IsInternational, International,
       ConsumeCall, CallSet
  <2> QED
    BY <1>6, <1>7, <1>12, <2>1 DEF Waits
<1> QED
  BY <1>1, <1>3, <1>5, <1>11, <1>14, <1>15, AskStep DEF c, p

LEMMA MismatchStep == GatewayInv /\ Mismatch => GatewayInv'
<1> SUFFICES ASSUME GatewayInv, Mismatch PROVE GatewayInv'
  OBVIOUS
<1>1. /\ Transferring /\ IsInternational /\ Made = 1 /\ Reply(422)
  BY DEF Mismatch, Consumed
<1>2. Top.next > 1
  <2>1. Top.next \in Nat
    BY <1>1, TopCall DEF GatewayInv, Transferring, CallSet
  <2> QED
    BY <1>1, <2>1 DEF Made
<1>3. stack # <<>> /\ (~IsRecovery => Executable(Top))
  BY <1>1, <1>2, Executing
<1>4. ~IsRecovery => Justified(422)
  BY <1>3 DEF Justified
<1>5. Told(Top, 422)
  BY <1>1, <1>4, TransferTold
<1> QED
  BY <1>1, <1>3, <1>5, DbStays, AnswerStep DEF Reply

\* The statuses of fx-service are passed on.
LEMMA FxFailsStep == GatewayInv /\ FxFails => GatewayInv'
<1> SUFFICES ASSUME GatewayInv, FxFails PROVE GatewayInv'
  OBVIOUS
<1>1. /\ Transferring /\ IsInternational /\ Made = 1 /\ ~Ok /\ db' = db
      /\ Answer(IF reply.status = 0 THEN 503 ELSE reply.status)
  BY DEF FxFails, Consumed, Reply
<1>2. Top.next = 3
  <2>1. Top.next \in Nat
    BY <1>1, TopCall DEF GatewayInv, Transferring, CallSet
  <2> QED
    BY <1>1, <2>1 DEF Made
<1>3. /\ stack # <<>> /\ Top.to = "transaction-service"
      /\ ~IsRecovery => Executable(Top)
  BY <1>1, <1>2, Executing
<1>4. reply # Null /\ reply.status # 200
  BY <1>1 DEF Ok
<1>5. Waits(Top, reply.call) /\ Told(reply.call, reply.status)
  BY <1>3, <1>4 DEF GatewayInv, ReplyInv
<1>6. PartOfTransfer(reply.call) /\ reply.call.to = "fx-service"
  BY <1>1, <1>2, <1>3, <1>5 DEF Waits, IsInternational, International
<1>7. reply.status \in {0, 404, 409, 500}
  BY <1>4, <1>5, <1>6 DEF Told
<1>8. PICK s : /\ s = IF reply.status = 0 THEN 503 ELSE reply.status
               /\ s \in {404, 409, 500, 503}
  BY <1>7
<1>9. ~IsRecovery => Justified(s)
  BY <1>3, <1>8 DEF Justified
<1>10. Told(Top, s)
  BY <1>1, <1>8, <1>9, TransferTold
<1> QED
  BY <1>1, <1>3, <1>8, <1>10, DbStays, AnswerStep

LEMMA ExecuteFailsStep == GatewayInv /\ ExecuteFails => GatewayInv'
<1> SUFFICES ASSUME GatewayInv, ExecuteFails PROVE GatewayInv'
  OBVIOUS
<1>1. /\ Transferring /\ Made > 0 /\ Reply(500)
  BY DEF ExecuteFails
<1>2. Top.next > 1
  <2>1. Top.next \in Nat
    BY <1>1, TopCall DEF GatewayInv, Transferring, CallSet
  <2> QED
    BY <1>1, <2>1 DEF Made
<1>3. stack # <<>> /\ (~IsRecovery => Executable(Top))
  BY <1>1, <1>2, Executing
<1>4. ~IsRecovery => Justified(500)
  BY <1>3 DEF Justified
<1>5. Told(Top, 500)
  BY <1>1, <1>4, TransferTold
<1> QED
  BY <1>1, <1>3, <1>5, DbStays, AnswerStep DEF Reply

LEMMA FinishStep == GatewayInv /\ Finish => GatewayInv'
<1> SUFFICES ASSUME GatewayInv, Finish PROVE GatewayInv'
  OBVIOUS
<1>1. PICK s : /\ s = IF IsRecovery THEN 200 ELSE 201
               /\ s \in {200, 201} /\ Answer(s)
               /\ db' = db \/ db' = db \cup {"completedKey"}
  BY DEF Finish, Reply, Create
<1>2. Transferring /\ Made \in Nat
  <2>1. Len(Calls) \in Nat /\ Len(Calls) - Len(ExecuteCalls) \in Nat
    BY DEF Calls, ExecuteCalls
  <2> QED
    BY <2>1 DEF Finish
<1>3. Top.next > 1
  <2>1. Top.next \in Nat
    BY <1>2, TopCall DEF GatewayInv, Transferring, CallSet
  <2> QED
    BY <1>2, <2>1 DEF Made
<1>4. stack # <<>> /\ (~IsRecovery => Executable(Top))
  BY <1>2, <1>3, Executing
<1>5. Told(Top, s)
  BY <1>1, <1>2, <1>4, TransferTold DEF Justified
<1>6. DbGrows
  BY <1>1, DbStays, DbGains
<1> QED
  BY <1>1, <1>4, <1>5, <1>6, AnswerStep

-----------------------------------------------------------------------------
(* Where calls begin.                                                      *)

LEMMA RequestStep == GatewayInv /\ Request => GatewayInv'
<1> SUFFICES ASSUME GatewayInv, Request PROVE GatewayInv'
  OBVIOUS
<1>0. PICK q \in Ops, n \in 0 .. MaxFlaws : \E flaws \in [1 .. n -> q.flaws] :
        Begin(Call("client", "api-gateway", q.method, q.path, Range(flaws)))
  BY DEF Request, Ops
<1>1. PICK defects \in SUBSET q.flaws :
        Begin(Call("client", "api-gateway", q.method, q.path, defects))
  <2>1. PICK flaws \in [1 .. n -> q.flaws] :
          Begin(Call("client", "api-gateway", q.method, q.path, Range(flaws)))
    BY <1>0
  <2>2. Range(flaws) \in SUBSET q.flaws
    BY DEF Range
  <2> QED
    BY <2>1, <2>2
<1> DEFINE c == Call("client", "api-gateway", q.method, q.path, defects)
<1>2. Begin(c) /\ c \in CallSet
  <2>1. q.method \in {"GET", "POST"}
    BY DEF Ops, Documented, Undocumented, Get, Post, getHealth, getMetrics,
         createUser, createWallet, listWallets, getWalletBalance,
         applyWalletOperation, listTransactionHistory,
         createDomesticTransaction, createInternationalTransaction,
         createLedgerBatch, getLedgerBatch, checkLedgerInvariant,
         verifyAuditChain, createFxQuote, getFxQuote, consumeFxQuote,
         createPayrollJob, getPayrollJob, createIncident
  <2> QED
    BY <1>1, <2>1 DEF CallSet, Call, Services
<1>3. Sends(q, c) /\ c.from = "client" /\ c.to = "api-gateway" /\ c.next = 0
  BY DEF Sends, Call
<1> HIDE DEF c
<1>4. Lawful(c) /\ ~NeedsKey(c)
  BY <1>3 DEF Lawful, Origin, Asks, NeedsKey
<1> QED
  BY <1>2, <1>4, BeginStep

\* Calls that nobody asked for.
LEMMA OwnStep ==
  ASSUME GatewayInv, NEW c \in CallSet, Begin(c), OnItsOwn(c), c.next = 0
  PROVE  GatewayInv'
<1>1. Lawful(c)
  BY DEF Lawful, Origin
<1>2. ~NeedsKey(c)
  BY DEF OnItsOwn, NeedsKey
<1> QED
  BY <1>1, <1>2, BeginStep

LEMMA ScrapeStep == GatewayInv /\ Scrape => GatewayInv'
<1> SUFFICES ASSUME GatewayInv, Scrape PROVE GatewayInv'
  OBVIOUS
<1>1. PICK s \in Services :
        Begin(Call("prometheus", s, "GET", <<"metrics">>, {}))
  BY DEF Scrape
<1>2. Call("prometheus", s, "GET", <<"metrics">>, {}) \in CallSet
  <2>1. getMetrics \in Ops /\ getMetrics.path = <<"metrics">>
    BY DEF Ops, Documented, getMetrics, Get
  <2> QED
    BY <2>1 DEF CallSet, Call
<1>3. /\ OnItsOwn(Call("prometheus", s, "GET", <<"metrics">>, {}))
      /\ Call("prometheus", s, "GET", <<"metrics">>, {}).next = 0
  BY DEF OnItsOwn, Call
<1> QED
  BY <1>1, <1>2, <1>3, OwnStep

LEMMA PayItemStep == GatewayInv /\ PayItem => GatewayInv'
<1> SUFFICES ASSUME GatewayInv, PayItem PROVE GatewayInv'
  OBVIOUS
<1> DEFINE c == Call("payroll-service", "transaction-service", "POST",
                     <<"transactions">>, {})
<1>1. Begin(c)
  BY DEF PayItem
<1>2. c \in CallSet
  <2>1. \E r \in Routes : r.path = <<"transactions">>
    BY DEF Routes, Route
  <2> QED
    BY <2>1 DEF CallSet, Call, Services
<1>3. OnItsOwn(c) /\ c.next = 0
  BY DEF OnItsOwn, Call
<1> QED
  BY <1>1, <1>2, <1>3, OwnStep

LEMMA TriggerRecoveryStep == GatewayInv /\ TriggerRecovery => GatewayInv'
<1> SUFFICES ASSUME GatewayInv, TriggerRecovery PROVE GatewayInv'
  OBVIOUS
<1> DEFINE c == Call("transaction-service", "transaction-service", "POST",
                     <<"internal", "recover">>, {})
<1>1. Begin(c)
  BY DEF TriggerRecovery
<1>2. c \in CallSet
  BY DEF CallSet, Call, Services
<1>3. OnItsOwn(c) /\ c.next = 0
  BY DEF OnItsOwn, Call
<1> QED
  BY <1>1, <1>2, <1>3, OwnStep

-----------------------------------------------------------------------------
(* The specification.                                                      *)

LEMMA GatewayInit == Init => GatewayInv
BY DEF Init, GatewayInv, StackInv, ReplyInv, DbInv

LEMMA GatewayNext == GatewayInv /\ [Next]_vars => GatewayInv'
<1> SUFFICES ASSUME GatewayInv, [Next]_vars PROVE GatewayInv'
  OBVIOUS
<1>1. CASE Next
  BY <1>1, RequestStep, ScrapeStep, PayItemStep, TriggerRecoveryStep,
     ForwardStep, RelayStep, GatewayHealthStep, AuthStep, TimeOutStep,
     MetricsStep, PostUsersStep, PostWalletsStep, GetWalletsStep,
     GetBalanceStep, GetOperationStep, PostOperationsStep, PostBatchesStep,
     GetBatchesStep, GetInvariantCheckStep, GetAuditVerifyStep, PostQuoteStep,
     GetQuoteStep, PostConsumeStep, PostJobsStep, GetJobsStep,
     PostIncidentsStep, GetDiagnosticsStep, ForwardDiagnosticsStep,
     GetTransactionsStep, BeginTransferStep, BeginRecoveryStep, MakeCallStep,
     MismatchStep, FxFailsStep, ExecuteFailsStep, FinishStep DEF Next
<1>2. CASE UNCHANGED vars
  <2>1. stack' = stack /\ reply' = reply /\ db' = db
    BY <1>2 DEF vars
  <2> QED
    BY <2>1 DEF GatewayInv, StackInv, ReplyInv, DbInv, Top
<1> QED
  BY <1>1, <1>2

\* Every call in progress is one that its caller may make, every answer is one
\* that the caller was promised, and internal rows belong to a stored transfer.
THEOREM GatewayInductive == Spec => []GatewayInv
<1> QED
  BY GatewayInit, GatewayNext, PTL DEF Spec

\* What the OpenAPI document promises to clients is kept, whatever is wrong
\* with their requests, save for the listed disagreements.
THEOREM AnswersAreDocumented == Spec => []AnsweredAsDocumented
<1>1. GatewayInv => AnsweredAsDocumented
  <2> SUFFICES ASSUME GatewayInv, NEW op \in Documented, reply # Null,
                      reply.call.from = "client",
                      reply.call.method = op.method, reply.call.path = op.path
               PROVE  Promised(op, reply.call.defects, reply.status)
    BY DEF AnsweredAsDocumented
  <2>1. Origin(reply.call) /\ Told(reply.call, reply.status)
    BY DEF GatewayInv, ReplyInv
  <2>2. PICK q \in Ops : Sends(q, reply.call)
    BY <2>1 DEF Origin, Asks, Forwards, PartOfTransfer, Diagnoses, OnItsOwn
  <2>3. op \in Ops /\ q = op
    BY <2>2, SameOp DEF Sends, Ops
  <2> QED
    BY <2>1, <2>2, <2>3 DEF Told, Asks
<1> QED
  BY <1>1, GatewayInductive, PTL

\* The rules that the services register fit those who call them.
THEOREM RulesFit == Spec => []RulesFitCallers
<1>1. GatewayInv => RulesFitCallers
  <2>1. ASSUME GatewayInv, reply # Null, reply.status \in {401, 403}
        PROVE  \E op \in {createLedgerBatch, consumeFxQuote} :
                 /\ reply.call.from \in {"client", "api-gateway"}
                 /\ reply.call.path \in {op.path, Tail(op.path)}
                 /\ reply.call.method = op.method
    <3>1. Origin(reply.call) /\ Told(reply.call, reply.status)
      BY <2>1 DEF GatewayInv, ReplyInv
    <3>2. reply.call.from \in {"client", "api-gateway"}
      BY <2>1, <3>1 DEF Told
    <3>3. PICK q \in Ops : Asks(q, reply.call)
      BY <3>1, <3>2 DEF Origin, PartOfTransfer, Diagnoses, OnItsOwn
    <3>4. q \in {createLedgerBatch, consumeFxQuote}
      BY <2>1, <3>1, <3>3 DEF Told
    <3>5. /\ reply.call.method = q.method
          /\ reply.call.path \in {q.path, Tail(q.path)}
      <4>1. CASE Sends(q, reply.call)
        BY <4>1 DEF Sends
      <4>2. CASE Forwards(q, reply.call)
        <5>1. PICK r \in Routes : /\ r.op = q /\ reply.call.method = r.method
                                  /\ reply.call.path = r.path
          BY <4>2 DEF Forwards
        <5>2. r.method = q.method
          BY <5>1, RoutesAre
        <5>3. r.path = Tail(q.path)
          <6>1. /\ Tail(createLedgerBatch.path) = <<"batches">>
                /\ Tail(consumeFxQuote.path) = <<"quote", "id", "consume">>
            BY DEF createLedgerBatch, consumeFxQuote, Post
          <6>2. /\ r.op.path = createLedgerBatch.path => r.path = <<"batches">>
                /\ r.op.path = consumeFxQuote.path =>
                     r.path = <<"quote", "id", "consume">>
            BY DEF Routes, Route, Get, Post, createUser, createWallet,
               listWallets, getWalletBalance, applyWalletOperation,
               listTransactionHistory, createDomesticTransaction,
               createInternationalTransaction, createLedgerBatch,
               getLedgerBatch, checkLedgerInvariant, verifyAuditChain,
               createFxQuote, getFxQuote, consumeFxQuote, createPayrollJob,
               getPayrollJob, createIncident, getOperation,
               getLedgerInvariant, getAuditVerify
          <6> QED
            BY <3>4, <5>1, <6>1, <6>2
        <5> QED
          BY <5>1, <5>2, <5>3
      <4> QED
        BY <3>3, <4>1, <4>2 DEF Asks
    <3> QED
      BY <3>2, <3>4, <3>5
  <2> QED
    BY <2>1 DEF RulesFitCallers, GatewayInv, DbInv
<1> QED
  BY <1>1, GatewayInductive, PTL
=============================================================================
