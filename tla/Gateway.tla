------------------------------ MODULE Gateway ------------------------------
(***************************************************************************)
(* The HTTP surface: the gateway that clients call, the identities with      *)
(* which the services call one another, and the status of every answer.      *)
(*                                                                         *)
(* What the handlers do to money is modelled elsewhere; here a database is   *)
(* the set of kinds of rows that it holds, and a request may name a row that *)
(* exists or one that does not.  One request is followed at a time, with the *)
(* calls that it causes on a stack.                                         *)
(***************************************************************************)
EXTENDS Contract, Integers, SequencesExt

CONSTANTS
  Null,
  MaxFlaws   \* how many things are wrong with a client's request at most

ASSUME MaxFlawsAssumption == MaxFlaws \in Nat

Services == {"api-gateway", "account-service", "transaction-service",
             "ledger-service", "fx-service", "payroll-service", "admin-service"}

VARIABLES
  db,      \* the kinds of rows that there are: user, wallet, operation, key,
           \* completedKey, batch, quote, usedQuote, job
  stack,   \* the calls in progress, the innermost first
  reply    \* the last answer, until the next call

vars == <<db, stack, reply>>

\* A call's defects are the flaws that it has.
\* next: 0 before it is admitted, 1 at the start of its handler.
Call(from, to, method, path, defects) ==
  [from |-> from, to |-> to, method |-> method, path |-> path,
   defects |-> defects, next |-> 0]

Top  == stack[1]
Rest == Tail(stack)
Goto(n) == stack' = <<[Top EXCEPT !.next = n]>> \o Rest /\ UNCHANGED reply

\* An answer with status 0 is none within 15 seconds.
Answer(status) ==
  /\ reply' = [call |-> Top, status |-> status]
  /\ stack' = Rest

Ask(to, method, path, defects) ==
  /\ stack' = <<Call(Top.to, to, method, path, defects),
                [Top EXCEPT !.next = @ + 1]>> \o Rest
  /\ reply' = Null

Init == db = {} /\ stack = <<>> /\ reply = Null

-----------------------------------------------------------------------------
(* service-auth.ts and the rules that each service registers               *)

Everything == [method |-> "*", path |-> <<>>, kind |-> "prefix"]
Exact(method, path)  == [method |-> method, path |-> path, kind |-> "exact"]
Prefix(method, path) == [method |-> method, path |-> path, kind |-> "prefix"]
Below(method, path)  == [method |-> method, path |-> path, kind |-> "below"]

AccountAllow == [transaction |-> {Everything}, gateway |-> {Everything}]
LedgerAllow ==
  [transaction |-> {Exact("POST", <<"batches">>), Prefix("GET", <<"batches">>)},
   admin |-> {Exact("GET", <<"invariant-check">>),
              Exact("GET", <<"audit", "verify">>)},
   gateway |-> {Prefix("GET", <<>>)}]
\* Mutation of FxAllow: "POST /quote*" for the gateway.
FxAllowPrefix ==
  [gateway |-> {Prefix("POST", <<"quote">>), Prefix("GET", <<"quote">>)},
   transaction |-> {Below("POST", <<"quote">>)}]
FxAllow ==
  [gateway |-> {Exact("POST", <<"quote">>), Prefix("GET", <<"quote">>)},
   transaction |-> {Below("POST", <<"quote">>)}]
TransactionAllow ==
  [gateway |-> {Exact("POST", <<"transactions">>),
                Prefix("POST", <<"transfers">>),
                Prefix("POST", <<"international">>),
                Prefix("GET", <<"transactions">>)},
   payroll |-> {Exact("POST", <<"transactions">>)},
   transaction |-> {Below("POST", <<"internal">>)}]
PayrollAllow == [gateway |-> {Everything}]
AdminAllow   == [gateway |-> {Everything}]

Allow(service) ==
  CASE service = "account-service"     -> AccountAllow
    [] service = "ledger-service"      -> LedgerAllow
    [] service = "fx-service"          -> FxAllow
    [] service = "transaction-service" -> TransactionAllow
    [] service = "payroll-service"     -> PayrollAllow
    [] service = "admin-service"       -> AdminAllow

\* SERVICE_ID, by the name of the rule; others send no credentials.
Identity(from) ==
  CASE from = "transaction-service" -> "transaction"
    [] from = "admin-service"       -> "admin"
    [] from = "payroll-service"     -> "payroll"
    [] from = "api-gateway"         -> "gateway"
    [] OTHER                        -> ""

allowed(rules, c) ==
  \E rule \in rules :
    /\ rule.method \in {"*", c.method}
    /\ CASE rule.kind = "exact"  -> c.path = rule.path
         [] rule.kind = "prefix" -> IsPrefix(rule.path, c.path)
         [] rule.kind = "below"  -> IsStrictPrefix(rule.path, c.path)

PublicPaths == {<<"health">>, <<"metrics">>}

registerServiceAuth ==
  /\ stack # <<>> /\ Top.to # "api-gateway" /\ Top.next = 0
  /\ LET rules == Allow(Top.to)
         id    == Identity(Top.from) IN
     IF Top.path \in PublicPaths THEN Goto(1)
     ELSE IF id \in DOMAIN rules /\ allowed(rules[id], Top) THEN Goto(1)
     ELSE Answer(IF id \in DOMAIN rules THEN 403 ELSE 401)
  /\ UNCHANGED db

-----------------------------------------------------------------------------
(* Who calls                                                               *)

\* Routes that docs/API.md names and the OpenAPI document does not.
Undocumented ==
  {Get(<<"accounts", "wallets", "id", "operations", "id">>, Id, {}),
   Get(<<"admin", "ledger-invariant">>, {}, {}),
   Get(<<"admin", "audit", "verify">>, {}, {})}

Begin(c) == stack = <<>> /\ stack' = <<c>> /\ reply' = Null /\ UNCHANGED db

\* Anything may be wrong with a client's request, a field in one way.
Request ==
  \E op \in Documented \cup Undocumented, n \in 0 .. MaxFlaws :
    \E flaws \in [1 .. n -> op.flaws] :
      /\ \A i, j \in 1 .. n : flaws[i][1] = flaws[j][1] => flaws[i] = flaws[j]
      /\ Begin(Call("client", "api-gateway", op.method, op.path, Range(flaws)))

Scrape ==
  \E s \in Services : Begin(Call("prometheus", s, "GET", <<"metrics">>, {}))

PayItem ==
  Begin(Call("payroll-service", "transaction-service", "POST",
             <<"transactions">>, {}))

TriggerRecovery ==
  Begin(Call("transaction-service", "transaction-service", "POST",
             <<"internal", "recover">>, {}))

-----------------------------------------------------------------------------
(* api-gateway                                                             *)

Upstream(prefix) ==
  CASE prefix = "accounts"                    -> "account-service"
    [] prefix \in {"transactions", "transfers"} -> "transaction-service"
    [] prefix = "ledger"                      -> "ledger-service"
    [] prefix = "fx"                          -> "fx-service"
    [] prefix = "payroll"                     -> "payroll-service"
    [] prefix = "admin"                       -> "admin-service"

Rewrite(path) ==
  IF path[1] \in {"transactions", "transfers"} THEN path ELSE Tail(path)

\* The proxy replaces the caller's identity by the gateway's.
Forward ==
  /\ stack # <<>> /\ Top.to = "api-gateway" /\ Top.next = 0
  /\ Top.path \notin PublicPaths
  /\ Ask(Upstream(Top.path[1]), Top.method, Rewrite(Top.path), Top.defects)
  /\ UNCHANGED db

Relay ==
  /\ stack # <<>> /\ Top.to = "api-gateway" /\ Top.next = 1 /\ reply # Null
  /\ Answer(reply.status)
  /\ UNCHANGED db

GatewayHealth ==
  /\ stack # <<>> /\ Top.to = "api-gateway" /\ Top.path \in PublicPaths
  /\ Answer(200)
  /\ UNCHANGED db

-----------------------------------------------------------------------------
(* How a handler answers.                                                  *)

Handling(service, method, path) ==
  /\ stack # <<>>
  /\ Top.to = service /\ Top.method = method /\ Top.path = path /\ Top.next = 1

Has(flaws) == Top.defects \cap flaws # {}
Sound == Top.defects = {}

Reply(status) == Answer(status) /\ UNCHANGED db
Create(kind, status) == Answer(status) /\ db' = db \cup {kind}
Known(kind, status) == kind \in db /\ Reply(status)

\* By the handler's own test, or by Prisma, whose complaint of a type or of a
\* UUID is the client's fault.
Refuse(flaws) == Has(flaws) /\ Reply(400)

-----------------------------------------------------------------------------
(* account-service                                                         *)

Metrics ==
  /\ stack # <<>> /\ Top.to # "api-gateway"
  /\ Handling(Top.to, "GET", <<"metrics">>)
  /\ Reply(200)

\* Only the presence of an email and of a name is tested; the cipher throws at
\* a name or a phone that is no string, before Prisma sees the email.
PostUsers ==
  /\ Handling("account-service", "POST", <<"users">>)
  /\ \/ Refuse(Required({"email", "fullName"}))
     \/ /\ ~Has({<<"email", "absent">>, <<"fullName", "absent">>,
                <<"fullName", "malformed">>})
        /\ Has({<<"fullName", "mistyped">>, <<"phone", "mistyped">>})
        /\ Reply(500)
     \/ /\ ~Has(Required({"email", "fullName"}) \ {<<"email", "malformed">>})
        /\ Create("user", 201) \/ Known("user", 409)

\* Mutation of PostWallets: P2003 is not caught.
PostWalletsUncaught ==
  /\ Handling("account-service", "POST", <<"wallets">>)
  /\ \/ Refuse(CreateWalletRequest)
     \/ /\ Sound
        /\ \/ "user" \in db /\ Create("wallet", 201)
           \/ Known("wallet", 409)
           \/ Reply(500)

PostWallets ==
  /\ Handling("account-service", "POST", <<"wallets">>)
  /\ \/ Refuse(CreateWalletRequest)
     \/ /\ Sound
        /\ \/ "user" \in db /\ Create("wallet", 201)
           \/ Known("wallet", 409)
           \/ Reply(404)

GetWallets ==
  /\ Handling("account-service", "GET", <<"wallets", "id">>)
  /\ Refuse(Id) \/ (Sound /\ Reply(200))

GetBalance ==
  /\ Handling("account-service", "GET", <<"wallets", "id", "balance">>)
  /\ Refuse(Id) \/ (Sound /\ (Known("wallet", 200) \/ Reply(404)))

GetOperation ==
  /\ Handling("account-service", "GET",
              <<"wallets", "id", "operations", "id">>)
  /\ Refuse(Id) \/ (Sound /\ (Known("operation", 200) \/ Reply(404)))

\* Of two operations with one key the later insert fails, and nobody catches
\* that; nor a balance that the column cannot hold.
PostOperations ==
  /\ Handling("account-service", "POST", <<"wallets", "id", "operations">>)
  /\ \/ Refuse(Id \cup WalletOperationRequest)
     \/ /\ Sound
        /\ \/ "wallet" \in db /\ Create("operation", 200)
           \/ Reply(422)
           \/ Known("wallet", 500)

-----------------------------------------------------------------------------
(* ledger-service                                                          *)

\* A rate is not looked at before it is stored, and a currency is only matched
\* as text.  Of two requests for one transaction the later insert fails.
PostBatches ==
  /\ Handling("ledger-service", "POST", <<"batches">>)
  /\ LET ids == {"transactionId", "accountId"} \X {"mistyped", "malformed"}
         rate == Optional({"fxRate"})
         currency == {<<"currency", "mistyped">>}
         list == {<<"entries", "mistyped">>} IN
     \/ Refuse(CreateLedgerBatchRequest \ rate)
     \/ ~Has({<<"transactionId", "absent">>}) /\ Has(list) /\ Reply(500)
     \/ /\ ~Has(CreateLedgerBatchRequest \ (ids \cup rate \cup currency))
        /\ Reply(422)
     \/ /\ ~Has(CreateLedgerBatchRequest \ (Optional({"accountId"}) \cup rate))
        /\ Known("batch", 200) \/ (Has(rate) /\ Reply(500))
     \/ /\ ~Has(CreateLedgerBatchRequest \ rate)
        /\ Create("batch", 201) \/ Known("batch", 500)

GetBatches ==
  /\ Handling("ledger-service", "GET", <<"batches", "id">>)
  /\ Refuse(Id) \/ (Sound /\ (Known("batch", 200) \/ Reply(404)))

GetInvariantCheck ==
  Handling("ledger-service", "GET", <<"invariant-check">>) /\ Reply(200)

GetAuditVerify ==
  Handling("ledger-service", "GET", <<"audit", "verify">>) /\ Reply(200)

-----------------------------------------------------------------------------
(* fx-service                                                              *)

\* A currency that is a list with one text in it passes for that text, until
\* Prisma refuses it; before that the provider may have no rate.
PostQuote ==
  /\ Handling("fx-service", "POST", <<"quote">>)
  /\ \/ Refuse(CreateFxQuoteRequest)
     \/ /\ ~Has({"baseCurrency", "quoteCurrency"} \X {"absent", "malformed"})
        /\ Reply(503) \/ (Sound /\ Create("quote", 201))

GetQuote ==
  /\ Handling("fx-service", "GET", <<"quote", "id">>)
  /\ Refuse(Id) \/ (Sound /\ (Known("quote", 200) \/ Reply(404)))

\* The raw UPDATE casts both ids: one that is no UUID is a 500.
PostConsume ==
  /\ Handling("fx-service", "POST", <<"quote", "id", "consume">>)
  /\ \/ Refuse(ConsumeFxQuoteRequest)
     \/ ~Has({<<"transactionId", "absent">>}) /\ ~Sound /\ Reply(500)
     \/ /\ Sound
        /\ \/ "quote" \in db /\ Create("usedQuote", 200)
           \/ Known("quote", 409)
           \/ Reply(404)

-----------------------------------------------------------------------------
(* payroll-service and admin-service                                       *)

\* items that have no some(), or an item without fields, are a TypeError; a
\* sound list may have more than MAX_PAYROLL_ITEMS items.
PostJobs ==
  /\ Handling("payroll-service", "POST", <<"jobs">>)
  /\ \/ Refuse(CreatePayrollJobRequest)
     \/ /\ ~Has({<<"employerAccountId", "absent">>})
        /\ Has({<<"items", "mistyped">>})
        /\ Reply(500)
     \/ Sound /\ (Create("job", 202) \/ Reply(400))

GetJobs ==
  /\ Handling("payroll-service", "GET", <<"jobs", "id">>)
  /\ Refuse(Id) \/ (Sound /\ (Known("job", 200) \/ Reply(404)))

PostIncidents ==
  /\ Handling("admin-service", "POST", <<"incidents">>)
  /\ Refuse(CreateIncidentRequest) \/ (Sound /\ Reply(201))

GetDiagnostics ==
  /\ stack # <<>> /\ Top.to = "admin-service" /\ Top.next = 1
  /\ \/ /\ Top.path = <<"ledger-invariant">>
        /\ Ask("ledger-service", "GET", <<"invariant-check">>, {})
     \/ /\ Top.path = <<"audit", "verify">>
        /\ Ask("ledger-service", "GET", <<"audit", "verify">>, {})
  /\ UNCHANGED db

ForwardDiagnostics ==
  /\ stack # <<>> /\ Top.to = "admin-service" /\ Top.next = 2 /\ reply # Null
  /\ Reply(IF reply.status = 0 THEN 500 ELSE reply.status)

-----------------------------------------------------------------------------
(* transaction-service                                                     *)

\* A limit is read as JavaScript reads a number, in hexadecimal too; a cursor
\* that no page gave may decode all the same.
Lax == {<<"limit", "malformed">>, <<"cursor", "malformed">>}
GetTransactions ==
  /\ Handling("transaction-service", "GET", <<"transactions">>)
  /\ \/ Refuse(listTransactionHistory.flaws)
     \/ ~Has(listTransactionHistory.flaws \ Lax) /\ Reply(200)

International   == <<"transfers", "international">>
IsInternational == Top.path = International
IsRecovery      == Top.path = <<"internal", "recover">>
Transferring ==
  /\ stack # <<>> /\ Top.to = "transaction-service"
  /\ \/ IsInternational \/ IsRecovery
     \/ Top.method = "POST" /\ Top.path = <<"transactions">>

\* initiate() tests that there are wallets and matches the currency as text;
\* the columns refuse the rest, once the key is inserted.
LateFlaws(path) ==
  Optional({"senderWalletId", "recipientWalletId"}) \cup
  IF path = International
  THEN {<<"sourceCurrency", "mistyped">>} \cup Optional({"quoteId"})
  ELSE {<<"currency", "mistyped">>}
EarlyFlaws(path) ==
  IdempotencyKey \cup
  (Required({"senderWalletId", "recipientWalletId"} \cup
            IF path = International
            THEN {"sourceAmountCents", "sourceCurrency"}
            ELSE {"amountCents", "currency"})
     \ LateFlaws(path))

\* No transfer is made with these; a quoteId that is null passes for none.
NullQuote == {<<"quoteId", "mistyped">>}
FatalFlaws(path) == EarlyFlaws(path) \cup (LateFlaws(path) \ NullQuote)

\* Validation, the key and the row.  An absent quoteId is not noticed here.
BeginTransfer ==
  /\ Transferring /\ Top.next = 1 /\ ~IsRecovery
  /\ \/ Refuse(EarlyFlaws(Top.path) \cup LateFlaws(Top.path))
     \/ /\ ~Has(EarlyFlaws(Top.path)) /\ Has(LateFlaws(Top.path))
        /\ Known("key", 409)
     \/ /\ ~Has(FatalFlaws(Top.path))
        /\ \/ Goto(2) /\ db' = db \cup {"key"}
           \/ Known("key", 202) \/ Known("key", 409)
           \/ Known("completedKey", 200)

BeginRecovery ==
  /\ Transferring /\ Top.next = 1 /\ IsRecovery
  /\ Reply(200) \/ ("key" \in db /\ Goto(2) /\ UNCHANGED db)

ConsumeCall == [to |-> "fx-service", method |-> "POST",
                path |-> <<"quote", "id", "consume">>]
CreateBatchCall == [to |-> "ledger-service", method |-> "POST",
                    path |-> <<"batches">>]
\* The lookups of a reversal and of a batch, debit, batch, credit.
ExecuteCalls ==
  <<[to |-> "account-service", method |-> "GET",
     path |-> <<"wallets", "id", "operations", "id">>],
    [to |-> "ledger-service", method |-> "GET", path |-> <<"batches", "id">>],
    [to |-> "account-service", method |-> "POST",
     path |-> <<"wallets", "id", "operations">>],
    CreateBatchCall,
    [to |-> "account-service", method |-> "POST",
     path |-> <<"wallets", "id", "operations">>]>>

Calls ==
  IF IsInternational THEN <<ConsumeCall>> \o ExecuteCalls ELSE ExecuteCalls
Made  == Top.next - 2

\* get() takes 404 for null.
Ok == reply # Null => \/ reply.status \in 200 .. 299
                      \/ reply.status = 404 /\ reply.call.method = "GET"

Consumed == IsInternational /\ Made = 1

\* The path of a consumption has the quoteId of the body, or "undefined" or
\* "null"; a quote may convert the amount to 0 cents.
Passed(c) ==
  IF c = ConsumeCall
  THEN {IF Has(Required({"quoteId"})) THEN Id ELSE {}}
  ELSE IF c = CreateBatchCall /\ IsInternational
       THEN {{}, {<<"amountCents", "malformed">>}}
       ELSE {{}}

\* What only the answer of the consumption shows.
AtConsumption == Required({"destinationCurrency"})

MakeCall ==
  /\ Transferring /\ Made \in 0 .. Len(Calls) - 1 /\ Ok
  /\ Consumed => ~Has(AtConsumption)
  /\ LET c == Calls[Made + 1] IN
     \E defects \in Passed(c) : Ask(c.to, c.method, c.path, defects)
  /\ UNCHANGED db

Mismatch == Transferring /\ Consumed /\ Ok /\ Reply(422)

FxFails ==
  /\ Transferring /\ Consumed /\ ~Ok
  /\ Reply(IF reply.status = 0 THEN 503 ELSE reply.status)

\* The exception of post() is no AppError.
ExecuteFails ==
  /\ Transferring /\ Made > 0 /\ ~Consumed /\ ~Ok
  /\ Reply(500)

\* All calls made, or none because another worker has the lease.
Finish ==
  /\ Transferring /\ Ok /\ ~Has(AtConsumption \cup Required({"quoteId"}))
  /\ LET status == IF IsRecovery THEN 200 ELSE 201 IN
     \/ Made = Len(Calls) /\ Create("completedKey", status)
     \/ Made = Len(Calls) - Len(ExecuteCalls) /\ Reply(status)

\* AbortSignal.timeout of the services' own calls.
TimeOut ==
  /\ Len(stack) > 1 /\ Top.next = 0
  /\ Top.from \in {"transaction-service", "admin-service"}
  /\ Reply(0)

-----------------------------------------------------------------------------
Next ==
  \/ Request \/ Scrape \/ PayItem \/ TriggerRecovery
  \/ Forward \/ Relay \/ GatewayHealth \/ registerServiceAuth \/ TimeOut
  \/ Metrics \/ PostUsers \/ PostWallets \/ GetWallets \/ GetBalance
  \/ GetOperation \/ PostOperations
  \/ PostBatches \/ GetBatches \/ GetInvariantCheck \/ GetAuditVerify
  \/ PostQuote \/ GetQuote \/ PostConsume
  \/ PostJobs \/ GetJobs
  \/ PostIncidents \/ GetDiagnostics \/ ForwardDiagnostics
  \/ GetTransactions \/ BeginTransfer \/ BeginRecovery \/ MakeCall \/ Mismatch
  \/ FxFails \/ ExecuteFails \/ Finish

Spec == Init /\ [][Next]_vars

-----------------------------------------------------------------------------
\* The flaws that an operation may not notice: an email of any form, a phone
\* that is false, a limit or cursor that can be read, and the quote and the
\* currency of the recipient, which are left to the consumption.
Unnoticed ==
  ({createUser} \X {<<"email", "malformed">>, <<"phone", "mistyped">>}) \cup
  ({listTransactionHistory} \X Lax) \cup
  ({createInternationalTransaction} \X
     (AtConsumption \cup NullQuote \cup {<<"quoteId", "absent">>}))

\* The answers that the document does not give for a request without flaws, or
\* with such ones: a completed key is replayed with 200; a transfer that a
\* service refuses is a 500, and so is an operation whose key another one is
\* using; an unknown quote is a 404, a payroll that is too long a 400.
AlsoAnswered ==
  ({createDomesticTransaction} \X {200, 500}) \cup
  ({createInternationalTransaction} \X {200, 404, 500}) \cup
  ({applyWalletOperation} \X {500}) \cup
  ({createPayrollJob} \X {400})

\* The answers that are wrong for a flaw: of the cipher, of a key that exists,
\* of a rate that does not, and of a list that is none.
Misanswered ==
  ({createUser} \X ({"fullName", "phone"} \X {"mistyped"}) \X {500}) \cup
  ({createDomesticTransaction} \X
     LateFlaws(<<"transactions">>) \X {409}) \cup
  ({createInternationalTransaction} \X LateFlaws(International) \X {409}) \cup
  ({createFxQuote} \X
     ({"baseCurrency", "quoteCurrency"} \X {"mistyped"}) \X {503}) \cup
  ({createPayrollJob} \X {<<"items", "mistyped">>} \X {500})

\* The two internal operations that the document shows to clients.
NotForClients == {createLedgerBatch, consumeFxQuote} \X {403}

Promised(op, defects, status) ==
  \/ defects # {} /\ status = 400
  \/ /\ \A flaw \in defects : <<op, flaw>> \in Unnoticed
     /\ status \in op.statuses \ {400} \/ <<op, status>> \in AlsoAnswered
  \/ \E flaw \in defects : <<op, flaw, status>> \in Misanswered
  \/ <<op, status>> \in NotForClients

\* A client's request is answered as the OpenAPI document says, save for what
\* is named above: a request with a flaw by 400 (by the getters, too, for which
\* the document has none), unless the flaw is one that the operation may not
\* notice or answers wrongly; a request without one by a status that the
\* document gives for the operation, other than 400.
AnsweredAsDocumented ==
  \A op \in Documented :
    reply # Null /\ reply.call.from = "client"
    /\ reply.call.method = op.method /\ reply.call.path = op.path =>
      Promised(op, reply.call.defects, reply.status)

\* The rules fit the callers: no service is refused what it asks of another, a
\* client is refused nothing but the two internal operations, and those two
\* happen for transfers only.
RulesFitCallers ==
  /\ reply # Null /\ reply.status \in {401, 403} =>
       \E op \in {createLedgerBatch, consumeFxQuote} :
         /\ reply.call.from \in {"client", "api-gateway"}
         /\ reply.call.path \in {op.path, Tail(op.path)}
         /\ reply.call.method = op.method
  /\ {"batch", "usedQuote"} \cap db # {} => "key" \in db
=============================================================================
