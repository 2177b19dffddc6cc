------------------------------ MODULE Contract ------------------------------
(***************************************************************************)
(* What the gateway's OpenAPI document promises to clients: for each         *)
(* operation its method and path, what can be wrong with a request for it,  *)
(* and the statuses of the answer.                                          *)
(*                                                                         *)
(* A path is the sequence of its segments, with "id" for a parameter.        *)
(*                                                                         *)
(* A flaw is a field and what is wrong with it.  An absent field that the    *)
(* document requires is a flaw; a field is mistyped when its JSON type is    *)
(* not the document's (null is a type of its own, and a repeated query       *)
(* parameter is a list) and malformed when the type is right and the value   *)
(* is not: against the format, the pattern, the range or the description,   *)
(* an empty string, an integer beyond 2^53, a list that is absent.           *)
(***************************************************************************)
EXTENDS Naturals, Sequences

Kinds == {"absent", "mistyped", "malformed"}
Required(fields) == fields \X Kinds
Optional(fields) == fields \X {"mistyped", "malformed"}

\* What a path parameter can be: absent, it is another path.
Id == {<<"id", "malformed">>}
IdempotencyKey == {<<"Idempotency-Key", "absent">>}

-----------------------------------------------------------------------------
(* components.schemas                                                      *)

\* Any string is a phone number.
CreateUserRequest ==
  Required({"email", "fullName"}) \cup {<<"phone", "mistyped">>}
CreateWalletRequest ==
  Required({"userId", "currency"}) \cup Optional({"initialBalanceCents"})
WalletOperationRequest == Required({"operationKey", "deltaCents"})
DomesticTransactionRequest ==
  Required({"senderWalletId", "recipientWalletId", "amountCents", "currency"})
InternationalTransactionRequest ==
  Required({"senderWalletId", "recipientWalletId", "sourceAmountCents",
            "sourceCurrency", "destinationCurrency", "quoteId"})
LedgerEntryInput ==
  Required({"accountId", "direction", "amountCents", "currency"})
    \cup Optional({"fxRate"})
CreateLedgerBatchRequest ==
  Required({"transactionId"}) \cup Optional({"entries"}) \cup LedgerEntryInput
CreateFxQuoteRequest  == Required({"baseCurrency", "quoteCurrency"})
ConsumeFxQuoteRequest == Required({"transactionId"})
PayrollItemInput      == Required({"recipientWalletId", "amountCents"})
CreatePayrollJobRequest ==
  Required({"employerAccountId"}) \cup Optional({"items"}) \cup PayrollItemInput
\* transactionId is nullable.
CreateIncidentRequest ==
  Required({"adminUser", "note"}) \cup Optional({"transactionId"})

-----------------------------------------------------------------------------
(* paths                                                                   *)

Get(path, flaws, statuses) ==
  [method |-> "GET", path |-> path, flaws |-> flaws, statuses |-> statuses]
Post(path, flaws, statuses) ==
  [method |-> "POST", path |-> path, flaws |-> flaws, statuses |-> statuses]

getHealth  == Get(<<"health">>, {}, {200})
getMetrics == Get(<<"metrics">>, {}, {200})

createUser ==
  Post(<<"accounts", "users">>, CreateUserRequest, {201, 400, 409})
createWallet ==
  Post(<<"accounts", "wallets">>, CreateWalletRequest, {201, 400, 404, 409})
listWallets  == Get(<<"accounts", "wallets", "id">>, Id, {200})
getWalletBalance ==
  Get(<<"accounts", "wallets", "id", "balance">>, Id, {200, 404})
applyWalletOperation ==
  Post(<<"accounts", "wallets", "id", "operations">>,
       Id \cup WalletOperationRequest, {200, 400, 422})

listTransactionHistory ==
  Get(<<"transactions">>,
      Required({"walletId"}) \cup Optional({"limit", "cursor"}), {200, 400})
createDomesticTransaction ==
  Post(<<"transactions">>, IdempotencyKey \cup DomesticTransactionRequest,
       {201, 202, 400, 409})
createInternationalTransaction ==
  Post(<<"transfers", "international">>,
       IdempotencyKey \cup InternationalTransactionRequest,
       {201, 202, 400, 409, 422, 503})

createLedgerBatch ==
  Post(<<"ledger", "batches">>, CreateLedgerBatchRequest, {200, 201, 400, 422})
getLedgerBatch       == Get(<<"ledger", "batches", "id">>, Id, {200, 404})
checkLedgerInvariant == Get(<<"ledger", "invariant-check">>, {}, {200})
verifyAuditChain     == Get(<<"ledger", "audit", "verify">>, {}, {200})

createFxQuote ==
  Post(<<"fx", "quote">>, CreateFxQuoteRequest, {201, 400, 503})
getFxQuote     == Get(<<"fx", "quote", "id">>, Id, {200, 404})
consumeFxQuote ==
  Post(<<"fx", "quote", "id", "consume">>, Id \cup ConsumeFxQuoteRequest,
       {200, 400, 404, 409})

createPayrollJob ==
  Post(<<"payroll", "jobs">>, CreatePayrollJobRequest, {202, 400})
getPayrollJob  == Get(<<"payroll", "jobs", "id">>, Id, {200, 404})
createIncident ==
  Post(<<"admin", "incidents">>, CreateIncidentRequest, {201, 400})

Documented ==
  {getHealth, getMetrics, createUser, createWallet, listWallets,
   getWalletBalance, applyWalletOperation, listTransactionHistory,
   createDomesticTransaction, createInternationalTransaction,
   createLedgerBatch, getLedgerBatch, checkLedgerInvariant, verifyAuditChain,
   createFxQuote, getFxQuote, consumeFxQuote, createPayrollJob, getPayrollJob,
   createIncident}
=============================================================================
