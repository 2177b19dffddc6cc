------------------------------ MODULE Initiate ------------------------------
(***************************************************************************)
(* How a transfer begins: initiate() in transaction-service, called at once *)
(* by clients that repeat, reuse and mix up Idempotency-Keys, and the quotes *)
(* of fx-service that its international form consumes.                      *)
(*                                                                         *)
(* A request's step is one call it awaits.  execute() and its recovery are  *)
(* the escrow of Escrow.tla: a row that is handed to them is settled, once. *)
(* A row and its key are named by the key: idempotency_key is UNIQUE in     *)
(* both tables.                                                             *)
(***************************************************************************)
EXTENDS Cents, FiniteSets

CONSTANTS
  Requests,       \* calls of POST /transactions and /transfers/international
  International,  \* those to the second
  Keys, Quotes, Currencies,
  key,            \* the Idempotency-Key header of a request
  body,           \* its body
  rates,          \* the provider's table, indexed by pairs of currencies
  Null,
  MaxFaults       \* bound on crashes and lost answers

Pairs  == {p \in Currencies \X Currencies : p[1] # p[2]}
Bodies == [cents : Nat, source : Currencies, dest : Currencies, quote : Quotes]

FxSteps    == {"consume", "convert", "fail"}
FxRefusals == {"FX_QUOTE_NOT_FOUND", "FX_QUOTE_ALREADY_USED",
               "FX_QUOTE_EXPIRED", "FX_PROVIDER_UNAVAILABLE"}
Verdicts   == {"PROCESSING", "COMPLETED", "REVERSED"}
Answers    == Verdicts \cup FxRefusals \cup
              {"FX_QUOTE_CURRENCY_MISMATCH", "IDEMPOTENCY_KEY_EXPIRED",
               "IDEMPOTENCY_KEY_PAYLOAD_MISMATCH", "VALIDATION_ERROR",
               "INTERNAL_ERROR"}

ASSUME InitiateAssumption ==
  /\ International \subseteq Requests
  /\ key \in [Requests -> Keys] /\ body \in [Requests -> Bodies]
  /\ Null \notin Requests \cup Keys \cup Pairs \cup Nat \cup Answers
                \cup {"FAILED"}
  /\ DOMAIN rates \subseteq Pairs
  /\ \A p \in DOMAIN rates : rates[p] \in Numerals
  /\ MaxFaults \in Nat

VARIABLES
  \* transaction-service's database
  owner,        \* the request that inserted the key and its row
  status,       \* transactions.status
  destination,  \* destinationAmountCents
  keyDone,      \* idempotency_keys.status = 'completed'
  keyExpired,   \* expires_at has passed
  \* fx-service's database
  pair,         \* base_currency and quote_currency
  usedBy,       \* used_by_transaction_id
  lapsed,       \* expires_at has passed
  \* the requests
  pc, refusal, answer,
  late,         \* consumptions whose caller gave up, still to be served
  faults

rowVars   == <<owner, status, destination, keyDone, keyExpired>>
quoteVars == <<pair, usedBy, lapsed>>
callVars  == <<pc, refusal, answer>>
vars      == <<rowVars, quoteVars, callVars, late, faults>>

\* Every column and every call in its range.
TypeOK ==
  /\ owner \in [Keys -> Requests \cup {Null}]
  /\ status \in [Keys -> Verdicts \cup {"FAILED", Null}]
  /\ destination \in [Keys -> Nat \cup {Null}]
  /\ keyDone \in [Keys -> BOOLEAN] /\ keyExpired \in [Keys -> BOOLEAN]
  /\ pair \in [Quotes -> DOMAIN rates \cup {Null}]
  /\ usedBy \in [Quotes -> Keys \cup {Null}]
  /\ lapsed \in [Quotes -> BOOLEAN]
  /\ pc \in [Requests -> FxSteps \cup {"new", "lookup", "execute", "done"}]
  /\ refusal \in [Requests -> FxRefusals \cup {Null}]
  /\ answer \in [Requests -> Answers \cup {Null}]
  /\ late \in SUBSET (Quotes \X Keys)
  /\ faults \in 0 .. MaxFaults

Init ==
  /\ owner = [k \in Keys |-> Null] /\ status = [k \in Keys |-> Null]
  /\ destination = [k \in Keys |-> Null]
  /\ keyDone = [k \in Keys |-> FALSE] /\ keyExpired = [k \in Keys |-> FALSE]
  /\ pair = [q \in Quotes |-> Null] /\ usedBy = [q \in Quotes |-> Null]
  /\ lapsed = [q \in Quotes |-> FALSE]
  /\ pc = [r \in Requests |-> "new"]
  /\ refusal = [r \in Requests |-> Null] /\ answer = [r \in Requests |-> Null]
  /\ late = {} /\ faults = 0

Goto(r, label) == pc' = [pc EXCEPT ![r] = label]
Answer(r, a)   == Goto(r, "done") /\ answer' = [answer EXCEPT ![r] = a]
Fault          == faults < MaxFaults /\ faults' = faults + 1

-----------------------------------------------------------------------------
(* fx-service                                                              *)

\* Mutation of CreateQuote: the table is not asked for the pair.
CreateQuoteAnyPair(q) ==
  /\ pair[q] = Null
  /\ \E p \in Pairs : pair' = [pair EXCEPT ![q] = p]
  /\ UNCHANGED <<rowVars, usedBy, lapsed, callVars, late, faults>>

\* The provider is up and has a rate for the pair.
CreateQuote(q) ==
  /\ pair[q] = Null
  /\ \E p \in DOMAIN rates : pair' = [pair EXCEPT ![q] = p]
  /\ UNCHANGED <<rowVars, usedBy, lapsed, callVars, late, faults>>

ExpireQuote(q) ==
  /\ pair[q] # Null /\ ~lapsed[q]
  /\ lapsed' = [lapsed EXCEPT ![q] = TRUE]
  /\ UNCHANGED <<rowVars, pair, usedBy, callVars, late, faults>>

\* Mutation of Consumable: the UPDATE lacks "used = false".
ConsumableAgain(q) == pair[q] # Null /\ ~lapsed[q]

Consumable(q) == pair[q] # Null /\ usedBy[q] = Null /\ ~lapsed[q]

\* The conditional UPDATE of consumeQuote().
Consume(q, k) ==
  usedBy' = [usedBy EXCEPT ![q] = IF Consumable(q) THEN k ELSE @]

\* Why it changed no row.
Refused(q) ==
  IF pair[q] = Null THEN "FX_QUOTE_NOT_FOUND"
  ELSE IF usedBy[q] # Null THEN "FX_QUOTE_ALREADY_USED" ELSE "FX_QUOTE_EXPIRED"

-----------------------------------------------------------------------------
(* initiate(): the key                                                     *)

Valid(r) == body[r].cents > 0

Refuse(r) ==
  /\ pc[r] = "new" /\ ~Valid(r)
  /\ Answer(r, "VALIDATION_ERROR")
  /\ UNCHANGED <<rowVars, quoteVars, refusal, late, faults>>

InsertRow(r) ==
  /\ owner[key[r]] = Null
  /\ owner' = [owner EXCEPT ![key[r]] = r]
  /\ status' = [status EXCEPT ![key[r]] = "PROCESSING"]
  /\ UNCHANGED <<destination, keyDone, keyExpired>>

\* Key and row in one database transaction, or P2002: the key exists.
Insert(r) ==
  /\ pc[r] = "new" /\ Valid(r)
  /\ \/ /\ InsertRow(r)
        /\ Goto(r, IF r \in International THEN "consume" ELSE "execute")
     \/ /\ owner[key[r]] # Null
        /\ Goto(r, "lookup")
        /\ UNCHANGED rowVars
  /\ UNCHANGED <<quoteVars, refusal, answer, late, faults>>

\* The database fails, after or before it committed: the exception is a 500.
InsertFails(r) ==
  /\ Fault
  /\ pc[r] = "new" /\ Valid(r)
  /\ InsertRow(r) \/ UNCHANGED rowVars
  /\ Answer(r, "INTERNAL_ERROR")
  /\ UNCHANGED <<quoteVars, refusal, late>>

\* Mutation of Replayed: the stored answer is looked at before the payload.
ReplayedFirst(r) ==
  LET k == key[r] IN
  IF keyExpired[k] THEN "IDEMPOTENCY_KEY_EXPIRED"
  ELSE IF keyDone[k] THEN "COMPLETED"
  ELSE IF body[owner[k]] # body[r] THEN "IDEMPOTENCY_KEY_PAYLOAD_MISMATCH"
  ELSE "PROCESSING"

\* What a request whose key exists is told: the stored answer, or 202.
Replayed(r) ==
  LET k == key[r] IN
  IF keyExpired[k] THEN "IDEMPOTENCY_KEY_EXPIRED"
  ELSE IF body[owner[k]] # body[r] THEN "IDEMPOTENCY_KEY_PAYLOAD_MISMATCH"
  ELSE IF keyDone[k] THEN "COMPLETED" ELSE "PROCESSING"

Replay(r) ==
  /\ pc[r] = "lookup"
  /\ Answer(r, Replayed(r))
  /\ UNCHANGED <<rowVars, quoteVars, refusal, late, faults>>

ExpireKey(k) ==
  /\ owner[k] # Null /\ ~keyExpired[k]
  /\ keyExpired' = [keyExpired EXCEPT ![k] = TRUE]
  /\ UNCHANGED <<owner, status, destination, keyDone, quoteVars, callVars,
                 late, faults>>

-----------------------------------------------------------------------------
(* initiate(): the quote                                                   *)

\* Mutation of Matches: only the destination currency is compared.
MatchesDest(r) == pair[body[r].quote][2] = body[r].dest

Matches(r) == pair[body[r].quote] = <<body[r].source, body[r].dest>>

\* fx-service answers.  A quote for other currencies is used up all the same,
\* and the row is left as it is.
ConsumeQuote(r) ==
  LET q == body[r].quote IN
  /\ pc[r] = "consume"
  /\ Consume(q, key[r])
  /\ \/ /\ Consumable(q) /\ Matches(r)
        /\ Goto(r, "convert")
        /\ UNCHANGED <<refusal, answer>>
     \/ /\ Consumable(q) /\ ~Matches(r)
        /\ Answer(r, "FX_QUOTE_CURRENCY_MISMATCH")
        /\ UNCHANGED refusal
     \/ /\ ~Consumable(q)
        /\ Goto(r, "fail")
        /\ refusal' = [refusal EXCEPT ![r] = Refused(q)]
        /\ UNCHANGED answer
  /\ UNCHANGED <<rowVars, pair, lapsed, late, faults>>

GiveUp(r) ==
  /\ Goto(r, "fail")
  /\ refusal' = [refusal EXCEPT ![r] = "FX_PROVIDER_UNAVAILABLE"]
  /\ UNCHANGED answer

\* No answer within 15 seconds: the quote is used, is not, or will be.
ConsumeFails(r) ==
  LET q == body[r].quote IN
  /\ Fault
  /\ pc[r] = "consume"
  /\ \/ UNCHANGED <<usedBy, late>>
     \/ Consume(q, key[r]) /\ UNCHANGED late
     \/ late' = late \cup {<<q, key[r]>>} /\ UNCHANGED usedBy
  /\ GiveUp(r)
  /\ UNCHANGED <<rowVars, pair, lapsed>>

ServeLate(m) ==
  /\ late' = late \ {m}
  /\ Consume(m[1], m[2])
  /\ UNCHANGED <<rowVars, pair, lapsed, callVars, faults>>

WriteDestination(r) ==
  destination' = [destination EXCEPT ![key[r]] =
                    cents(body[r].cents, rates[pair[body[r].quote]])]

Convert(r) ==
  /\ pc[r] = "convert"
  /\ WriteDestination(r)
  /\ Goto(r, "execute")
  /\ UNCHANGED <<owner, status, keyDone, keyExpired, quoteVars, refusal,
                 answer, late, faults>>

ConvertFails(r) ==
  /\ Fault
  /\ pc[r] = "convert"
  /\ WriteDestination(r) \/ UNCHANGED destination
  /\ GiveUp(r)
  /\ UNCHANGED <<owner, status, keyDone, keyExpired, quoteVars, late>>

\* Mutation of MarkFailed: the refusal is answered, the row left to recovery.
MarkFailedNot(r) ==
  /\ pc[r] = "fail"
  /\ Answer(r, refusal[r])
  /\ UNCHANGED <<rowVars, quoteVars, refusal, late, faults>>

MarkFailed(r) ==
  /\ pc[r] = "fail"
  /\ status' = [status EXCEPT ![key[r]] = "FAILED"]
  /\ Answer(r, refusal[r])
  /\ UNCHANGED <<owner, destination, keyDone, keyExpired, quoteVars, refusal,
                 late, faults>>

MarkFails(r) ==
  /\ Fault
  /\ pc[r] = "fail"
  /\ status' = [status EXCEPT ![key[r]] = "FAILED"] \/ UNCHANGED status
  /\ Answer(r, "INTERNAL_ERROR")
  /\ UNCHANGED <<owner, destination, keyDone, keyExpired, quoteVars, refusal,
                 late>>

-----------------------------------------------------------------------------
(* execute() and recovery                                                  *)

Destination(k) ==
  IF destination[k] # Null THEN destination[k] ELSE body[owner[k]].cents

\* A row is executed by its request or, a minute later, by the recovery; the
\* FX branch is over by then.  The ledger refuses an amount of 0 cents.
Settle(k) ==
  /\ status[k] = "PROCESSING"
  /\ pc[owner[k]] \notin FxSteps
  /\ \/ /\ Destination(k) > 0
        /\ status' = [status EXCEPT ![k] = "COMPLETED"]
        /\ keyDone' = [keyDone EXCEPT ![k] = TRUE]
     \/ /\ status' = [status EXCEPT ![k] = "REVERSED"]
        /\ UNCHANGED keyDone
  /\ UNCHANGED <<owner, destination, keyExpired, quoteVars, callVars, late,
                 faults>>

\* execute() returns the row's status, PROCESSING where another worker has the
\* lease, or throws.
Executed(r) ==
  /\ pc[r] = "execute"
  /\ \E a \in {status[key[r]], "INTERNAL_ERROR"} : Answer(r, a)
  /\ UNCHANGED <<rowVars, quoteVars, refusal, late, faults>>

\* The replica dies; a consumption it was awaiting may still be served.
Crash(r) ==
  /\ Fault
  /\ pc[r] \notin {"new", "done"}
  /\ Goto(r, "done")
  /\ \/ UNCHANGED late
     \/ pc[r] = "consume" /\ late' = late \cup {<<body[r].quote, key[r]>>}
  /\ UNCHANGED <<rowVars, quoteVars, refusal, answer>>

-----------------------------------------------------------------------------
initiate(r) ==
  \/ Refuse(r) \/ Insert(r) \/ Replay(r) \/ ConsumeQuote(r) \/ Convert(r)
  \/ MarkFailed(r) \/ Executed(r)

Fail(r) ==
  InsertFails(r) \/ ConsumeFails(r) \/ ConvertFails(r) \/ MarkFails(r) \/ Crash(r)

Next ==
  \/ \E r \in Requests : initiate(r) \/ Fail(r)
  \/ \E q \in Quotes : CreateQuote(q) \/ ExpireQuote(q)
  \/ \E k \in Keys : ExpireKey(k) \/ Settle(k)
  \/ \E m \in late : ServeLate(m)

Spec == Init /\ [][Next]_vars

-----------------------------------------------------------------------------
\* Two requests that carry one key and different bodies are never told about
\* one another's transfer, whichever came first, however they overlap, and
\* whether the first has ended or not.
NoForeignAnswer ==
  \A r \in Requests :
    answer[r] \in Verdicts \cup FxRefusals \cup {"FX_QUOTE_CURRENCY_MISMATCH"}
    => body[owner[key[r]]] = body[r]

\* What a client was told stays true: a transfer reported as COMPLETED or
\* REVERSED has that status for ever, and one whose quote was refused, the
\* answer of fx-service lost or late among the reasons, never moves money.
AnswersAreTrue ==
  \A r \in Requests :
    /\ answer[r] \in {"COMPLETED", "REVERSED"} => status[key[r]] = answer[r]
    /\ answer[r] \in FxRefusals => status[key[r]] = "FAILED"

\* A quote converts at most one transfer, the one that it records, though
\* requests race for it and their consumptions may be served late.
QuoteSpentOnce ==
  \A k \in Keys :
    destination[k] # Null => usedBy[body[owner[k]].quote] = k

\* An international transfer that is not refused is paid what its amount is
\* worth at the quoted rate of the currencies that the request names.
PaidAsQuoted ==
  \A k \in Keys :
    LET r == owner[k] IN
    r # Null /\ r \in International /\ answer[r] \in Verdicts =>
      destination[k]
        = Worth(body[r].cents, rates[<<body[r].source, body[r].dest>>])
=============================================================================
