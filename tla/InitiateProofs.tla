---------------------------- MODULE InitiateProofs ----------------------------
(***************************************************************************)
(* Theorems about Initiate and their proofs.                                *)
(*                                                                         *)
(* NoForeignAnswer and QuoteSpentOnce nearly are invariants by themselves;   *)
(* AnswersAreTrue and PaidAsQuoted need to know what a call in progress has  *)
(* made sure of, above all that nobody settles a row in its FX branch.      *)
(***************************************************************************)
EXTENDS Initiate, TLAPS

\* What is on record of a key.
KeyFacts(k) ==
  /\ owner[k] = Null =>
       status[k] = Null /\ destination[k] = Null /\ keyDone[k] = FALSE
  /\ owner[k] # Null => key[owner[k]] = k /\ status[k] # Null
  /\ keyDone[k] = TRUE => status[k] = "COMPLETED"
  /\ status[k] = "FAILED" => pc[owner[k]] = "done"
  /\ destination[k] # Null => usedBy[body[owner[k]].quote] = k

\* What a call's position says of its key, its row and its quote.
CallFacts(r) ==
  /\ pc[r] # "done" => answer[r] = Null
  /\ pc[r] = "new" => owner[key[r]] # r
  /\ pc[r] = "lookup" => owner[key[r]] \notin {Null, r}
  /\ pc[r] \in FxSteps \cup {"execute"} => owner[key[r]] = r
  /\ pc[r] \in FxSteps => status[key[r]] = "PROCESSING"
  /\ pc[r] = "fail" => refusal[r] \in FxRefusals
  /\ pc[r] = "convert" =>
       /\ usedBy[body[r].quote] = key[r]
       /\ pair[body[r].quote] # Null
       /\ pair[body[r].quote] = <<body[r].source, body[r].dest>>

Told == Verdicts \cup FxRefusals \cup {"FX_QUOTE_CURRENCY_MISMATCH"}

\* What is true of the row that a client was told about.
AnswerFacts(r) ==
  /\ answer[r] \in Told =>
       owner[key[r]] # Null /\ body[owner[key[r]]] = body[r]
  /\ answer[r] \in {"COMPLETED", "REVERSED"} => status[key[r]] = answer[r]
  /\ answer[r] \in FxRefusals => status[key[r]] = "FAILED"

Quoted(r) == cents(body[r].cents, rates[<<body[r].source, body[r].dest>>])

\* An international row that is executed carries its conversion.
RateFacts(r) ==
  owner[key[r]] = r /\ (pc[r] = "execute" \/ answer[r] \in Verdicts) =>
    /\ <<body[r].source, body[r].dest>> \in DOMAIN rates
    /\ destination[key[r]] = Quoted(r)

KeyInv    == \A k \in Keys : KeyFacts(k)
CallInv   == \A r \in Requests : CallFacts(r)
AnswerInv == \A r \in Requests : AnswerFacts(r)
RateInv   == \A r \in International : RateFacts(r)
Inv       == TypeOK /\ KeyInv /\ CallInv /\ AnswerInv /\ RateInv

-----------------------------------------------------------------------------
(* cents()                                                                 *)

LEMMA CentsInNat ==
  ASSUME NEW a \in Nat, NEW rate \in Numerals
  PROVE  cents(a, rate) \in Nat
  BY DEF cents, Padded, Digits, Numerals, Pow10

\* cents() is exact for every amount, and for every rate with one digit before
\* the point; the violation of PaidAsQuoted has a rate with three.
THEOREM CentsExact ==
  ASSUME NEW a \in Nat, NEW rate \in Numerals, rate.whole = 1
  PROVE  cents(a, rate) = Worth(a, rate)
<1>1. rate.n \in Nat /\ rate.frac \in 0 .. 8
  BY DEF Numerals
<1>2. PICK x \in Nat : x = a * rate.n
  BY <1>1
<1>3. CASE rate.frac = 8
  <2>1. Padded(rate) = rate.n
    BY <1>3, <1>1 DEF Padded, Digits
  <2> QED
    BY <2>1, <1>3 DEF cents, Worth, Pow10
<1>4. CASE rate.frac # 8
  <2>1. Padded(rate) = rate.n * Pow10(8 - rate.frac)
    BY <1>4, <1>1 DEF Padded, Digits
  <2>2. Pow10(8 - rate.frac) \in Nat
    BY <1>4, <1>1 DEF Pow10
  <2>3. a * (rate.n * Pow10(8 - rate.frac)) = x * Pow10(8 - rate.frac)
    <3> DEFINE n == rate.n
               p == Pow10(8 - rate.frac)
    <3>1. a \in Nat /\ n \in Nat /\ p \in Nat /\ x = a * n
      BY <1>1, <1>2, <2>2
    <3> HIDE DEF n, p
    <3>2. a * (n * p) = (a * n) * p
      BY <3>1
    <3> QED
      BY <3>1, <3>2 DEF n, p
  <2>4. cents(a, rate) = (x * Pow10(8 - rate.frac)) \div 100000000
    BY <2>1, <2>3 DEF cents
  <2>5. Worth(a, rate) = x \div Pow10(rate.frac)
    BY <1>2 DEF Worth
  <2>6. rate.frac \in {0, 1, 2, 3, 4, 5, 6, 7}
    BY <1>1, <1>4
  <2> QED
    BY <2>4, <2>5, <2>6 DEF Pow10
<1> QED
  BY <1>3, <1>4

-----------------------------------------------------------------------------
(* What the invariant says of one row and of one call.                     *)

RowFacts(k) ==
  /\ KeyFacts(k)
  /\ owner[k] # Null =>
       owner[k] \in Requests /\ key[owner[k]] = k /\ CallFacts(owner[k])

RequestFacts(r) ==
  /\ CallFacts(r) /\ AnswerFacts(r) /\ RowFacts(key[r])
  /\ r \in International => RateFacts(r)

LEMMA RequestTypes ==
  ASSUME NEW r \in Requests
  PROVE  /\ key[r] \in Keys /\ r # Null
         /\ body[r].quote \in Quotes /\ body[r].cents \in Nat
  BY InitiateAssumption DEF Bodies

LEMMA RowKnown ==
  ASSUME Inv, NEW k \in Keys
  PROVE  RowFacts(k)
  BY InitiateAssumption
     DEF Inv, TypeOK, KeyInv, CallInv, KeyFacts, RowFacts

LEMMA RequestKnown ==
  ASSUME Inv, NEW r \in Requests
  PROVE  RequestFacts(r)
  BY RowKnown, RequestTypes
     DEF Inv, CallInv, AnswerInv, RateInv, RequestFacts

-----------------------------------------------------------------------------
(* Every step keeps the invariant.                                         *)

LEMMA RefuseKeeps ==
  ASSUME Inv, NEW r \in Requests, Refuse(r)
  PROVE  Inv'
<1> USE RequestTypes, InitiateAssumption DEF Refuse, Goto, Answer, Valid,
         rowVars, quoteVars, callVars
<1>1. TypeOK'
  BY DEF Inv, TypeOK, CallInv, CallFacts, Verdicts, FxRefusals, FxSteps,
       Answers
<1>2. KeyInv'
  BY DEF Inv, TypeOK, KeyInv, CallInv, KeyFacts, CallFacts, FxSteps
<1>3. CallInv'
  BY DEF Inv, TypeOK, KeyInv, CallInv, KeyFacts, CallFacts, FxRefusals,
       FxSteps
<1>4. AnswerInv'
  BY DEF Inv, TypeOK, KeyInv, CallInv, AnswerInv, KeyFacts, CallFacts,
       AnswerFacts, Told, Verdicts, FxRefusals, FxSteps
<1>5. RateInv'
  BY DEF Inv, TypeOK, KeyInv, CallInv, RateInv, KeyFacts, CallFacts,
       RateFacts, Quoted, Verdicts, FxRefusals, FxSteps
<1> QED
  BY <1>1, <1>2, <1>3, <1>4, <1>5 DEF Inv

LEMMA InsertKeeps ==
  ASSUME Inv, NEW r \in Requests, Insert(r)
  PROVE  Inv'
<1> USE RequestTypes, InitiateAssumption DEF Insert, Goto, Answer, InsertRow,
         Valid, rowVars, quoteVars, callVars
<1>1. TypeOK'
  <2>1. owner' \in [Keys -> Requests \cup {Null}]
    BY DEF Inv, TypeOK
  <2>2. status' \in [Keys -> Verdicts \cup {"FAILED", Null}]
    BY DEF Inv, TypeOK, Verdicts
  <2>3. pc' \in [Requests ->
              FxSteps \cup {"new", "lookup", "execute", "done"}]
    BY DEF Inv, TypeOK, FxSteps
  <2> QED
    BY <2>1, <2>2, <2>3 DEF Inv, TypeOK
<1>2. KeyInv'
  <2> SUFFICES ASSUME NEW k \in Keys PROVE KeyFacts(k)'
    BY DEF KeyInv
  <2>1. RowFacts(k)
    BY RowKnown
  <2>2. RequestFacts(r)
    BY RequestKnown
  <2>3. CASE k = key[r]
    BY <2>3, <2>1, <2>2 DEF Inv, TypeOK, RowFacts, RequestFacts, KeyFacts,
         CallFacts, Verdicts, Answers, FxSteps
  <2>4. CASE k # key[r]
    BY <2>4, <2>1, <2>2 DEF Inv, TypeOK, RowFacts, RequestFacts, KeyFacts,
         CallFacts, Verdicts, Answers, FxSteps
  <2> QED
    BY <2>3, <2>4
<1>3. ASSUME NEW s \in Requests
      PROVE  /\ CallFacts(s)' /\ AnswerFacts(s)'
             /\ s \in International => RateFacts(s)'
  <2>1. RequestFacts(s) /\ RequestFacts(r)
    BY RequestKnown
  <2>2. CASE s = r
    BY <2>1, <2>2 DEF Inv, TypeOK, RowFacts, RequestFacts, KeyFacts,
         CallFacts, AnswerFacts, RateFacts, Told, Quoted, Verdicts,
         FxRefusals, FxSteps, Answers
  <2>3. CASE s # r
    BY <2>1, <2>3 DEF Inv, TypeOK, RowFacts, RequestFacts, KeyFacts,
         CallFacts, AnswerFacts, RateFacts, Told, Quoted, Verdicts,
         FxRefusals, FxSteps, Answers
  <2> QED
    BY <2>2, <2>3
<1> QED
  BY <1>1, <1>2, <1>3 DEF Inv, CallInv, AnswerInv, RateInv

LEMMA InsertFailsKeeps ==
  ASSUME Inv, NEW r \in Requests, InsertFails(r)
  PROVE  Inv'
<1> USE RequestTypes, InitiateAssumption DEF InsertFails, Goto, Answer,
         InsertRow, Fault, Valid, rowVars, quoteVars, callVars
<1>1. TypeOK'
  <2>1. owner' \in [Keys -> Requests \cup {Null}]
    BY DEF Inv, TypeOK
  <2>2. status' \in [Keys -> Verdicts \cup {"FAILED", Null}]
    BY DEF Inv, TypeOK, Verdicts
  <2>3. pc' \in [Requests ->
              FxSteps \cup {"new", "lookup", "execute", "done"}]
    BY DEF Inv, TypeOK, FxSteps
  <2>4. answer' \in [Requests -> Answers \cup {Null}]
    BY DEF Inv, TypeOK, Verdicts, FxRefusals, Answers
  <2>5. faults' \in 0 .. MaxFaults
    BY DEF Inv, TypeOK
  <2> QED
    BY <2>1, <2>2, <2>3, <2>4, <2>5 DEF Inv, TypeOK
<1>2. KeyInv'
  <2> SUFFICES ASSUME NEW k \in Keys PROVE KeyFacts(k)'
    BY DEF KeyInv
  <2>1. RowFacts(k)
    BY RowKnown
  <2>2. RequestFacts(r)
    BY RequestKnown
  <2>3. CASE k = key[r]
    BY <2>3, <2>1, <2>2 DEF Inv, TypeOK, RowFacts, RequestFacts, KeyFacts,
         CallFacts, Verdicts, Answers, FxSteps
  <2>4. CASE k # key[r]
    BY <2>4, <2>1, <2>2 DEF Inv, TypeOK, RowFacts, RequestFacts, KeyFacts,
         CallFacts, Verdicts, Answers, FxSteps
  <2> QED
    BY <2>3, <2>4
<1>3. ASSUME NEW s \in Requests
      PROVE  /\ CallFacts(s)' /\ AnswerFacts(s)'
             /\ s \in International => RateFacts(s)'
  <2>1. RequestFacts(s) /\ RequestFacts(r)
    BY RequestKnown
  <2>2. CASE s = r
    BY <2>1, <2>2 DEF Inv, TypeOK, RowFacts, RequestFacts, KeyFacts,
         CallFacts, AnswerFacts, RateFacts, Told, Quoted, Verdicts,
         FxRefusals, FxSteps, Answers
  <2>3. CASE s # r
    BY <2>1, <2>3 DEF Inv, TypeOK, RowFacts, RequestFacts, KeyFacts,
         CallFacts, AnswerFacts, RateFacts, Told, Quoted, Verdicts,
         FxRefusals, FxSteps, Answers
  <2> QED
    BY <2>2, <2>3
<1> QED
  BY <1>1, <1>2, <1>3 DEF Inv, CallInv, AnswerInv, RateInv

LEMMA ReplayKeeps ==
  ASSUME Inv, NEW r \in Requests, Replay(r)
  PROVE  Inv'
<1> USE RequestTypes, InitiateAssumption DEF Replay, Goto, Answer, Replayed,
         rowVars, quoteVars, callVars
<1>1. TypeOK'
  BY DEF Inv, TypeOK, CallInv, CallFacts, Verdicts, FxRefusals, FxSteps,
       Answers
<1>2. KeyInv'
  BY DEF Inv, TypeOK, KeyInv, CallInv, KeyFacts, CallFacts, FxSteps
<1>3. ASSUME NEW s \in Requests
      PROVE  /\ CallFacts(s)' /\ AnswerFacts(s)'
             /\ s \in International => RateFacts(s)'
  <2>1. RequestFacts(s) /\ RequestFacts(r)
    BY RequestKnown
  <2>2. CASE s = r
    BY <2>1, <2>2 DEF Inv, TypeOK, RowFacts, RequestFacts, KeyFacts,
         CallFacts, AnswerFacts, RateFacts, Told, Quoted, Verdicts,
         FxRefusals, FxSteps, Answers
  <2>3. CASE s # r
    BY <2>1, <2>3 DEF Inv, TypeOK, RowFacts, RequestFacts, KeyFacts,
         CallFacts, AnswerFacts, RateFacts, Told, Quoted, Verdicts,
         FxRefusals, FxSteps, Answers
  <2> QED
    BY <2>2, <2>3
<1> QED
  BY <1>1, <1>2, <1>3 DEF Inv, CallInv, AnswerInv, RateInv

LEMMA ConsumeQuoteKeeps ==
  ASSUME Inv, NEW r \in Requests, ConsumeQuote(r)
  PROVE  Inv'
<1> USE RequestTypes, InitiateAssumption DEF ConsumeQuote, Goto, Answer,
         Consume, Consumable, Matches, Refused, rowVars, quoteVars, callVars
<1>1. TypeOK'
  <2>1. usedBy' \in [Quotes -> Keys \cup {Null}]
    BY DEF Inv, TypeOK
  <2>2. pc' \in [Requests ->
              FxSteps \cup {"new", "lookup", "execute", "done"}]
    BY DEF Inv, TypeOK, FxSteps
  <2>3. refusal' \in [Requests -> FxRefusals \cup {Null}]
    BY DEF Inv, TypeOK, FxRefusals
  <2>4. answer' \in [Requests -> Answers \cup {Null}]
    BY DEF Inv, TypeOK, Verdicts, FxRefusals, Answers
  <2> QED
    BY <2>1, <2>2, <2>3, <2>4 DEF Inv, TypeOK
<1>2. KeyInv'
  BY DEF Inv, TypeOK, KeyInv, CallInv, KeyFacts, CallFacts, FxSteps
<1>3. CallInv'
  BY DEF Inv, TypeOK, KeyInv, CallInv, KeyFacts, CallFacts, FxRefusals,
       FxSteps
<1>4. AnswerInv'
  BY DEF Inv, TypeOK, KeyInv, CallInv, AnswerInv, KeyFacts, CallFacts,
       AnswerFacts, Told, Verdicts, FxRefusals, FxSteps
<1>5. RateInv'
  BY DEF Inv, TypeOK, KeyInv, CallInv, RateInv, KeyFacts, CallFacts,
       RateFacts, Quoted, Verdicts, FxRefusals, FxSteps
<1> QED
  BY <1>1, <1>2, <1>3, <1>4, <1>5 DEF Inv

LEMMA ConsumeFailsKeeps ==
  ASSUME Inv, NEW r \in Requests, ConsumeFails(r)
  PROVE  Inv'
<1> USE RequestTypes, InitiateAssumption DEF ConsumeFails, Goto, Answer,
         Consume, Consumable, GiveUp, Fault, rowVars, quoteVars, callVars
<1>1. TypeOK'
  <2>1. usedBy' \in [Quotes -> Keys \cup {Null}]
    BY DEF Inv, TypeOK
  <2>2. pc' \in [Requests ->
              FxSteps \cup {"new", "lookup", "execute", "done"}]
    BY DEF Inv, TypeOK, FxSteps
  <2>3. refusal' \in [Requests -> FxRefusals \cup {Null}]
    BY DEF Inv, TypeOK, FxRefusals
  <2>4. late' \in SUBSET (Quotes \X Keys)
    BY DEF Inv, TypeOK
  <2>5. faults' \in 0 .. MaxFaults
    BY DEF Inv, TypeOK
  <2> QED
    BY <2>1, <2>2, <2>3, <2>4, <2>5 DEF Inv, TypeOK
<1>2. KeyInv'
  <2> SUFFICES ASSUME NEW k \in Keys PROVE KeyFacts(k)'
    BY DEF KeyInv
  <2>1. RowFacts(k)
    BY RowKnown
  <2>2. RequestFacts(r)
    BY RequestKnown
  <2>3. CASE k = key[r]
    BY <2>3, <2>1, <2>2 DEF Inv, TypeOK, RowFacts, RequestFacts, KeyFacts,
         CallFacts, Verdicts, Answers, FxSteps
  <2>4. CASE k # key[r]
    BY <2>4, <2>1, <2>2 DEF Inv, TypeOK, RowFacts, RequestFacts, KeyFacts,
         CallFacts, Verdicts, Answers, FxSteps
  <2> QED
    BY <2>3, <2>4
<1>3. ASSUME NEW s \in Requests
      PROVE  /\ CallFacts(s)' /\ AnswerFacts(s)'
             /\ s \in International => RateFacts(s)'
  <2>1. RequestFacts(s) /\ RequestFacts(r)
    BY RequestKnown
  <2>2. CASE s = r
    BY <2>1, <2>2 DEF Inv, TypeOK, RowFacts, RequestFacts, KeyFacts,
         CallFacts, AnswerFacts, RateFacts, Told, Quoted, Verdicts,
         FxRefusals, FxSteps, Answers
  <2>3. CASE s # r
    BY <2>1, <2>3 DEF Inv, TypeOK, RowFacts, RequestFacts, KeyFacts,
         CallFacts, AnswerFacts, RateFacts, Told, Quoted, Verdicts,
         FxRefusals, FxSteps, Answers
  <2> QED
    BY <2>2, <2>3
<1> QED
  BY <1>1, <1>2, <1>3 DEF Inv, CallInv, AnswerInv, RateInv

LEMMA ConvertKeeps ==
  ASSUME Inv, NEW r \in Requests, Convert(r)
  PROVE  Inv'
<1> USE RequestTypes, InitiateAssumption DEF Convert, Goto, Answer,
         WriteDestination, rowVars, quoteVars, callVars
<1>1. TypeOK'
  <2>0. cents(body[r].cents, rates[pair[body[r].quote]]) \in Nat
    <3>1. pair[body[r].quote] \in DOMAIN rates
      BY DEF Inv, TypeOK, CallInv, CallFacts
    <3> QED
      BY <3>1, CentsInNat
  <2>1. destination' \in [Keys -> Nat \cup {Null}]
    BY <2>0 DEF Inv, TypeOK
  <2>2. pc' \in [Requests ->
              FxSteps \cup {"new", "lookup", "execute", "done"}]
    BY DEF Inv, TypeOK, FxSteps
  <2> QED
    BY <2>1, <2>2 DEF Inv, TypeOK
<1>2. KeyInv'
  BY DEF Inv, TypeOK, KeyInv, CallInv, KeyFacts, CallFacts, FxSteps
<1>3. CallInv'
  <2> SUFFICES ASSUME NEW s \in Requests PROVE CallFacts(s)'
    BY DEF CallInv
  <2>1. RequestFacts(s)
    BY RequestKnown
  <2>2. RequestFacts(r)
    BY RequestKnown
  <2>3. CASE s = r
    BY <2>3, <2>1, <2>2 DEF Inv, TypeOK, RowFacts, RequestFacts, KeyFacts,
         CallFacts, FxRefusals, FxSteps
  <2>4. CASE s # r
    BY <2>4, <2>1, <2>2 DEF Inv, TypeOK, RowFacts, RequestFacts, KeyFacts,
         CallFacts, FxRefusals, FxSteps
  <2> QED
    BY <2>3, <2>4
<1>4. AnswerInv'
  BY DEF Inv, TypeOK, KeyInv, CallInv, AnswerInv, KeyFacts, CallFacts,
       AnswerFacts, Told, Verdicts, FxRefusals, FxSteps
<1>5. RateInv'
  <2> SUFFICES ASSUME NEW s \in International PROVE RateFacts(s)'
    BY DEF RateInv
  <2>1. RequestFacts(s)
    BY RequestKnown
  <2>2. RequestFacts(r)
    BY RequestKnown
  <2>3. CASE s = r
    <3>1. /\ pair[body[r].quote] = <<body[r].source, body[r].dest>>
          /\ pair[body[r].quote] \in DOMAIN rates
      BY <2>2 DEF Inv, TypeOK, RequestFacts, CallFacts
    <3>2. destination'[key[r]] = Quoted(r)
      BY <3>1 DEF Inv, TypeOK, Quoted
    <3> QED
      BY <2>3, <3>1, <3>2 DEF RateFacts, Quoted
  <2>4. CASE s # r
    BY <2>4, <2>1, <2>2 DEF Inv, TypeOK, RowFacts, RequestFacts, KeyFacts,
         CallFacts, AnswerFacts, RateFacts, Told, Quoted, Verdicts,
         FxRefusals, FxSteps, Answers
  <2> QED
    BY <2>3, <2>4
<1> QED
  BY <1>1, <1>2, <1>3, <1>4, <1>5 DEF Inv

LEMMA ConvertFailsKeeps ==
  ASSUME Inv, NEW r \in Requests, ConvertFails(r)
  PROVE  Inv'
<1> USE RequestTypes, InitiateAssumption DEF ConvertFails, Goto, Answer,
         WriteDestination, GiveUp, Fault, rowVars, quoteVars, callVars
<1>1. TypeOK'
  <2>0. cents(body[r].cents, rates[pair[body[r].quote]]) \in Nat
    <3>1. pair[body[r].quote] \in DOMAIN rates
      BY DEF Inv, TypeOK, CallInv, CallFacts
    <3> QED
      BY <3>1, CentsInNat
  <2>1. destination' \in [Keys -> Nat \cup {Null}]
    BY <2>0 DEF Inv, TypeOK
  <2>2. pc' \in [Requests ->
              FxSteps \cup {"new", "lookup", "execute", "done"}]
    BY DEF Inv, TypeOK, FxSteps
  <2>3. refusal' \in [Requests -> FxRefusals \cup {Null}]
    BY DEF Inv, TypeOK, FxRefusals
  <2>4. faults' \in 0 .. MaxFaults
    BY DEF Inv, TypeOK
  <2> QED
    BY <2>1, <2>2, <2>3, <2>4 DEF Inv, TypeOK
<1>2. KeyInv'
  BY DEF Inv, TypeOK, KeyInv, CallInv, KeyFacts, CallFacts, FxSteps
<1>3. ASSUME NEW s \in Requests
      PROVE  /\ CallFacts(s)' /\ AnswerFacts(s)'
             /\ s \in International => RateFacts(s)'
  <2>1. RequestFacts(s) /\ RequestFacts(r)
    BY RequestKnown
  <2>2. CASE s = r
    BY <2>1, <2>2 DEF Inv, TypeOK, RowFacts, RequestFacts, KeyFacts,
         CallFacts, AnswerFacts, RateFacts, Told, Quoted, Verdicts,
         FxRefusals, FxSteps, Answers
  <2>3. CASE s # r
    BY <2>1, <2>3 DEF Inv, TypeOK, RowFacts, RequestFacts, KeyFacts,
         CallFacts, AnswerFacts, RateFacts, Told, Quoted, Verdicts,
         FxRefusals, FxSteps, Answers
  <2> QED
    BY <2>2, <2>3
<1> QED
  BY <1>1, <1>2, <1>3 DEF Inv, CallInv, AnswerInv, RateInv

LEMMA MarkFailedKeeps ==
  ASSUME Inv, NEW r \in Requests, MarkFailed(r)
  PROVE  Inv'
<1> USE RequestTypes, InitiateAssumption DEF MarkFailed, Goto, Answer, rowVars,
         quoteVars, callVars
<1>1. TypeOK'
  BY DEF Inv, TypeOK, CallInv, CallFacts, Verdicts, FxRefusals, FxSteps,
       Answers
<1>2. KeyInv'
  BY DEF Inv, TypeOK, KeyInv, CallInv, KeyFacts, CallFacts, FxSteps
<1>3. ASSUME NEW s \in Requests
      PROVE  /\ CallFacts(s)' /\ AnswerFacts(s)'
             /\ s \in International => RateFacts(s)'
  <2>1. RequestFacts(s) /\ RequestFacts(r)
    BY RequestKnown
  <2>2. CASE s = r
    BY <2>1, <2>2 DEF Inv, TypeOK, RowFacts, RequestFacts, KeyFacts,
         CallFacts, AnswerFacts, RateFacts, Told, Quoted, Verdicts,
         FxRefusals, FxSteps, Answers
  <2>3. CASE s # r
    BY <2>1, <2>3 DEF Inv, TypeOK, RowFacts, RequestFacts, KeyFacts,
         CallFacts, AnswerFacts, RateFacts, Told, Quoted, Verdicts,
         FxRefusals, FxSteps, Answers
  <2> QED
    BY <2>2, <2>3
<1> QED
  BY <1>1, <1>2, <1>3 DEF Inv, CallInv, AnswerInv, RateInv

LEMMA MarkFailsKeeps ==
  ASSUME Inv, NEW r \in Requests, MarkFails(r)
  PROVE  Inv'
<1> USE RequestTypes, InitiateAssumption DEF MarkFails, Goto, Answer, Fault,
         rowVars, quoteVars, callVars
<1>1. TypeOK'
  BY DEF Inv, TypeOK, CallInv, CallFacts, Verdicts, FxRefusals, FxSteps,
       Answers
<1>2. KeyInv'
  BY DEF Inv, TypeOK, KeyInv, CallInv, KeyFacts, CallFacts, FxSteps
<1>3. ASSUME NEW s \in Requests
      PROVE  /\ CallFacts(s)' /\ AnswerFacts(s)'
             /\ s \in International => RateFacts(s)'
  <2>1. RequestFacts(s) /\ RequestFacts(r)
    BY RequestKnown
  <2>2. CASE s = r
    BY <2>1, <2>2 DEF Inv, TypeOK, RowFacts, RequestFacts, KeyFacts,
         CallFacts, AnswerFacts, RateFacts, Told, Quoted, Verdicts,
         FxRefusals, FxSteps, Answers
  <2>3. CASE s # r
    BY <2>1, <2>3 DEF Inv, TypeOK, RowFacts, RequestFacts, KeyFacts,
         CallFacts, AnswerFacts, RateFacts, Told, Quoted, Verdicts,
         FxRefusals, FxSteps, Answers
  <2> QED
    BY <2>2, <2>3
<1> QED
  BY <1>1, <1>2, <1>3 DEF Inv, CallInv, AnswerInv, RateInv

LEMMA ExecutedKeeps ==
  ASSUME Inv, NEW r \in Requests, Executed(r)
  PROVE  Inv'
<1> USE RequestTypes, InitiateAssumption DEF Executed, Goto, Answer, rowVars,
         quoteVars, callVars
<1>1. TypeOK'
  <2>0. status[key[r]] \in Verdicts
    BY DEF Inv, TypeOK, KeyInv, CallInv, KeyFacts, CallFacts
  <2>1. pc' \in [Requests ->
              FxSteps \cup {"new", "lookup", "execute", "done"}]
    BY DEF Inv, TypeOK, FxSteps
  <2>2. answer' \in [Requests -> Answers \cup {Null}]
    BY <2>0 DEF Inv, TypeOK, Verdicts, FxRefusals, Answers
  <2> QED
    BY <2>1, <2>2 DEF Inv, TypeOK
<1>2. KeyInv'
  BY DEF Inv, TypeOK, KeyInv, CallInv, KeyFacts, CallFacts, FxSteps
<1>3. ASSUME NEW s \in Requests
      PROVE  /\ CallFacts(s)' /\ AnswerFacts(s)'
             /\ s \in International => RateFacts(s)'
  <2>1. RequestFacts(s) /\ RequestFacts(r)
    BY RequestKnown
  <2>2. CASE s = r
    BY <2>1, <2>2 DEF Inv, TypeOK, RowFacts, RequestFacts, KeyFacts,
         CallFacts, AnswerFacts, RateFacts, Told, Quoted, Verdicts,
         FxRefusals, FxSteps, Answers
  <2>3. CASE s # r
    BY <2>1, <2>3 DEF Inv, TypeOK, RowFacts, RequestFacts, KeyFacts,
         CallFacts, AnswerFacts, RateFacts, Told, Quoted, Verdicts,
         FxRefusals, FxSteps, Answers
  <2> QED
    BY <2>2, <2>3
<1> QED
  BY <1>1, <1>2, <1>3 DEF Inv, CallInv, AnswerInv, RateInv

LEMMA CrashKeeps ==
  ASSUME Inv, NEW r \in Requests, Crash(r)
  PROVE  Inv'
<1> USE RequestTypes, InitiateAssumption DEF Crash, Goto, Answer, Fault,
         rowVars, quoteVars, callVars
<1>1. TypeOK'
  <2>1. pc' \in [Requests ->
              FxSteps \cup {"new", "lookup", "execute", "done"}]
    BY DEF Inv, TypeOK, FxSteps
  <2>2. late' \in SUBSET (Quotes \X Keys)
    BY DEF Inv, TypeOK
  <2>3. faults' \in 0 .. MaxFaults
    BY DEF Inv, TypeOK
  <2> QED
    BY <2>1, <2>2, <2>3 DEF Inv, TypeOK
<1>2. KeyInv'
  BY DEF Inv, TypeOK, KeyInv, CallInv, KeyFacts, CallFacts, FxSteps
<1>3. ASSUME NEW s \in Requests
      PROVE  /\ CallFacts(s)' /\ AnswerFacts(s)'
             /\ s \in International => RateFacts(s)'
  <2>1. RequestFacts(s) /\ RequestFacts(r)
    BY RequestKnown
  <2>2. CASE s = r
    BY <2>1, <2>2 DEF Inv, TypeOK, RowFacts, RequestFacts, KeyFacts,
         CallFacts, AnswerFacts, RateFacts, Told, Quoted, Verdicts,
         FxRefusals, FxSteps, Answers
  <2>3. CASE s # r
    BY <2>1, <2>3 DEF Inv, TypeOK, RowFacts, RequestFacts, KeyFacts,
         CallFacts, AnswerFacts, RateFacts, Told, Quoted, Verdicts,
         FxRefusals, FxSteps, Answers
  <2> QED
    BY <2>2, <2>3
<1> QED
  BY <1>1, <1>2, <1>3 DEF Inv, CallInv, AnswerInv, RateInv

LEMMA CreateQuoteKeeps ==
  ASSUME Inv, NEW q \in Quotes, CreateQuote(q)
  PROVE  Inv'
<1> USE RequestTypes, InitiateAssumption DEF CreateQuote, rowVars, quoteVars,
         callVars
<1>1. TypeOK'
  BY DEF Inv, TypeOK, CallInv, CallFacts, Verdicts, FxRefusals, FxSteps,
       Answers
<1>2. KeyInv'
  BY DEF Inv, TypeOK, KeyInv, CallInv, KeyFacts, CallFacts, FxSteps
<1>3. CallInv'
  BY DEF Inv, TypeOK, KeyInv, CallInv, KeyFacts, CallFacts, FxRefusals,
       FxSteps
<1>4. AnswerInv'
  BY DEF Inv, TypeOK, KeyInv, CallInv, AnswerInv, KeyFacts, CallFacts,
       AnswerFacts, Told, Verdicts, FxRefusals, FxSteps
<1>5. RateInv'
  BY DEF Inv, TypeOK, KeyInv, CallInv, RateInv, KeyFacts, CallFacts,
       RateFacts, Quoted, Verdicts, FxRefusals, FxSteps
<1> QED
  BY <1>1, <1>2, <1>3, <1>4, <1>5 DEF Inv

LEMMA ExpireQuoteKeeps ==
  ASSUME Inv, NEW q \in Quotes, ExpireQuote(q)
  PROVE  Inv'
<1> USE RequestTypes, InitiateAssumption DEF ExpireQuote, rowVars, quoteVars,
         callVars
<1>1. TypeOK'
  BY DEF Inv, TypeOK, CallInv, CallFacts, Verdicts, FxRefusals, FxSteps,
       Answers
<1>2. KeyInv'
  BY DEF Inv, TypeOK, KeyInv, CallInv, KeyFacts, CallFacts, FxSteps
<1>3. CallInv'
  BY DEF Inv, TypeOK, KeyInv, CallInv, KeyFacts, CallFacts, FxRefusals,
       FxSteps
<1>4. AnswerInv'
  BY DEF Inv, TypeOK, KeyInv, CallInv, AnswerInv, KeyFacts, CallFacts,
       AnswerFacts, Told, Verdicts, FxRefusals, FxSteps
<1>5. RateInv'
  BY DEF Inv, TypeOK, KeyInv, CallInv, RateInv, KeyFacts, CallFacts,
       RateFacts, Quoted, Verdicts, FxRefusals, FxSteps
<1> QED
  BY <1>1, <1>2, <1>3, <1>4, <1>5 DEF Inv

LEMMA ExpireKeyKeeps ==
  ASSUME Inv, NEW k \in Keys, ExpireKey(k)
  PROVE  Inv'
<1> USE RequestTypes, InitiateAssumption DEF ExpireKey, rowVars, quoteVars,
         callVars
<1>1. TypeOK'
  BY DEF Inv, TypeOK, CallInv, CallFacts, Verdicts, FxRefusals, FxSteps,
       Answers
<1>2. KeyInv'
  BY DEF Inv, TypeOK, KeyInv, CallInv, KeyFacts, CallFacts, FxSteps
<1>3. CallInv'
  BY DEF Inv, TypeOK, KeyInv, CallInv, KeyFacts, CallFacts, FxRefusals,
       FxSteps
<1>4. AnswerInv'
  BY DEF Inv, TypeOK, KeyInv, CallInv, AnswerInv, KeyFacts, CallFacts,
       AnswerFacts, Told, Verdicts, FxRefusals, FxSteps
<1>5. RateInv'
  BY DEF Inv, TypeOK, KeyInv, CallInv, RateInv, KeyFacts, CallFacts,
       RateFacts, Quoted, Verdicts, FxRefusals, FxSteps
<1> QED
  BY <1>1, <1>2, <1>3, <1>4, <1>5 DEF Inv

LEMMA SettleKeeps ==
  ASSUME Inv, NEW k \in Keys, Settle(k)
  PROVE  Inv'
<1> USE RequestTypes, InitiateAssumption DEF Settle, Destination, rowVars,
         quoteVars, callVars
<1>1. TypeOK'
  <2>1. status' \in [Keys -> Verdicts \cup {"FAILED", Null}]
    BY DEF Inv, TypeOK, Verdicts
  <2>2. keyDone' \in [Keys -> BOOLEAN]
    BY DEF Inv, TypeOK
  <2> QED
    BY <2>1, <2>2 DEF Inv, TypeOK
<1>2. KeyInv'
  <2> SUFFICES ASSUME NEW l \in Keys PROVE KeyFacts(l)'
    BY DEF KeyInv
  <2>1. RowFacts(l)
    BY RowKnown
  <2>3. CASE l = k
    BY <2>3, <2>1 DEF Inv, TypeOK, RowFacts, RequestFacts, KeyFacts,
         CallFacts, Verdicts, Answers, FxSteps
  <2>4. CASE l # k
    BY <2>4, <2>1 DEF Inv, TypeOK, RowFacts, RequestFacts, KeyFacts,
         CallFacts, Verdicts, Answers, FxSteps
  <2> QED
    BY <2>3, <2>4
<1>3. CallInv'
  BY DEF Inv, TypeOK, KeyInv, CallInv, KeyFacts, CallFacts, FxRefusals,
       FxSteps
<1>4. AnswerInv'
  BY DEF Inv, TypeOK, KeyInv, CallInv, AnswerInv, KeyFacts, CallFacts,
       AnswerFacts, Told, Verdicts, FxRefusals, FxSteps
<1>5. RateInv'
  BY DEF Inv, TypeOK, KeyInv, CallInv, RateInv, KeyFacts, CallFacts,
       RateFacts, Quoted, Verdicts, FxRefusals, FxSteps
<1> QED
  BY <1>1, <1>2, <1>3, <1>4, <1>5 DEF Inv

LEMMA ServeLateKeeps ==
  ASSUME Inv, NEW m \in late, ServeLate(m)
  PROVE  Inv'
<1> USE RequestTypes, InitiateAssumption DEF ServeLate, Consume, Consumable,
         rowVars, quoteVars, callVars
<1>1. TypeOK'
  BY DEF Inv, TypeOK, CallInv, CallFacts, Verdicts, FxRefusals, FxSteps,
       Answers
<1>2. KeyInv'
  BY DEF Inv, TypeOK, KeyInv, CallInv, KeyFacts, CallFacts, FxSteps
<1>3. CallInv'
  BY DEF Inv, TypeOK, KeyInv, CallInv, KeyFacts, CallFacts, FxRefusals,
       FxSteps
<1>4. AnswerInv'
  BY DEF Inv, TypeOK, KeyInv, CallInv, AnswerInv, KeyFacts, CallFacts,
       AnswerFacts, Told, Verdicts, FxRefusals, FxSteps
<1>5. RateInv'
  BY DEF Inv, TypeOK, KeyInv, CallInv, RateInv, KeyFacts, CallFacts,
       RateFacts, Quoted, Verdicts, FxRefusals, FxSteps
<1> QED
  BY <1>1, <1>2, <1>3, <1>4, <1>5 DEF Inv

LEMMA StepKeeps ==
  ASSUME Inv, [Next]_vars
  PROVE  Inv'
<1>1. CASE UNCHANGED vars
  BY <1>1
     DEF Inv, TypeOK, KeyInv, CallInv, AnswerInv, RateInv, KeyFacts, CallFacts,
         AnswerFacts, RateFacts, vars, rowVars, quoteVars, callVars
<1>2. ASSUME NEW r \in Requests, initiate(r)
      PROVE  Inv'
  BY <1>2, RefuseKeeps, InsertKeeps, ReplayKeeps, ConsumeQuoteKeeps,
     ConvertKeeps, MarkFailedKeeps, ExecutedKeeps DEF initiate
<1>3. ASSUME NEW r \in Requests, Fail(r)
      PROVE  Inv'
  BY <1>3, InsertFailsKeeps, ConsumeFailsKeeps, ConvertFailsKeeps,
     MarkFailsKeeps, CrashKeeps DEF Fail
<1>4. ASSUME NEW q \in Quotes, CreateQuote(q) \/ ExpireQuote(q)
      PROVE  Inv'
  BY <1>4, CreateQuoteKeeps, ExpireQuoteKeeps
<1>5. ASSUME NEW k \in Keys, ExpireKey(k) \/ Settle(k)
      PROVE  Inv'
  BY <1>5, ExpireKeyKeeps, SettleKeeps
<1>6. ASSUME NEW m \in late, ServeLate(m)
      PROVE  Inv'
  BY <1>6, ServeLateKeeps
<1> QED
  BY <1>1, <1>2, <1>3, <1>4, <1>5, <1>6 DEF Next

LEMMA InitKeeps ==
  ASSUME Init
  PROVE  Inv
  BY InitiateAssumption, RequestTypes
     DEF Init, Inv, TypeOK, KeyInv, CallInv, AnswerInv, RateInv, KeyFacts,
         CallFacts, AnswerFacts, RateFacts, Told, Verdicts, FxRefusals, FxSteps,
         Answers

-----------------------------------------------------------------------------
(* The theorems.                                                           *)

\* The invariant, for any requests, keys, quotes and number of faults.
THEOREM InvAlways == Spec => []Inv
<1>1. Init => Inv
  BY InitKeeps
<1>2. Inv /\ [Next]_vars => Inv'
  BY StepKeeps
<1> QED
  BY <1>1, <1>2, PTL DEF Spec

\* Every column and every call stays in its range.
THEOREM InitiateTypeCorrect == Spec => []TypeOK
<1>1. Inv => TypeOK
  BY DEF Inv
<1> QED
  BY <1>1, InvAlways, PTL

\* Nobody is told about the transfer of another request with the same key.
THEOREM AnswersAreOwn == Spec => []NoForeignAnswer
<1>1. Inv => NoForeignAnswer
  BY DEF Inv, AnswerInv, AnswerFacts, Told, NoForeignAnswer
<1> QED
  BY <1>1, InvAlways, PTL

\* A reported verdict or refusal stays true.
THEOREM AnswersStayTrue == Spec => []AnswersAreTrue
<1>1. Inv => AnswersAreTrue
  BY DEF Inv, AnswerInv, AnswerFacts, AnswersAreTrue
<1> QED
  BY <1>1, InvAlways, PTL

\* A quote converts at most one transfer.
THEOREM QuotesAreSpentOnce == Spec => []QuoteSpentOnce
<1>1. Inv => QuoteSpentOnce
  BY DEF Inv, KeyInv, KeyFacts, QuoteSpentOnce
<1> QED
  BY <1>1, InvAlways, PTL

\* While all rates are below ten, every transfer that is not refused is paid
\* what it is worth.
THEOREM QuotesAreHonoured ==
  ASSUME \A p \in DOMAIN rates : rates[p].whole = 1
  PROVE  Spec => []PaidAsQuoted
<1>1. Inv => PaidAsQuoted
  <2> SUFFICES ASSUME Inv, NEW k \in Keys, owner[k] # Null,
                      owner[k] \in International, answer[owner[k]] \in Verdicts
               PROVE  destination[k]
                        = Worth(body[owner[k]].cents,
                                rates[<<body[owner[k]].source,
                                        body[owner[k]].dest>>])
    BY DEF PaidAsQuoted
  <2> DEFINE r == owner[k]
             rate == rates[<<body[r].source, body[r].dest>>]
  <2>1. r \in Requests /\ key[r] = k /\ RateFacts(r)
    BY RowKnown, RequestKnown DEF RowFacts, RequestFacts
  <2>2. <<body[r].source, body[r].dest>> \in DOMAIN rates
        /\ destination[k] = cents(body[r].cents, rate)
    BY <2>1 DEF RateFacts, Quoted
  <2>3. rate \in Numerals /\ rate.whole = 1
    BY <2>2, InitiateAssumption
  <2>4. body[r].cents \in Nat
    BY <2>1, RequestTypes
  <2> HIDE DEF rate
  <2>5. cents(body[r].cents, rate) = Worth(body[r].cents, rate)
    BY <2>3, <2>4, CentsExact
  <2> QED
    BY <2>2, <2>5 DEF rate
<1> QED
  BY <1>1, InvAlways, PTL
=============================================================================
