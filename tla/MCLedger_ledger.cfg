SPECIFICATION FairSpec
CONSTANTS
  t1 = t1
  t2 = t2
  c1 = c1
  c2 = c2
  a1 = a1
  alice = alice
  bob = bob
  clearing = clearing
  usd = usd
  bdt = bdt
  Txs = {t1, t2}
  Accounts = {alice, bob, clearing}
  Currencies = {usd, bdt}
  MaxCents = 2
  Clients = {c1, c2}
  Auditors = {a1}
  Lists <- Postings
  BatchSize = 3
  MaxId = 8
INVARIANTS
  InvariantCheckOk
  LinksBack
  SerialAuditPasses
  NoRowSkipped
PROPERTIES
  ImplementsStore
  Answered
