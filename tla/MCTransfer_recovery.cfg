SPECIFICATION Spec
CONSTANTS
  t1 = t1
  t2 = t2
  r1 = r1
  r2 = r2
  alice = alice
  bob = bob
  carol = carol
  NoOne = NoOne
  Orphan = Orphan
  Wallets = {alice, bob, carol}
  Active = {alice, bob, carol}
  Txs = {t1, t2}
  International = {t1}
  Mismatched = {}
  Recoverers = {r1, r2}
  sender <- Senders
  recipient <- Recipients
  amount <- Amounts
  quoted <- Quotes
  initial <- Opening
  Faults = {"crash", "lost"}
  LateKinds = {"debit", "batch", "credit"}
  MaxFaults = 2
  ScanLimit = 2
INVARIANTS
  TypeOK
  NoMoneyCreated
  OneExecutor
  VerdictIsTruth
  LedgerAgrees
  QuoteHonoured
  BooksMatchHistory
PROPERTIES
  FirstWriterWins
  ImplementsEscrow
