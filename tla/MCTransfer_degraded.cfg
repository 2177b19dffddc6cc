SPECIFICATION FairSpec
CONSTANTS
  t1 = t1
  t2 = t2
  r1 = r1
  r2 = r2
  alice = alice
  bob = bob
  carol = carol
  NoOne = NoOne
  Orphan = Orphan
  Wallets = {alice, bob, carol}
  Active = {alice, bob, carol}
  Txs = {t1, t2}
  International = {t2}
  Mismatched = {}
  Recoverers = {r1}
  sender <- Senders
  recipient <- Recipients
  amount <- Amounts
  quoted <- Dust
  initial <- Opening
  Faults = {"crash", "lost", "outage", "lapse", "stall"}
  LateKinds = {"debit", "batch", "reversal", "credit"}
  MaxFaults = 1
  ScanLimit = 1
INVARIANTS
  Backed
PROPERTIES
  NoDanglingDebit
  Settles
