SPECIFICATION FairSpec
CONSTANTS
  t1 = t1
  t2 = t2
  r1 = r1
  r2 = r2
  alice = alice
  bob = bob
  carol = carol
  NoOne = NoOne
  Orphan = Orphan
  Wallets = {alice, bob, carol}
  Active = {alice, bob}
  Txs = {t1, t2}
  International = {}
  Mismatched = {}
  Recoverers = {r1}
  sender <- Senders
  recipient <- Recipients
  amount <- Amounts
  quoted <- Quotes
  initial <- Funded
  Faults = {"crash"}
  LateKinds = {}
  MaxFaults = 1
  ScanLimit = 2
PROPERTIES
  LeftoversSettle
