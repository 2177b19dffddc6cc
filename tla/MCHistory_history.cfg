SPECIFICATION Spec
CONSTANTS
  alice = alice
  bob = bob
  carol = carol
  Null = Null
  Ids = {1, 2, 3, 4}
  Parties <- Payments
  Wallets = {alice, bob, carol}
  MaxLimit = 2
  PerMs = 2
  MaxClock = 3
  Skew = 2
INVARIANTS
  PagesInOrder
  NothingSkipped
CHECK_DEADLOCK FALSE
