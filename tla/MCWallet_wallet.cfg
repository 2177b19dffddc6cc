SPECIFICATION Spec
CONSTANTS
  w1 = w1
  w2 = w2
  k1 = k1
  k2 = k2
  k3 = k3
  c1 = c1
  c2 = c2
  c3 = c3
  Wallets = {w1, w2}
  Keys = {k1, k2, k3}
  opening <- Funds
  Active = {w1, w2}
  Requests <- Operations
  Clients = {c1, c2, c3}
INVARIANTS
  TypeOK
  BalanceIsHistory
  AnsweredIsRecorded
  ReplayIsAccepted
PROPERTIES
  ImplementsStore
