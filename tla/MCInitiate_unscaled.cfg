SPECIFICATION Spec
CONSTANTS
  r1 = r1
  r2 = r2
  r3 = r3
  r4 = r4
  r5 = r5
  k1 = k1
  k2 = k2
  q1 = q1
  usd = usd
  eur = eur
  bdt = bdt
  Null = Null
  Requests = {r1}
  International = {r1}
  Keys = {k1}
  Quotes = {q1}
  Currencies = {usd, eur, bdt}
  key <- KeyOf
  body <- BodyOfBdt
  rates <- AllRates
  MaxFaults = 0
INVARIANTS
  PaidAsQuoted
CHECK_DEADLOCK FALSE
