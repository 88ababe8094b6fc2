SPECIFICATION FairSpec
CONSTANTS
  a1 = a1
  a2 = a2
  b1 = b1
  a = a
  b = b
  w1 = w1
  w2 = w2
  NoName = NoName
  Items = {a1, a2}
  Names = {a}
  NameOf <- MCOneNameOf
  SizeOf <- MCOneSizeOf
  Workers = {w1, w2}
  MaxRetries = 2
  MaxCrashes = 0
  ArrivalsDuringScan = FALSE
  Withdrawals = {}
  Copies = {}
  Requests = {}
  HandlerFaults = FALSE
  SaveDue = FALSE
PROPERTY RetryHappens
CHECK_DEADLOCK FALSE
