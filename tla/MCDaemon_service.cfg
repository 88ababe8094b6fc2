SPECIFICATION FairDaemon
CONSTANTS
  a1 = a1
  a2 = a2
  b1 = b1
  a = a
  b = b
  w1 = w1
  w2 = w2
  NoName = NoName
  Items = {a1, a2}
  Names = {a}
  NameOf <- MCOneNameOf
  SizeOf <- MCOneSizeOf
  Workers = {w1, w2}
  MaxRetries = 2
  MaxCrashes = 1
  ArrivalsDuringScan = TRUE
  Withdrawals = {a2}
  Copies = {a2}
  Requests = {}
  HandlerFaults = TRUE
  SaveDue = TRUE
  Main = Main
  JobNames = {a, b}
  NoThread = NoThread
  Triggers = {"minute", "stop", "signal"}
  MaxStarts = 2
INVARIANTS Accounting
PROPERTIES CallsReturn LeftoversHandled
CHECK_DEADLOCK FALSE
