SPECIFICATION WatcherSpec
CONSTANTS
  a1 = a1
  a2 = a2
  b1 = b1
  a = a
  b = b
  w1 = w1
  w2 = w2
  NoName = NoName
  Items = {a1, a2, b1}
  Names = {a, b}
  NameOf <- MCNameOf
  SizeOf <- MCSizeOf
  Workers = {w1, w2}
  MaxRetries = 2
  MaxCrashes = 1
  ArrivalsDuringScan = FALSE
  Withdrawals = {}
  Copies = {a2}
  Requests = {"pause", "drain", "stop", "sigterm"}
  HandlerFaults = TRUE
  SaveDue = TRUE
  Main = Main
  JobNames = {a, b}
  NoThread = NoThread
  Triggers = {}
  MaxStarts = 0
SYMMETRY WorkerSymmetry
INVARIANTS OneWorkerPerFile OutcomeRecorded NoGhostJobs
PROPERTIES NoRepeatConversion
CHECK_DEADLOCK FALSE
