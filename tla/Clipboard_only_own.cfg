SPECIFICATION Spec
CONSTANTS
  Sessions = {s1}
  Watcher = Watcher
  NoOne = NoOne
  FormatCount = 1
  MaxAttempts = 1
  QueueCap = 1
  Kinds = {"item"}
  MaxWrites = 3
  MaxApplies = 1
  MaxUnreadable = 0
  MaxRestarts = 0
INVARIANTS SuppressesOnlyOwnWrites
