SPECIFICATION FairSpec
CONSTANTS
  Sessions = {s1, s2}
  Watcher = Watcher
  NoOne = NoOne
  FormatCount = 2
  MaxAttempts = 2
  QueueCap = 1
  Kinds = {"item", "empty", "huge"}
  MaxWrites = 3
  MaxApplies = 2
  MaxUnreadable = 1
  MaxRestarts = 1
INVARIANTS NoEcho SuppressesOwnWrites CaptureIsOneGeneration CaptureOrder
PROPERTIES LocalCopySynced
