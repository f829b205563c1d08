SPECIFICATION Spec
CONSTANTS
  BroadcastCap = 2
  MaxPending = 4
  Quota = 1
  Kinds = {"files"}
  MaxItems = 1
  MaxConns = 1
  WireCap = 1
  MaxEvents = 2
  MaxFaults = 1
INVARIANTS NoLeftover
