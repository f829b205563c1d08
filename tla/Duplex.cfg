SPECIFICATION FairSpec
CONSTANTS
  ReplyCap = 1
  IoTimeout = 2
  ReceiveTimeout = 6
  MaxData = 1
  MaxFaults = 1
INVARIANTS InStep HealthyStays
PROPERTIES NoGridlock BothEnd
