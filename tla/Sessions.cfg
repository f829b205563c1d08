SPECIFICATION FairSpec
CONSTANTS
  MaxInbound = 2
  Slots = {s1, s2, s3}
  MaxKeys = 2
  MaxUnpairs = 1
  MaxFaults = 2
INVARIANTS SessionAuthorized SameKey OneConnection
PROPERTIES UnpairCuts PairedConnect
