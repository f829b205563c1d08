SPECIFICATION FairSpec
CONSTANTS
  BroadcastCap = 1
  MaxPending = 4
  Quota = 1
  Kinds = {"text", "file", "folder", "refused", "bulky", "tooBig"}
  MaxItems = 2
  MaxConns = 2
  WireCap = 1
  MaxEvents = 3
  MaxFaults = 2
INVARIANTS TypeOK Verbatim OnePending AppliedStaysOnDisk CacheAccounted
PROPERTIES NewestStay PromiseSpec PendingResolved EveryCopyArrives
