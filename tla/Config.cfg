SPECIFICATION FairSpec
CONSTANTS
  Peers = {p1}
  Callers = {c1, c2}
  Torn = Torn
  MaxIds = 2
  MaxCrashes = 1
INVARIANTS DaemonKeepsPeers Recoverable UnpairedStays
PROPERTIES DaemonFollows
