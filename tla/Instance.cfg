SPECIFICATION FairSpec
CONSTANTS
  Processes = {p1}
  Stoppers = {k1}
  Pollers = {q1}
  MaxPolls = 2
INVARIANTS OneDaemon NoStaleStop
PROPERTIES StopGoneMeansGone StopEnds StopReturns
