SPECIFICATION Spec
CONSTANTS
  Peers = {p1}
  Callers = {c1, c2}
  Torn = Torn
  MaxIds = 2
  MaxCrashes = 0
INVARIANTS IdentityKept
