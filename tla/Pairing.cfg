SPECIFICATION FairPairing
CONSTANTS
  Autos = {a1}
  Manuals = {m1, m2}
  NoOne = NoOne
  MaxRequests = 4
  Codes = {k1, k2}
  NoCode = NoCode
  MaxConns = 2
  MaxFaults = 1
INVARIANTS UserFirst RequestEnds SameKey BothOrNeither PortFree
PROPERTIES UserServed PairingEnds
