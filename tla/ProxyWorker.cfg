CONSTANTS
  w1 = w1
  w2 = w2
  p1 = p1
  p2 = p2
  Workers = {w1, w2}
  Proxies = {p1, p2}
  NoOne = NoOne
  MaxRetries = 1
  MaxFaults = 2
SPECIFICATION FairSpec
INVARIANT NoOrphans
PROPERTIES Exclusive DeliveryEnds ShutdownEnds
