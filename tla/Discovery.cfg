CONSTANTS
  a = a
  b = b
  e = e
  f = f
  d1 = d1
  d2 = d2
  c1 = c1
  c2 = c2
  p1 = p1
  p2 = p2
  p3 = p3
  Tuples = {a, b, e, f}
  Providers <- Sources
  Kind <- KindsOf
  Units <- Lists
  PageLimit = 2
  Reported <- Reports
  Known = {a}
  Commands = {d1, d2}
  Consumers = {c1, c2}
  Limit = 3
  Proxies = {p1, p2, p3}
  MaxAttempts = 3
  MaxFaults = 1
SPECIFICATION FairSpec
INVARIANTS TypeOK PublishedIsDurable Covered
PROPERTIES EvidenceKept CommandEnds
CHECK_DEADLOCK FALSE
