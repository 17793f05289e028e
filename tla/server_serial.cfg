SPECIFICATION Spec
CONSTANTS
  Servers = {s1, s2}
  Names = {n1}
  Requests = {r1}
  MaxRequests = 13
  Overlap = {}
  Faults = {"docker"}
INVARIANT TypeOK
INVARIANT Controllable
PROPERTY SyncTellsTruth
PROPERTY CatalogSpec
CHECK_DEADLOCK FALSE
