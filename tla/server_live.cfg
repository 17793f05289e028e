SPECIFICATION FairSpec
CONSTANTS
  Servers = {s1}
  Names = {n1}
  Requests = {r1, r2}
  MaxRequests = 4
  Overlap = {"user"}
  Faults = {"pull", "docker", "late"}
PROPERTY TransitEnds
CHECK_DEADLOCK FALSE
