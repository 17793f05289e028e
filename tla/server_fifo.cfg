SPECIFICATION Spec
CONSTANTS
  Servers = {s1, s2}
  Names = {n1}
  Requests = {r1, r2}
  MaxRequests = 4
  Overlap = {"sync"}
  Faults = {"pull", "docker", "remove", "exit", "late", "outage", "restart"}
PROPERTY PurgeScoped
SYMMETRY RequestSymmetry
CHECK_DEADLOCK FALSE
