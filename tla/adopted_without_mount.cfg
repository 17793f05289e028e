SPECIFICATION PlacementSpec
CONSTANTS
  Names = {n1}
  Requests = {r1}
  First = 1
  Games = {3}
  Udps = {2}
  Foreign = {}
  Mounts = {"inside"}
  Faults = {}
INVARIANT DataPreserved
CHECK_DEADLOCK FALSE
