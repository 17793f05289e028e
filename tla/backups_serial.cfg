SPECIFICATION Spec
CONSTANTS
  MaxRequests = 4
  Keep = 1
  Overlap = "none"
  Faults = {"pack", "extract", "torn", "short", "meta", "move", "late", "lost", "crash", "throw", "docker"}
INVARIANT TypeOK
INVARIANT WorldsKept
INVARIANT SyncMirrors
PROPERTY BackupsFaithful
CHECK_DEADLOCK FALSE
