SPECIFICATION Spec
CONSTANTS
  MaxConns = 2
  MaxFaults = 0
  Overlap = TRUE
  MailConfigured = TRUE
INVARIANT ReconnectIsComplete
CHECK_DEADLOCK FALSE
