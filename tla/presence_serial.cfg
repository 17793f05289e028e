SPECIFICATION Spec
CONSTANTS
  MaxConns = 3
  MaxFaults = 0
  Overlap = FALSE
  MailConfigured = TRUE
INVARIANT ReconnectIsComplete
INVARIANT TokenHonoured
PROPERTY LedgerSpec
CHECK_DEADLOCK FALSE
