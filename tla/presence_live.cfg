SPECIFICATION FairSpec
CONSTANTS
  MaxConns = 2
  MaxFaults = 1
  Overlap = FALSE
  MailConfigured = TRUE
PROPERTY StatusConverges
PROPERTY OutageIsAnswered
CHECK_DEADLOCK FALSE
