SPECIFICATION Spec
CONSTANTS
  MaxConns = 2
  MaxFaults = 1
  Overlap = TRUE
  MailConfigured = TRUE
INVARIANT TypeOK
INVARIANT MailsBounded
INVARIANT SurvivesHibernation
CHECK_DEADLOCK FALSE
