SPECIFICATION MCSpec
CONSTANTS
  Users = {u1, u2, u3}
  Emails = {e1, e2}
  DefaultEmail = e1
  Tokens = {t1, t2}
  Invitations = {i1}
  Requests = {r1, r2}
  MaxPassword = 1
  MaxLink = 2
  Apart = {{"accept", "cancel"}, {"accept", "resend"}, {"accept", "deleteUser"}}
  Agents = {a1}
  Servers = {s1}
  Assignments = {x1, x2}
  Changes = {c1, c2}
  SlowChoices = FALSE
  MaxMutations = 2
SYMMETRY Symmetry
INVARIANTS AccessTypeOK SessionsOwned ResetHolds VisibleIsViewable RecipientsHaveRole RowsDistinct PagesCurrent
PROPERTY AcceptsGoodLinks
CHECK_DEADLOCK FALSE
