SPECIFICATION AuthSpec
CONSTANTS
  Requests = {r1, r2}
  Users = {u1, u2}
  Emails = {e1}
  VerifyLinks = {v1, v2}
  ResetLinks = {x1}
  Sessions = {s1, s2, s3}
  Passwords = {p1, p2}
  Strong = {p1}
  Trimmed <- MCTrimmed
  NoUser = NoUser
  NoEmail = NoEmail
  NoPassword = NoPassword
  NoLink = NoLink
  NoSession = NoSession
  p1 = p1
  p2 = p2
  MaxFaults = 1
INVARIANTS AuthTypeOK WelcomedOnce WelcomeLinkWorks SpentForGood OneLivePerLogin
SYMMETRY MCSymmetry
CHECK_DEADLOCK FALSE
