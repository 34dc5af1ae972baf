SPECIFICATION FairUsersSpec
CONSTANTS
  Requests = {r1, r2}
  Watchers = {w1}
  Watched = {u1}
  Users = {u1, u2}
  Registered = {u1}
  e1 = e1
  Emails = {e1}
  EmailOf <- MCEmailOf
  Names = {n1, n2}
  GivenNames = {n1}
  NoUser = NoUser
  NoProfile = NoProfile
  MaxWrites = 3
  MaxFaults = 1
INVARIANTS UsersTypeOK UniqueActiveEmail CacheFresh
PROPERTIES WatcherLearnsBan
CHECK_DEADLOCK FALSE
