SPECIFICATION FairNotificationSpec
CONSTANTS
  cancellation = cancellation
  Events = {cancellation}
  SubjectOf <- MCSubjectOf
  Workers = {w1, w2}
  Callers = {q1}
  SendTypes = {"push"}
  Clients = {c1}
  Rows = {n1, n2}
  NoEvent = NoEvent
  NoRow = NoRow
  QueueCap = 1
  StreamCap = 1
  PageSize = 1
  MaxCopies = 2
  MaxFaults = 1
INVARIANTS NotificationTypeOK MailedOnce StreamComplete ShutdownDrains
PROPERTIES QueuedIsMailed WorkersStop
CHECK_DEADLOCK FALSE
