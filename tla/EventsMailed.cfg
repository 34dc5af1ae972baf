SPECIFICATION FairNotificationSpec
CONSTANTS
  cancellation = cancellation
  Events = {registration}
  SubjectOf <- MCSubjectOf
  Workers = {w1}
  Callers = {}
  SendTypes = {"push"}
  Clients = {}
  Rows = {n1}
  NoEvent = NoEvent
  NoRow = NoRow
  QueueCap = 1
  StreamCap = 1
  PageSize = 1
  MaxCopies = 1
  MaxFaults = 0
PROPERTIES EventsMailed
CHECK_DEADLOCK FALSE
