SPECIFICATION HistorySpec
CONSTANTS
  Requests = {r1, r2}
  Spots = {s1}
  NoSpot = NoSpot
  OperatorStatuses = {"MAINTENANCE", "RESERVED", "deleted"}
  Bookings = {b1}
  NoBooking = NoBooking
  Slots <- MCSlots
  UserOps = {"get", "confirm", "cancel", "start", "complete"}
  MaxTime = 0
  MaxFaults = 1
SYMMETRY Symmetry
INVARIANTS HistoryTypeOK NoStageSkipped ReservedHasHolder AnnouncedHappened
CHECK_DEADLOCK FALSE
PROPERTIES StagesSpec
