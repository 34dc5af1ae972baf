SPECIFICATION Spec
CONSTANTS
  Requests = {r1}
  Spots = {s1}
  NoSpot = NoSpot
  OperatorStatuses = {}
  Bookings = {b1}
  NoBooking = NoBooking
  Slots <- MCSlots
  UserOps = {"confirm", "cancel", "start", "complete"}
  MaxTime = 0
  MaxFaults = 0
INVARIANT SpotFreedAfterwards
CHECK_DEADLOCK FALSE
