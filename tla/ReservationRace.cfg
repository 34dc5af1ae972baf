SPECIFICATION Spec
CONSTANTS
  Requests = {r1, r2}
  Spots = {s1}
  NoSpot = NoSpot
  OperatorStatuses = {}
  Bookings = {b1, b2}
  NoBooking = NoBooking
  Slots <- MCSlots
  UserOps = {"confirm", "cancel", "start", "complete"}
  MaxTime = 0
  MaxFaults = 0
SYMMETRY Symmetry
INVARIANTS TypeOK NoDoubleBooking ReservedHasHolder
PROPERTIES CalendarSpec
