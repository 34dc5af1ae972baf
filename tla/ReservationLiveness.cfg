SPECIFICATION FairSpec
CONSTANTS
  Requests = {r1, r2}
  Spots = {s1}
  NoSpot = NoSpot
  OperatorStatuses = {}
  Bookings = {b1, b2}
  NoBooking = NoBooking
  Slots <- MCSlots
  UserOps = {"cancel"}
  MaxTime = 0
  MaxFaults = 1
PROPERTIES ReservationSettles
