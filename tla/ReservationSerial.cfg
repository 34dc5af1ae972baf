SPECIFICATION FairSpec
CONSTANTS
  Requests = {r1}
  Spots = {s1, s2}
  NoSpot = NoSpot
  OperatorStatuses = {}
  Bookings = {b1, b2}
  NoBooking = NoBooking
  Slots <- MCSlots
  UserOps = {"get", "confirm", "cancel", "start", "complete"}
  MaxTime = 1
  MaxFaults = 0
INVARIANTS SpotTellsBooking CacheCoherent
PROPERTIES DeskSpec DecisionAnnounced
