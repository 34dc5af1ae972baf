SPECIFICATION LotsSpec
CONSTANTS
  Requests = {r1, r2, r3}
  Lots = {l1}
  TotalSpots <- MCTotalSpots
  Prices = {p1, p2}
  NoLot = NoLot
  NoPrice = NoPrice
  MaxWrites = 4
  MaxFaults = 1
INVARIANTS LotsTypeOK LimitKept OvershootBounded NoOrphans LotsFresh OnePrice
SYMMETRY MCSymmetry
CHECK_DEADLOCK FALSE
