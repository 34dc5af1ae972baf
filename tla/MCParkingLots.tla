---------------------------- MODULE MCParkingLots ----------------------------
(* Values for the constants of ParkingLots. *)
EXTENDS ParkingLots, TLC

MCTotalSpots == [l \in Lots |-> 1]

MCSymmetry == Permutations(Requests) \union Permutations(Lots) \union Permutations(Prices)
=============================================================================
