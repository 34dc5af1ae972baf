---------------------------- MODULE MCReservation ----------------------------
(***************************************************************************)
(* Model values for the runs of Reservation.                               *)
(***************************************************************************)
EXTENDS ReservationProperties, TLC

\* Two slots that overlap, of which one starts at once and one later.
MCSlots == {<<0, 2>>, <<1, 2>>}

Symmetry == Permutations(Requests) \union Permutations(Bookings) \union Permutations(Spots)
=============================================================================
