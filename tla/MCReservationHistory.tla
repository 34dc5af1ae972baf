------------------------- MODULE MCReservationHistory -------------------------
(***************************************************************************)
(* Model values for the runs of ReservationHistory.                        *)
(***************************************************************************)
EXTENDS ReservationHistory, TLC

MCSlots == {<<0, 1>>}

Symmetry == Permutations(Requests)
=============================================================================
