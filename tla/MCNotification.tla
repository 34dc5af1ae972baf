---------------------------- MODULE MCNotification ----------------------------
(* Values for the constants of Notification. *)
EXTENDS Notification
CONSTANTS cancellation

MCSubjectOf ==
    [e \in Events |-> IF e = cancellation THEN "booking.cancelled" ELSE "user.registered"]
=============================================================================
