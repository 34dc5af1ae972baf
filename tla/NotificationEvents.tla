-------------------------- MODULE NotificationEvents --------------------------
(***************************************************************************)
(* The events that the services publish and the structs into which         *)
(* notification-service decodes them.  A field is its JSON name with the   *)
(* JSON form it takes; "time" is a string in RFC 3339.                     *)
(***************************************************************************)

Subjects == {"user.registered", "payment.success",
             "booking.confirmed", "booking.cancelled", "auth.password_reset"}

Party == {<<"event_id", "string">>, <<"user_id", "string">>, <<"user_email", "string">>}

-----------------------------------------------------------------------------
(* What the publishers marshal.  Nobody publishes auth.password_reset.     *)

RegisteredSent ==
    Party \union {<<"first_name", "string">>, <<"last_name", "string">>, <<"phone", "string">>,
                  <<"verification_token", "string">>, <<"occurred_at", "time">>}

PaymentSent ==
    Party \union {<<"booking_id", "string">>, <<"amount", "number">>,
                  <<"currency", "string">>, <<"created_at", "time">>}

ConfirmedSent ==
    Party \union {<<"booking_id", "string">>, <<"spot_id", "number">>, <<"starts_at", "time">>,
                  <<"ends_at", "time">>, <<"occurred_at", "time">>}

CancelledSent ==
    Party \union {<<"booking_id", "string">>, <<"reason", "string">>, <<"occurred_at", "time">>}

Sent ==
    [s \in Subjects \ {"auth.password_reset"} |->
        CASE s = "user.registered"   -> RegisteredSent
          [] s = "payment.success"   -> PaymentSent
          [] s = "booking.confirmed" -> ConfirmedSent
          [] s = "booking.cancelled" -> CancelledSent]

-----------------------------------------------------------------------------
(* What the handlers decode into.                                          *)

RegisteredRead ==
    Party \union {<<"first_name", "string">>, <<"last_name", "string">>,
                  <<"verification_token", "string">>, <<"occurred_at", "time">>}

PaymentRead ==
    Party \union {<<"booking_id", "string">>, <<"amount", "number">>,
                  <<"currency", "string">>, <<"occurred_at", "time">>}

ConfirmedRead ==
    Party \union {<<"booking_id", "string">>, <<"spot_id", "string">>, <<"starts_at", "time">>,
                  <<"ends_at", "time">>, <<"occurred_at", "time">>}

CancelledRead ==
    Party \union {<<"booking_id", "string">>, <<"reason", "string">>, <<"occurred_at", "time">>}

Read ==
    [s \in Subjects \ {"auth.password_reset"} |->
        CASE s = "user.registered"   -> RegisteredRead
          [] s = "payment.success"   -> PaymentRead
          [] s = "booking.confirmed" -> ConfirmedRead
          [] s = "booking.cancelled" -> CancelledRead]

-----------------------------------------------------------------------------
\* The decoder refuses a field that the struct does not have, and a value of
\* another form; a field that is missing keeps its zero value.
Understood(s) == Sent[s] \subseteq Read[s]
=============================================================================
