---------------------------- MODULE SpotCalendar ----------------------------
(***************************************************************************)
(* What booking-service promises its users whatever interleaving its       *)
(* handlers run in: a calendar of claims on spots in which no instant of a *)
(* spot is ever claimed twice.  A claim is entered only while it overlaps  *)
(* none of the others; it may be withdrawn at any time.                    *)
(***************************************************************************)
EXTENDS Integers

CONSTANTS Bookings, Spots, Slots

VARIABLE claims

Claim == [booking : Bookings, spot : Spots, slot : Slots]

\* The instants of a slot <<start, end>>, the end excluded.
Instants(slot) == slot[1] .. (slot[2] - 1)

Clash(c, d) == c.spot = d.spot /\ Instants(c.slot) \cap Instants(d.slot) # {}

CalendarInit == claims = {}

Enter(c) ==
    /\ \A d \in claims : d.booking # c.booking /\ ~Clash(c, d)
    /\ claims' = claims \union {c}

Withdraw(c) == c \in claims /\ claims' = claims \ {c}

CalendarNext == \E c \in Claim : Enter(c) \/ Withdraw(c)

CalendarSpec == CalendarInit /\ [][CalendarNext]_claims
=============================================================================
