SPECIFICATION FairPaymentSpec
CONSTANTS
  Requests = {r1, r2}
  Bookings = {b1}
  Payments = {p1, p2, p3}
  NoBooking = NoBooking
  NoPayment = NoPayment
  UserMoves = {"confirmed", "cancelled"}
  MaxFaults = 2
INVARIANTS PaymentTypeOK PaidOnce ReceiptFollows
PROPERTIES PaidStaysPaid PaidAnnounced
