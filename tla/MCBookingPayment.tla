-------------------------- MODULE MCBookingPayment --------------------------
(* Instances of BookingPayment for TLC.                                    *)
EXTENDS BookingPayment, TLC

CONSTANTS b1, b2, i1, i2, i3, t1, t2, s1, s2

\* One booking with two order codes to give out.
OneBooking  == [i \in Intent |-> b1]
DeadlineTwo == [b \in Booking |-> 2]

\* Two bookings; the second one has the later deadline.
TwoBookings == [i \in Intent |-> IF i = i3 THEN b2 ELSE b1]
Deadlines   == [b \in Booking |-> IF b = b1 THEN 2 ELSE 3]

AroundPrice == 1..3

Symmetric == Permutations(Session) \union Permutations(Transfer)
=============================================================================
