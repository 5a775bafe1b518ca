-------------------------- MODULE BookingLifecycle --------------------------
(***************************************************************************)
(* The lifecycle a booking is meant to have once it is held: open until it *)
(* is paid or its deadline has passed, and an admin's decision on a paid   *)
(* booking is final.                                                       *)
(***************************************************************************)
EXTENDS Integers

CONSTANTS Booking, Deadline

VARIABLES state, clock

Unpaid == {"HELD", "PAYMENT_PENDING"}

Move(b, from, to) ==
    /\ state[b] \in from
    /\ state' = [state EXCEPT ![b] = to]
    /\ UNCHANGED clock

Init == state = [b \in Booking |-> "HELD"] /\ clock = 0

Elapse       == clock' = clock + 1 /\ UNCHANGED state
AskForQr(b)  == Move(b, {"HELD"}, "PAYMENT_PENDING")
QrRunsOut(b) == Move(b, {"PAYMENT_PENDING"}, "HELD")
Pay(b)       == Move(b, Unpaid, "PAID")
Expire(b)    == Deadline[b] < clock /\ Move(b, Unpaid, "EXPIRED")
Decide(b)    == \E to \in {"TICKETED", "ISSUE_FAILED"} : Move(b, {"PAID"}, to)

Next ==
    \/ Elapse
    \/ \E b \in Booking :
         AskForQr(b) \/ QrRunsOut(b) \/ Pay(b) \/ Expire(b) \/ Decide(b)

Spec == Init /\ [][Next]_<<state, clock>>
=============================================================================
