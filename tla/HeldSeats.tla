----------------------------- MODULE HeldSeats -----------------------------
(***************************************************************************)
(* What the API makes of the reservations a hold got from the gateway: the *)
(* price it adds up from ticket-info-by-id or from the list of bookings    *)
(* (integrations/muadi/real-muadi.provider.ts), and the time the customer  *)
(* is given to pay (booking/booking.service.ts).                           *)
(*                                                                         *)
(* A row is [pnr, total, limit]: a reservation code, its price and the     *)
(* moment the airline drops it, in minutes from now; Null is a field the   *)
(* answer lacks, BadTime a limit no parser accepts.                        *)
(***************************************************************************)
EXTENDS FareOffer

CONSTANTS PaymentBuffer,    \* PAYMENT_BUFFER_MINUTES
          MinWindow,        \* MIN_PAYMENT_WINDOW_MINUTES
          FallbackHold,     \* MUADI_HOLD_FALLBACK_HOURS, in minutes
          BeforeDeparture   \* three hours before departure, in minutes

\* An amount that is no number, or not positive, is none.
ReadMoney(x) == IF x = Null \/ x <= 0 THEN Null ELSE x

\* Its reservation codes, of which none is missing.
PnrCodes(rows) == [i \in DOMAIN rows |-> rows[i].pnr]

HasPrice(row) == row.pnr # Null /\ ReadMoney(row.total) # Null

Sum(rows) == LET upTo[i \in 0..Len(rows)] == IF i = 0 THEN 0 ELSE upTo[i - 1] + rows[i].total
             IN  upTo[Len(rows)]

Pricing(rows) == [total |-> Sum(rows), byPnr |-> rows]

FaultSomePriced(rows) ==
    LET priced == SelectSeq(rows, HasPrice) IN IF priced = <<>> THEN Null ELSE Pricing(priced)
\* The price is known when every row of the answer has its code and its price.
PricingFromTicketInfo(rows) ==
    IF rows # <<>> /\ \A i \in DOMAIN rows : HasPrice(rows[i]) THEN Pricing(rows) ELSE Null

\* The agent's whole list of bookings: the price is known when each of the codes, which
\* are in order and distinct, has one; of two rows of a code the later counts.
PricingFromListBooking(rows, codes) ==
    LET of(c) == {i \in DOMAIN rows : rows[i].pnr = c /\ HasPrice(rows[i])}
        last(c) == rows[CHOOSE i \in of(c) : \A j \in of(c) : j <= i]
    IN  IF \E i \in DOMAIN codes : of(codes[i]) = {} THEN Null
        ELSE Pricing([i \in DOMAIN codes |-> last(codes[i])])

\* The reservations of the booking: those of the last ticket info, each with the price
\* and the limit that were found for its code, else with its own.
ExtractPnrs(rows, pricing) ==
    LET priced(c) == {i \in DOMAIN pricing.byPnr : pricing.byPnr[i].pnr = c}
        found(r) == IF priced(r.pnr) = {} THEN [total |-> Null, limit |-> Null]
                    ELSE pricing.byPnr[SmallestOf(priced(r.pnr))]
    IN  [i \in DOMAIN rows |->
            [pnr |-> rows[i].pnr,
             total |-> FirstOf(<<found(rows[i]).total, ReadMoney(rows[i].total)>>),
             limit |-> FirstOf(<<found(rows[i]).limit, rows[i].limit>>)]]

-----------------------------------------------------------------------------
ParseTimelimit(limit) == IF limit = BadTime THEN Null ELSE limit

Limits(pnrs) == {ParseTimelimit(pnrs[i].limit) : i \in DOMAIN pnrs} \ {Null}

\* Without a limit the hold is taken to last some hours, and to end before the departure.
HoldExpiresAt(pnrs, depart) ==
    IF Limits(pnrs) # {} THEN SmallestOf(Limits(pnrs))
    ELSE SmallestOf({FallbackHold, depart - BeforeDeparture})

PaymentDeadline(pnrs, depart) == HoldExpiresAt(pnrs, depart) - PaymentBuffer

\* Too little time to pay: the hold is refused, although its seats are taken.
WindowTooShort(deadline) == deadline <= MinWindow

\* The rows of the booking: a reservation whose limit cannot be read gets that of the booking.
StoredPnrs(pnrs, depart) ==
    [i \in DOMAIN pnrs |->
        [pnr |-> pnrs[i].pnr, limit |-> FirstOf(<<ParseTimelimit(pnrs[i].limit), HoldExpiresAt(pnrs, depart)>>)]]
=============================================================================
