----------------------------- MODULE MockMuadi -----------------------------
(***************************************************************************)
(* The stand-in for the gateway that MUADI_USE_MOCK selects                *)
(* (integrations/muadi/mock-muadi.provider.ts): four fixed flights of a    *)
(* route, whatever the date and the passengers, and a hold that finds its  *)
(* flight by airline alone.  Money in thousands of VND.                    *)
(***************************************************************************)
EXTENDS FareOffer

Clock(h, m) == 60 * h + m

Segment(airline, number, from, to, depart, arrive, minutes) ==
    [carrier |-> airline, number |-> <<number>>, from |-> from, to |-> to,
     depart |-> depart, arrive |-> arrive, minutes |-> minutes]

Fare(code, fareADT, taxes, issueFee, seats, cabin) ==
    [class |-> code, fareClass |-> Null, basis |-> Null, info |-> [class |-> code, cabin |-> cabin, seats |-> seats],
     fareADT |-> fareADT, taxes |-> taxes, issueFee |-> issueFee, total |-> Null, seats |-> seats, soldOut |-> FALSE]

MockFlight(airline, from, to, issueFee, fees, segs, fares) ==
    [airline |-> airline, carrier |-> Null, number |-> Null, from |-> from, to |-> to,
     departAt |-> Null, arriveAt |-> Null, departDay |-> Null, arriveDay |-> Null,
     segs |-> segs, fares |-> fares, issueFee |-> issueFee, fee |-> Null, fees |-> fees]

BuildMockFlights(from, to) == <<
    MockFlight("VN", from, to, 50, Null,
        <<Segment("VN", "252", from, to, Clock(16, 40), Clock(18, 50), 130)>>,
        <<Fare("L", 2099, 737, 50, 9, "Economy"), Fare("B", 3099, 867, 50, 4, "Business")>>),
    MockFlight("VJ", from, to, 40, Null,
        <<Segment("VJ", "137", from, to, Clock(12, 10), Clock(14, 20), 130)>>,
        <<Fare("Eco", 790, 499, Null, 6, "Economy"), Fare("Deluxe", 1190, 579, Null, 3, "Deluxe")>>),
    MockFlight("QH", from, to, Null, <<45>>,
        <<Segment("QH", "1201", from, "DAD", Clock(9, 20), Clock(10, 40), 80),
          Segment("QH", "102", "DAD", to, Clock(12, 0), Clock(13, 20), 80)>>,
        <<Fare("Economy", 990, 529, Null, 5, "Economy"), Fare("Plus", 1390, 609, Null, 2, "Economy")>>),
    MockFlight("BL", from, to, 35, Null,
        <<Segment("BL", "610", from, to, Clock(16, 30), Clock(18, 40), 130)>>,
        <<Fare("Eco", 680, 468, Null, 0, "Economy"), Fare("Plus", 1080, 558, Null, 7, "Economy")>>)>>

\* The flight of the airline, and its fare of that class if a seat is left; Null otherwise.
MockFind(from, to, airline, class) ==
    LET flights == BuildMockFlights(from, to)
        f == flights[CHOOSE i \in DOMAIN flights : flights[i].airline = airline]
        of == {i \in DOMAIN f.fares : class \in {f.fares[i].class, f.fares[i].fareClass}}
        r == f.fares[SmallestOf(of)]
    IN  IF (\A i \in DOMAIN flights : flights[i].airline # airline) \/ of = {} THEN Null
        ELSE IF r.seats <= 0 THEN Null ELSE [flight |-> f, fare |-> r]

\* Its reservations last six hours.
MockLimit == Clock(6, 0)

\* One adult's fare, however many fly; the fees listed apart are left out.
FareTotal(f, r) == r.fareADT + r.taxes + FirstOf(<<r.issueFee, f.issueFee, 0>>)
=============================================================================
