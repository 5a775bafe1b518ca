--------------------------- MODULE MCFareJourney ---------------------------
(* Answers of the gateway worth telling apart, in thousands of VND. *)
EXTENDS FareJourney

MCCountry == [SGN |-> "VN", HAN |-> "VN", DAD |-> "VN"]

Leg(airline, number, depart) == Segment(airline, number, "SGN", "HAN", depart, depart + 120, Null)
Flight(airline, number, depart, fares) == MockFlight(airline, "SGN", "HAN", 50, Null, <<Leg(airline, number, depart)>>, fares)

Eco(price) == Fare("Y", price, 500, Null, 9, "Economy")
Biz == Fare("J", 3000, 800, Null, 4, "Business")
Market(vn, vj) == [VN |-> [flights |-> vn, fees |-> Null], VJ |-> [flights |-> vj, fees |-> <<40>>]]

Early == Flight("VN", "252", 600, <<Eco(2000), Biz>>)
Late == Flight("VJ", "137", 720, <<Eco(800)>>)

\* Cheapest fare first, everything given.
Plain == Market(<<Early, Flight("VN", "256", 1080, <<Eco(2200)>>)>>, <<Late>>)
\* The same flights, dearer.
Dearer == Market(<<Flight("VN", "252", 600, <<Eco(2400), Biz>>)>>, <<Late>>)
\* Business first; no route, a day but no moment of departure.
Unordered == Market(<<Flight("VN", "252", 600, <<Biz, Eco(2000)>>)>>,
                    <<[Late EXCEPT !.segs = <<>>, !.number = <<"VJ", "137">>, !.departDay = 720, !.arriveDay = 840]>>)
\* A fare known by its basis only, a fare sold out by its details only, prices given as totals, no cabin.
Sparse == Market(<<[Early EXCEPT !.fares =
                     <<[Eco(2000) EXCEPT !.class = Null, !.info.class = Null, !.basis = "YLOW"],
                       [Biz EXCEPT !.seats = Null, !.info.seats = 0]>>]>>,
                 <<[Late EXCEPT !.airline = Null, !.fares =
                     <<[Eco(800) EXCEPT !.class = Null, !.fareClass = "Y", !.fareADT = Null, !.total = 1350, !.info.cabin = Null]>>]>>)
\* One flight twice, at two prices; two fares of one class, the first sold out.
Twins == Market(<<Early, Flight("VN", "252", 600, <<Eco(2600)>>)>>,
                <<[Late EXCEPT !.fares = <<[Eco(700) EXCEPT !.soldOut = TRUE], Eco(800)>>]>>)
\* A date nobody can read.
Garbled == Market(<<Early, [Early EXCEPT !.segs[1].depart = BadTime]>>, <<Late>>)

MCMarkets == {Plain, Dearer, Unordered, Sparse, Twins, Garbled}

Scope == [channel |-> "B2C", airline |-> Null, cabin |-> Null, paxType |-> Null, from |-> Null, to |-> Null, domestic |-> Null]
Percent35 == [scope |-> [Scope EXCEPT !.domestic = TRUE], tiers |-> {}, priority |-> 10, created |-> 1,
              type |-> "PERCENT", value |-> 350, min |-> Null, max |-> Null]
Fixed50 == [scope |-> [Scope EXCEPT !.airline = "VJ"], tiers |-> {}, priority |-> 20, created |-> 2,
            type |-> "FIXED", value |-> 50, min |-> Null, max |-> Null]
Minimum30 == [scope |-> Scope, tiers |-> {}, priority |-> 1, created |-> 3,
              type |-> "PERCENT", value |-> 100, min |-> 30, max |-> Null]
ForGold == [scope |-> [Scope EXCEPT !.cabin = "Economy"], tiers |-> {"GOLD"}, priority |-> 30, created |-> 4,
            type |-> "PERCENT", value |-> 200, min |-> Null, max |-> 40]
MCRuleSets == {{Percent35, Fixed50, Minimum30}, {Percent35, Fixed50, Minimum30, ForGold}}

MCQueries == {[adt |-> 1, chd |-> 0], [adt |-> 2, chd |-> 0]}
MCParties == {[adt |-> 1, chd |-> 0]}
\* Alone unreadable, together the later one counts; alone long enough, together too short.
MCLimitPairs == {<<BadTime, 200>>, <<300, 70>>}
MCTiers == {"GOLD"}

\* The hypotheses of the theorems about what is shown hold of these answers.
ASSUME MCAnswers == OwnFlights /\ LegsAreNamed /\ NumbersAreKept
=============================================================================
