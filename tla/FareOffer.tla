----------------------------- MODULE FareOffer -----------------------------
(***************************************************************************)
(* From the gateway's raw flights to the offers shown to a customer        *)
(* (flights/normalizer.ts), and from an offer back to the raw flight and   *)
(* fare that a hold books (integrations/muadi/real-muadi.provider.ts).     *)
(* Pure operators: the two directions read the same raw record by          *)
(* different rules, which is what the properties of FareJourney are about. *)
(*                                                                         *)
(* Raw records keep the optional fields of the gateway, Null when absent.  *)
(* A flight number is a sequence: <<"252">>, or <<"VN", "252">> when it    *)
(* carries a carrier prefix.  A moment is an integer of minutes, BadTime a *)
(* date no parser accepts.  Money is an integer.                           *)
(***************************************************************************)
EXTENDS Integers, Sequences

CONSTANTS Null, BadTime

ASSUME OfferAssumption == Null \notin Int /\ BadTime \notin Int /\ Null # BadTime

\* What the gateway may answer (muadi-provider.interface.ts): nearly every field is optional.
Optional(S) == {Null} \cup S
Moment == {Null, BadTime} \cup Int
Amount == Optional(Int)

RawSegment == [carrier : Optional(STRING), number : Optional(Seq(STRING)), from : Optional(STRING), to : Optional(STRING),
               depart : Moment, arrive : Moment, minutes : Amount]

FareInfo == [class : Optional(STRING), cabin : Optional(STRING), seats : Amount]
RawFare == [class : Optional(STRING), fareClass : Optional(STRING), basis : Optional(STRING), info : FareInfo,
            fareADT : Amount, taxes : Int, issueFee : Amount, total : Amount, seats : Amount, soldOut : BOOLEAN]

RawFlight == [airline : Optional(STRING), carrier : Optional(STRING), number : Optional(Seq(STRING)),
              from : Optional(STRING), to : Optional(STRING), departAt : Moment, arriveAt : Moment,
              departDay : Moment, arriveDay : Moment, segs : Seq(RawSegment), fares : Seq(RawFare),
              issueFee : Amount, fee : Optional(Seq(Int)), fees : Optional(Seq(Int))]

GatewayAnswer == [flights : Seq(RawFlight), fees : Optional(Seq(Int))]

SmallestOf(S) == CHOOSE x \in S : \A y \in S : x <= y

\* The chain a ?? b ?? ... of the code.
FirstOf(s) == LET present == {i \in DOMAIN s : s[i] # Null}
              IN  IF present = {} THEN Null ELSE s[SmallestOf(present)]

-----------------------------------------------------------------------------
(* Airline and flight number. *)

SegmentCarrier(f) == IF f.segs = <<>> THEN Null ELSE Head(f.segs).carrier

AirlineCode(f) == FirstOf(<<f.airline, f.carrier, SegmentCarrier(f)>>)

\* The carrier's code is put before the number unless it already begins it.
FlightNumber(carrier, number) ==
    IF number = Null THEN IF carrier = Null THEN <<>> ELSE <<carrier>>
    ELSE IF carrier \in {Null, Head(number)} THEN number ELSE <<carrier>> \o number

-----------------------------------------------------------------------------
(* Segments. *)

FallbackSegment(f) ==
    [carrier |-> FirstOf(<<f.carrier, f.airline>>), number |-> f.number,
     from |-> f.from, to |-> f.to, minutes |-> Null,
     depart |-> FirstOf(<<f.departAt, f.departDay>>),
     arrive |-> FirstOf(<<f.arriveAt, f.arriveDay>>)]

RawSegments(f) == IF f.segs # <<>> THEN f.segs ELSE <<FallbackSegment(f)>>

Unreadable(moment) == moment \in {Null, BadTime}

\* requiredDate, requiredAirport and parseMuadiDateTime throw.
Malformed(f) ==
    \E i \in DOMAIN RawSegments(f) :
        LET s == RawSegments(f)[i]
        IN  \/ Unreadable(FirstOf(<<s.depart, f.departAt>>))
            \/ Unreadable(FirstOf(<<s.arrive, f.arriveAt>>))
            \/ Null \in {FirstOf(<<s.from, f.from>>), FirstOf(<<s.to, f.to>>)}

SegmentMinutes(s, depart, arrive) ==
    IF s.minutes # Null THEN s.minutes
    ELSE IF arrive > depart THEN arrive - depart ELSE 0

NormalizeSegment(f, s) ==
    LET depart == FirstOf(<<s.depart, f.departAt>>)
        arrive == FirstOf(<<s.arrive, f.arriveAt>>)
    IN  [from |-> FirstOf(<<s.from, f.from>>), to |-> FirstOf(<<s.to, f.to>>),
         depart |-> depart, arrive |-> arrive,
         minutes |-> SegmentMinutes(s, depart, arrive),
         number |-> FlightNumber(FirstOf(<<s.carrier, AirlineCode(f)>>), FirstOf(<<s.number, f.number>>))]

Segments(f) == [i \in DOMAIN RawSegments(f) |-> NormalizeSegment(f, RawSegments(f)[i])]

Duration(segs) == LET total[i \in 0..Len(segs)] == IF i = 0 THEN 0 ELSE total[i - 1] + segs[i].minutes
                  IN  total[Len(segs)]

-----------------------------------------------------------------------------
(* Fare classes. *)

NthFare == <<"Fare1", "Fare2", "Fare3">>
FareClassNames == [Economy |-> "PhoThong", Business |-> "ThuongGia", Deluxe |-> "CaoCap", SkyBoss |-> "SkyBoss"]

FareCode(r, i) == FirstOf(<<r.class, r.fareClass, r.info.class, r.basis, NthFare[i]>>)

FareName(r, code) ==
    FirstOf(<<r.info.cabin, IF code \in DOMAIN FareClassNames THEN FareClassNames[code] ELSE code>>)

Listed(fees) == IF fees = Null THEN <<>> ELSE fees
IssueFee(f, r) == FirstOf(<<r.issueFee, f.issueFee>> \o Listed(f.fee) \o Listed(f.fees) \o <<0>>)

NetPrice(f, r) ==
    IF r.fareADT # Null THEN r.fareADT + r.taxes + IssueFee(f, r)
                        ELSE FirstOf(<<r.total, r.taxes + IssueFee(f, r)>>)

SeatAvailable(r) == FirstOf(<<r.seats, r.info.seats, IF r.soldOut THEN 0 ELSE 1>>)

FareClass(f, i) ==
    LET r == f.fares[i]
    IN  [code |-> FareCode(r, i), name |-> FareName(r, FareCode(r, i)), price |-> NetPrice(f, r),
         soldOut |-> r.soldOut \/ SeatAvailable(r) <= 0]

FareClasses(f) == [i \in DOMAIN f.fares |-> FareClass(f, i)]

Buyable(fares) == {i \in DOMAIN fares : ~fares[i].soldOut /\ fares[i].price > 0}
Priced(fares)  == {i \in DOMAIN fares : fares[i].price > 0}

CheapestPrice(fares) ==
    LET of == IF Buyable(fares) # {} THEN Buyable(fares) ELSE Priced(fares)
    IN  IF of = {} THEN 0 ELSE SmallestOf({fares[i].price : i \in of})

\* The first of the cheapest fares that can be bought (index 1 if none can).
OfferFareIndex(fares) ==
    LET cheapest == {i \in Buyable(fares) : \A j \in Buyable(fares) : fares[i].price <= fares[j].price}
    IN  IF cheapest = {} THEN 1 ELSE SmallestOf(cheapest)

-----------------------------------------------------------------------------
(* The offer and the snapshot a later hold works from. *)

\* The hash of these four, and of nothing else: not the passengers, not the fare's class.
OfferId(airline, number, depart, index) == <<airline, number, depart, index>>

NormalizeFlight(f) ==
    LET segs == Segments(f)
        fares == FareClasses(f)
    IN  [id |-> OfferId(AirlineCode(f), segs[1].number, segs[1].depart, OfferFareIndex(fares)),
         airline |-> AirlineCode(f), number |-> segs[1].number, segs |-> segs, fares |-> fares,
         cheapest |-> CheapestPrice(fares), minutes |-> Duration(segs), direct |-> Len(segs) = 1]

\* The fare the snapshot names: a fare on sale at the cheapest price, or on sale, or the first.
SnapshotFare(offer) ==
    LET onSale == {i \in DOMAIN offer.fares : ~offer.fares[i].soldOut}
        atBest == {i \in onSale : offer.fares[i].price = offer.cheapest}
    IN  IF atBest # {} THEN SmallestOf(atBest) ELSE IF onSale # {} THEN SmallestOf(onSale) ELSE 1

OfferSnapshot(offer, query) ==
    LET i == SnapshotFare(offer)
        named == i \in DOMAIN offer.fares
    IN  [query |-> query, airline |-> offer.airline, number |-> offer.number, depart |-> offer.segs[1].depart,
         class |-> IF named THEN offer.fares[i].code ELSE Null,
         price |-> IF named THEN offer.fares[i].price ELSE offer.cheapest]

-----------------------------------------------------------------------------
(* Back to a raw flight: what a hold looks for in a fresh search. *)

Answers(r, class) == class \in {r.class, r.fareClass, r.info.class}

\* The first fare that answers to the class, unless it is sold out; Null otherwise.
ResolveFare(class, f) ==
    LET those == {i \in DOMAIN f.fares : Answers(f.fares[i], class)}
        r     == f.fares[SmallestOf(those)]
    IN  IF those = {} \/ r.soldOut \/ FirstOf(<<r.seats, 1>>) <= 0 THEN Null ELSE r

FirstSegment(f, field) == IF f.segs = <<>> THEN Null ELSE Head(f.segs)[field]

FaultBareNumber(f) == FirstOf(<<FirstSegment(f, "number"), f.number>>)
HeldNumber(f) ==
    FlightNumber(FirstOf(<<FirstSegment(f, "carrier"), f.airline, f.carrier>>),
                 FirstOf(<<FirstSegment(f, "number"), f.number>>))
\* The number a booking is filed under: the carrier is put before it in any case.
NumberGiven(f) == FirstOf(<<FirstSegment(f, "number"), f.number>>)
FiledNumber(f) ==
    LET carrier == FirstOf(<<FirstSegment(f, "carrier"), f.carrier, f.airline>>)
    IN  IF carrier = Null \/ NumberGiven(f) \in {Null, <<>>} THEN NumberGiven(f) ELSE <<carrier>> \o NumberGiven(f)
HeldDepart(f) == FirstOf(<<FirstSegment(f, "depart"), f.departAt>>)

FaultByClass(f, snapshot, class) == ResolveFare(class, f) # Null
Matches(f, snapshot, class) ==
    /\ HeldNumber(f) = snapshot.number
    /\ HeldDepart(f) = snapshot.depart
    /\ ResolveFare(class, f) # Null

\* The answer's flights are tried in order: [throws, flight], flight Null if none
\* matches.  A flight whose date cannot be read throws before any later one is tried.
FindMatchingFlight(flights, snapshot, class) ==
    LET throwing == {i \in DOMAIN flights : Unreadable(HeldDepart(flights[i]))}
        matching == {i \in DOMAIN flights \ throwing : Matches(flights[i], snapshot, class)}
    IN  IF throwing \cup matching = {} THEN [throws |-> FALSE, flight |-> Null]
        ELSE LET i == SmallestOf(throwing \cup matching)
             IN  [throws |-> i \in throwing, flight |-> IF i \in throwing THEN Null ELSE flights[i]]

\* The airline that was asked, and the fees of its answer, fill what a flight lacks.
WithAirline(f, airline, fees) ==
    [f EXCEPT !.airline = FirstOf(<<f.airline, airline>>),
              !.fees = FirstOf(<<f.fees, f.fee, fees>>)]
=============================================================================
