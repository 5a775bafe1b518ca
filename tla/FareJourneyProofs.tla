------------------------- MODULE FareJourneyProofs -------------------------
(***************************************************************************)
(* Proofs about the journey of a price: the flight and the class that are  *)
(* booked are those that were picked, a booking answers for all of its     *)
(* reservations, what is shown on sale is held and charged as it was       *)
(* shown; for every answer of the gateway, every set of rules and every    *)
(* pair of limits.                                                         *)
(***************************************************************************)
EXTENDS FareJourney, SequenceTheorems, WellFoundedInduction, TLAPS

-----------------------------------------------------------------------------
(* The first of several fields, the smallest of several numbers.           *)

LEMMA NullIsNoValue ==
    Null \notin Int /\ BadTime \notin Int /\ Null # BadTime
BY OfferAssumption DEF OfferAssumption

LEMMA SmallestIs ==
    ASSUME NEW S, S \subseteq Int, NEW x \in S, \A y \in S : x <= y
    PROVE  SmallestOf(S) = x
<1>1. SmallestOf(S) \in S /\ \A y \in S : SmallestOf(S) <= y
  BY DEF SmallestOf
<1>2. SmallestOf(S) \in Int /\ x \in Int
  BY <1>1
<1>3. SmallestOf(S) <= x /\ x <= SmallestOf(S)
  BY <1>1
<1> QED BY <1>2, <1>3

LEMMA SmallestIsThere ==
    ASSUME NEW S, S \subseteq Nat, S # {}
    PROVE  SmallestOf(S) \in S /\ \A y \in S : SmallestOf(S) <= y
<1> DEFINE Less == {ss \in Nat \X Nat : ss[1] < ss[2]}
<1>1. IsWellFoundedOn(Less, Nat)
  BY NatLessThanWellFounded DEF OpToRel
<1> HIDE DEF Less
<1>2. PICK x \in S : \A y \in S : <<y, x>> \notin Less
  BY <1>1, WFMin
<1>3. \A y \in S : ~(y < x)
  BY <1>2 DEF Less
<1>4. x \in S /\ \A y \in S : x <= y
  BY <1>3
<1> QED BY <1>4 DEF SmallestOf

LEMMA FirstIsHead ==
    ASSUME NEW s, DOMAIN s \subseteq Nat \ {0}, 1 \in DOMAIN s, s[1] # Null
    PROVE  FirstOf(s) = s[1]
<1> DEFINE present == {i \in DOMAIN s : s[i] # Null}
<1>1. present \subseteq Int /\ 1 \in present /\ \A i \in present : 1 <= i
  OBVIOUS
<1>2. SmallestOf(present) = 1
  BY <1>1, SmallestIs
<1> QED BY <1>1, <1>2 DEF FirstOf

LEMMA FirstOfTwo ==
    ASSUME NEW a, NEW b
    PROVE  FirstOf(<<a, b>>) = IF a # Null THEN a ELSE b
<1> DEFINE s == <<a, b>>
           present == {i \in DOMAIN s : s[i] # Null}
<1>1. DOMAIN s = {1, 2} /\ s[1] = a /\ s[2] = b
  OBVIOUS
<1>2. CASE a # Null
  BY <1>1, <1>2, FirstIsHead
<1>3. CASE a = Null /\ b # Null
  <2>1. present = {2}
    BY <1>1, <1>3
  <2>2. SmallestOf({2}) = 2
    BY SmallestIs
  <2> QED BY <1>1, <1>3, <2>1, <2>2 DEF FirstOf
<1>4. CASE a = Null /\ b = Null
  <2>1. present = {}
    BY <1>1, <1>4
  <2> QED BY <1>4, <2>1 DEF FirstOf
<1> QED BY <1>2, <1>3, <1>4

-----------------------------------------------------------------------------
(* From the offer that was picked to the flight that is held.              *)

\* The fare that a class resolves to answers to it.
LEMMA ResolvedFareAnswers ==
    ASSUME NEW class, NEW f, DOMAIN f.fares \subseteq Nat, ResolveFare(class, f) # Null
    PROVE  Answers(ResolveFare(class, f), class)
<1> DEFINE those == {i \in DOMAIN f.fares : Answers(f.fares[i], class)}
<1>1. those # {} /\ ResolveFare(class, f) = f.fares[SmallestOf(those)]
  BY DEF ResolveFare
<1>2. SmallestOf(those) \in those
  BY <1>1, SmallestIsThere
<1> QED BY <1>1, <1>2

\* What is found matches, and its date can be read.
LEMMA FoundFlightMatches ==
    ASSUME NEW flights, DOMAIN flights \subseteq Nat, NEW snapshot, NEW class,
           ~FindMatchingFlight(flights, snapshot, class).throws,
           FindMatchingFlight(flights, snapshot, class).flight # Null
    PROVE  \E i \in DOMAIN flights :
              /\ FindMatchingFlight(flights, snapshot, class).flight = flights[i]
              /\ Matches(flights[i], snapshot, class) /\ ~Unreadable(HeldDepart(flights[i]))
<1> DEFINE throwing == {i \in DOMAIN flights : Unreadable(HeldDepart(flights[i]))}
           matching == {i \in DOMAIN flights \ throwing : Matches(flights[i], snapshot, class)}
           i == SmallestOf(throwing \cup matching)
<1>1. throwing \cup matching # {}
  BY DEF FindMatchingFlight
<1>2. i \in throwing \cup matching
  <2>1. throwing \cup matching \subseteq Nat
    OBVIOUS
  <2> HIDE DEF throwing, matching
  <2> QED BY <1>1, <2>1, SmallestIsThere
<1>3. FindMatchingFlight(flights, snapshot, class) =
        [throws |-> i \in throwing, flight |-> IF i \in throwing THEN Null ELSE flights[i]]
  BY <1>1 DEF FindMatchingFlight
<1>4. i \notin throwing
  BY <1>3
<1> QED BY <1>2, <1>3, <1>4

\* What the search makes of a flight, as far as the hold looks for it again.
LEMMA IdsNameFlights ==
    ASSUME NEW f
    PROVE  LET offer == NormalizeFlight(f)
           IN  /\ offer.airline = AirlineCode(f)
               /\ offer.id = <<offer.airline, offer.number, offer.segs[1].depart, offer.id[4]>>
BY DEF NormalizeFlight, OfferId

Mock == BuildMockFlights(From, To)

\* What is given of the first leg of a flight.
FirstLegGiven(f) ==
    /\ f.segs # <<>> /\ 1 \in DOMAIN f.segs /\ Head(f.segs) = f.segs[1]
    /\ f.airline # Null /\ f.segs[1].carrier = f.airline
    /\ f.segs[1].number # Null /\ f.segs[1].depart \in Int

LEMMA SegmentIsGiven ==
    ASSUME NEW f, NEW leg, f.segs = <<leg>> \/ (\E next : f.segs = <<leg, next>>),
           f.airline # Null, leg.carrier = f.airline, leg.number # Null, leg.depart \in Int
    PROVE  FirstLegGiven(f)
BY DEF FirstLegGiven

\* Each of the mock's flights is found by the number, the date and the airline it was shown with.
LEMMA MockFlightsAreKept ==
    /\ DOMAIN Mock = 1..4
    /\ \A j \in 1..4 :
         /\ AirlineCode(Mock[j]) = Mock[j].airline
         /\ NormalizeFlight(Mock[j]).number = HeldNumber(Mock[j])
         /\ NormalizeFlight(Mock[j]).segs[1].depart = HeldDepart(Mock[j])
         /\ HeldDepart(Mock[j]) \in Int /\ DOMAIN Mock[j].fares = 1..2
    /\ \A i, j \in 1..4 : Mock[i].airline = Mock[j].airline => i = j
<1>1. DOMAIN Mock = 1..4
  BY DEF Mock, BuildMockFlights
<1>2. ASSUME NEW j \in 1..4, NEW f, f = Mock[j]
      PROVE  FirstLegGiven(f) /\ DOMAIN f.fares = 1..2
  <2>0. f.airline # Null /\ f.segs[1].number # Null
    BY <1>2, JourneyAssumption DEF Mock
  <2>1. FirstLegGiven(f)
    <3>1. CASE j = 1
      <4> DEFINE leg == Segment("VN", "252", From, To, 1000, 1130, 130)
      <4>1. f.segs = <<leg>> /\ f.airline = "VN"
        BY <1>2, <3>1 DEF Mock, BuildMockFlights, MockFlight, Clock
      <4>2. leg.carrier = "VN" /\ leg.depart \in Int
        BY DEF Segment
      <4> HIDE DEF leg
      <4>3. leg.number # Null
        BY <2>0, <4>1
      <4> QED BY <2>0, <4>1, <4>2, <4>3, SegmentIsGiven
    <3>2. CASE j = 2
      <4> DEFINE leg == Segment("VJ", "137", From, To, 730, 860, 130)
      <4>1. f.segs = <<leg>> /\ f.airline = "VJ"
        BY <1>2, <3>2 DEF Mock, BuildMockFlights, MockFlight, Clock
      <4>2. leg.carrier = "VJ" /\ leg.depart \in Int
        BY DEF Segment
      <4> HIDE DEF leg
      <4>3. leg.number # Null
        BY <2>0, <4>1
      <4> QED BY <2>0, <4>1, <4>2, <4>3, SegmentIsGiven
    <3>3. CASE j = 3
      <4> DEFINE leg == Segment("QH", "1201", From, "DAD", 560, 640, 80)
                 next == Segment("QH", "102", "DAD", To, 720, 800, 80)
      <4>1. f.segs = <<leg, next>> /\ f.airline = "QH"
        BY <1>2, <3>3 DEF Mock, BuildMockFlights, MockFlight, Clock
      <4>2. leg.carrier = "QH" /\ leg.depart \in Int
        BY DEF Segment
      <4> HIDE DEF leg
      <4>3. leg.number # Null
        BY <2>0, <4>1
      <4> QED BY <2>0, <4>1, <4>2, <4>3, SegmentIsGiven
    <3>4. CASE j = 4
      <4> DEFINE leg == Segment("BL", "610", From, To, 990, 1120, 130)
      <4>1. f.segs = <<leg>> /\ f.airline = "BL"
        BY <1>2, <3>4 DEF Mock, BuildMockFlights, MockFlight, Clock
      <4>2. leg.carrier = "BL" /\ leg.depart \in Int
        BY DEF Segment
      <4> HIDE DEF leg
      <4>3. leg.number # Null
        BY <2>0, <4>1
      <4> QED BY <2>0, <4>1, <4>2, <4>3, SegmentIsGiven
    <3> QED BY <3>1, <3>2, <3>3, <3>4
  <2>2. DOMAIN f.fares = 1..2
    BY <1>2 DEF Mock, BuildMockFlights, MockFlight
  <2> QED BY <2>1, <2>2
<1>3. \A i, j \in 1..4 : Mock[i].airline = Mock[j].airline => i = j
  BY DEF Mock, BuildMockFlights, MockFlight
<1>4. ASSUME NEW f, FirstLegGiven(f)
      PROVE  /\ AirlineCode(f) = f.airline
             /\ NormalizeFlight(f).number = HeldNumber(f)
             /\ NormalizeFlight(f).segs[1].depart = HeldDepart(f)
             /\ HeldDepart(f) \in Int
  <2> USE <1>4 DEF FirstLegGiven
  <2>1. AirlineCode(f) = f.airline
    BY <1>4, FirstIsHead, NullIsNoValue DEF AirlineCode
  <2>2. HeldDepart(f) = f.segs[1].depart
    BY <1>4, FirstOfTwo, NullIsNoValue DEF HeldDepart, FirstSegment
  <2>3. HeldNumber(f) = FlightNumber(f.airline, f.segs[1].number)
    BY <1>4, FirstIsHead, FirstOfTwo, NullIsNoValue DEF HeldNumber, FirstSegment
  <2>4. NormalizeFlight(f).segs[1] = NormalizeSegment(f, f.segs[1])
    BY <1>4 DEF NormalizeFlight, Segments, RawSegments
  <2>5. NormalizeFlight(f).number = NormalizeSegment(f, f.segs[1]).number
    BY <1>4 DEF NormalizeFlight, Segments, RawSegments
  <2>6. /\ NormalizeSegment(f, f.segs[1]).depart = f.segs[1].depart
        /\ NormalizeSegment(f, f.segs[1]).number = FlightNumber(f.airline, f.segs[1].number)
    BY <1>4, <2>1, FirstOfTwo, NullIsNoValue DEF NormalizeSegment
  <2> QED BY <1>4, <2>1, <2>2, <2>3, <2>4, <2>5, <2>6
<1> QED BY <1>1, <1>2, <1>3, <1>4

\* The mock books a flight of the airline that was asked, and a fare that answers to the class.
LEMMA MockFindsItsFlight ==
    ASSUME NEW airline, NEW class, NEW j \in 1..4, Mock[j].airline = airline,
           MockFind(From, To, airline, class) # Null
    PROVE  LET found == MockFind(From, To, airline, class)
           IN  found.flight = Mock[j] /\ Answers(found.fare, class)
<1> DEFINE f == Mock[j]
           of == {k \in DOMAIN f.fares : class \in {f.fares[k].class, f.fares[k].fareClass}}
<1>1. (CHOOSE k \in DOMAIN Mock : Mock[k].airline = airline) = j
  BY MockFlightsAreKept
<1>2. of # {} /\ MockFind(From, To, airline, class) = [flight |-> f, fare |-> f.fares[SmallestOf(of)]]
  BY <1>1 DEF MockFind, Mock
<1>3. of \subseteq Nat
  BY MockFlightsAreKept
<1>4. PICK k \in of : k = SmallestOf(of)
  <2> HIDE DEF of
  <2> QED BY <1>2, <1>3, SmallestIsThere
<1>5. class \in {f.fares[k].class, f.fares[k].fareClass}
  OBVIOUS
<1> HIDE DEF of
<1> QED BY <1>2, <1>4, <1>5 DEF Answers

\* A flight of the gateway whose date can be read departs at a time.
LEMMA DateIsATime ==
    ASSUME NEW m \in Markets, NEW airline \in Airlines, NEW i \in DOMAIN AnswerOf(m, airline),
           ~Unreadable(HeldDepart(AnswerOf(m, airline)[i]))
    PROVE  HeldDepart(AnswerOf(m, airline)[i]) \in Int
<1>1. PICK f \in RawFlight : f = m[airline].flights[i]
  <2>1. m[airline] \in GatewayAnswer
    BY JourneyAssumption
  <2>2. m[airline].flights \in Seq(RawFlight) /\ i \in DOMAIN m[airline].flights
    BY <2>1 DEF GatewayAnswer, AnswerOf
  <2> QED BY <2>2
<1>2. PICK g : g = AnswerOf(m, airline)[i] /\ g.segs = f.segs /\ g.departAt = f.departAt
  <2>1. AnswerOf(m, airline)[i] = WithAirline(f, airline, m[airline].fees)
    BY <1>1 DEF AnswerOf
  <2>2. LET g == WithAirline(f, airline, m[airline].fees) IN g.segs = f.segs /\ g.departAt = f.departAt
    BY DEF WithAirline, RawFlight
  <2> QED BY <2>1, <2>2
<1>3. f.segs \in Seq(RawSegment) /\ f.departAt \in Moment
  BY DEF RawFlight
<1>4. FirstSegment(g, "depart") \in Moment
  <2>1. CASE f.segs = <<>>
    BY <1>2, <2>1 DEF FirstSegment, Moment
  <2>2. CASE f.segs # <<>>
    <3>1. PICK leg \in RawSegment : leg = Head(g.segs)
      BY <1>2, <1>3, <2>2
    <3> QED BY <1>2, <2>2, <3>1 DEF FirstSegment, RawSegment
  <2> QED BY <2>1, <2>2
<1>5. HeldDepart(g) \in Moment
  BY <1>2, <1>3, <1>4, FirstOfTwo DEF HeldDepart
<1> QED BY <1>2, <1>5 DEF Unreadable, Moment

-----------------------------------------------------------------------------
(* The invariant of the right flight: an offer and its snapshot are named  *)
(* by the flight they are made of, and what is held is what was picked.    *)

Holding == {"pricing", "fallback", "priced", "booked"}

\* An offer says what it is the id of; a snapshot, what it is kept under.
OffersAreNamed ==
    \A i \in DOMAIN offers :
        LET o == offers[i] IN o.id = <<o.airline, o.number, o.segs[1].depart, o.id[4]>>
SnapshotsAreNamed ==
    \A id \in DOMAIN snapshots :
        LET s == snapshots[id] IN s.airline = id[1] /\ s.number = id[2] /\ s.depart = id[3]

\* The mock's offers are its four flights.
MockIsShown ==
    provider = "mock" => \A i \in DOMAIN offers : \E j \in 1..4 :
        /\ offers[i].airline = Mock[j].airline
        /\ offers[i].number = HeldNumber(Mock[j]) /\ offers[i].segs[1].depart = HeldDepart(Mock[j])

HeldRecord(h) ==
    h = [flight |-> h.flight, fare |-> h.fare, request |-> h.request, snapshot |-> h.snapshot,
         rows |-> h.rows, info |-> h.info, total |-> h.total, pnrs |-> h.pnrs]

\* Flight f is the one that was picked, fare r answers to the class.
Picked(f, r) ==
    /\ HeldNumber(f) = ChosenOffer.number
    /\ HeldDepart(f) = ChosenOffer.segs[1].depart /\ HeldDepart(f) \in Int
    /\ Answers(r, ChosenClass)

RightInv ==
    /\ market \in Markets
    /\ OffersAreNamed /\ SnapshotsAreNamed /\ MockIsShown
    /\ pc = "chosen" => choice.offer \in DOMAIN offers
    /\ pc \in Holding => HeldRecord(held) /\ Picked(held.flight, held.fare)
    /\ pc = "booked" => /\ booking.number = FiledNumber(held.flight)
                        /\ booking.depart = HeldDepart(held.flight)

LEMMA RightStarts == Init => RightInv
<1> SUFFICES ASSUME Init PROVE RightInv
  OBVIOUS
<1>1. DOMAIN offers = {} /\ DOMAIN snapshots = {}
  BY DEF Init
<1>2. pc = "idle" /\ market \in Markets
  BY DEF Init
<1> QED BY <1>1, <1>2 DEF RightInv, OffersAreNamed, SnapshotsAreNamed, MockIsShown, Holding

\* The snapshots a search writes are named by their ids.
LEMMA NewSnapshotsAreNamed ==
    ASSUME NEW raw, NEW q, NEW id \in DOMAIN Snapshots(NetOffers(raw), q)
    PROVE  LET s == Snapshots(NetOffers(raw), q)[id]
           IN  s.airline = id[1] /\ s.number = id[2] /\ s.depart = id[3]
<1> DEFINE net == NetOffers(raw)
<1>1. PICK i : i = CHOOSE k \in DOMAIN net : net[k].id = id
  OBVIOUS
<1>2. i \in DOMAIN net /\ net[i].id = id
  BY <1>1 DEF Snapshots
<1>3. Snapshots(net, q)[id] = OfferSnapshot(net[i], q)
  BY <1>1 DEF Snapshots
<1>4. PICK o : o = NormalizeFlight(raw[i]) /\ o = net[i]
  BY <1>2 DEF NetOffers
<1>5. id = <<o.airline, o.number, o.segs[1].depart, o.id[4]>>
  BY <1>2, <1>4, IdsNameFlights
<1>6. id[1] = o.airline /\ id[2] = o.number /\ id[3] = o.segs[1].depart
  BY <1>5
<1>7. LET s == OfferSnapshot(o, q) IN s.airline = o.airline /\ s.number = o.number /\ s.depart = o.segs[1].depart
  BY DEF OfferSnapshot
<1>8. Snapshots(NetOffers(raw), q)[id] = OfferSnapshot(o, q)
  BY <1>3, <1>4
<1> HIDE DEF net
<1> QED BY <1>6, <1>7, <1>8

LEMMA MergedSnapshotsAreNamed ==
    ASSUME SnapshotsAreNamed, NEW raw, NEW q, snapshots' = Merge(Snapshots(NetOffers(raw), q), snapshots)
    PROVE  SnapshotsAreNamed'
<1> SUFFICES ASSUME NEW id \in DOMAIN snapshots'
             PROVE  LET s == snapshots'[id] IN s.airline = id[1] /\ s.number = id[2] /\ s.depart = id[3]
  BY DEF SnapshotsAreNamed
<1> DEFINE new == Snapshots(NetOffers(raw), q)
<1>1. CASE id \in DOMAIN new
  <2>1. snapshots'[id] = new[id]
    BY <1>1 DEF Merge
  <2> QED BY <1>1, <2>1, NewSnapshotsAreNamed
<1>2. CASE id \notin DOMAIN new
  <2>1. id \in DOMAIN snapshots /\ snapshots'[id] = snapshots[id]
    BY <1>2 DEF Merge
  <2> QED BY <2>1 DEF SnapshotsAreNamed
<1> QED BY <1>1, <1>2

LEMMA SearchShows ==
    ASSUME RightInv, NEW q \in Queries, NEW answered \in SUBSET Airlines, NEW loaded \in BOOLEAN, NEW lost \in BOOLEAN,
           Search(q, answered, loaded, lost)
    PROVE  RightInv'
<1> DEFINE raw == RawFlights(market, answered)
           rs  == IF loaded THEN rules ELSE {}
<1>1. market' = market /\ provider' = provider /\ pc' \in {"searchFailed", "shown"}
  BY DEF Search
<1>2. CASE UNCHANGED <<offers, snapshots>>
  BY <1>1, <1>2 DEF RightInv, OffersAreNamed, SnapshotsAreNamed, MockIsShown, Holding
<1>3. CASE ~UNCHANGED <<offers, snapshots>>
  <2>1. /\ \E located : offers' = [i \in DOMAIN NetOffers(raw) |-> MarkedUp(rs, RouteOf(NetOffers(raw)[i]) \in located, NetOffers(raw)[i])]
        /\ snapshots' = snapshots \/ snapshots' = Merge(Snapshots(NetOffers(raw), q), snapshots)
    BY <1>3 DEF Search
  <2>2. SnapshotsAreNamed'
    <3>1. CASE snapshots' = snapshots
      BY <3>1 DEF RightInv, SnapshotsAreNamed
    <3> QED BY <2>1, <3>1, MergedSnapshotsAreNamed DEF RightInv
  <2>3. ASSUME NEW i \in DOMAIN offers'
        PROVE  i \in DOMAIN raw /\ \E known : offers'[i] = MarkedUp(rs, known, NormalizeFlight(raw[i]))
    BY <2>1 DEF NetOffers
  <2> HIDE DEF raw, rs
  <2>4. ASSUME NEW o, NEW f, NEW known, o = MarkedUp(rs, known, NormalizeFlight(f))
        PROVE  LET n == NormalizeFlight(f)
               IN  o.id = n.id /\ o.airline = n.airline /\ o.number = n.number /\ o.segs = n.segs
    BY <2>4 DEF MarkedUp, NormalizeFlight
  <2>5. OffersAreNamed'
    <3> SUFFICES ASSUME NEW i \in DOMAIN offers'
                 PROVE  LET o == offers'[i] IN o.id = <<o.airline, o.number, o.segs[1].depart, o.id[4]>>
      BY DEF OffersAreNamed
    <3>1. PICK n : n = NormalizeFlight(raw[i]) /\ offers'[i].id = n.id /\ offers'[i].airline = n.airline
                   /\ offers'[i].number = n.number /\ offers'[i].segs = n.segs
      BY <2>3, <2>4
    <3>2. n.id = <<n.airline, n.number, n.segs[1].depart, n.id[4]>>
      BY <3>1, IdsNameFlights
    <3> QED BY <3>1, <3>2
  <2>6. MockIsShown'
    <3> SUFFICES ASSUME provider = "mock", NEW i \in DOMAIN offers'
                 PROVE  \E j \in 1..4 :
                           /\ offers'[i].airline = Mock[j].airline
                           /\ offers'[i].number = HeldNumber(Mock[j])
                           /\ offers'[i].segs[1].depart = HeldDepart(Mock[j])
      BY <1>1 DEF MockIsShown, Mock
    <3>1. raw = Mock
      BY DEF raw, RawFlights, Mock
    <3>2. i \in 1..4
      BY <2>3, <3>1, MockFlightsAreKept
    <3>3. PICK n : n = NormalizeFlight(Mock[i]) /\ offers'[i].airline = n.airline
                   /\ offers'[i].number = n.number /\ offers'[i].segs = n.segs
      BY <2>3, <2>4, <3>1
    <3>4. n.airline = Mock[i].airline /\ n.number = HeldNumber(Mock[i]) /\ n.segs[1].depart = HeldDepart(Mock[i])
      BY <3>2, <3>3, IdsNameFlights, MockFlightsAreKept
    <3> QED BY <3>2, <3>3, <3>4
  <2> QED BY <1>1, <2>2, <2>5, <2>6 DEF RightInv, Holding
<1> QED BY <1>2, <1>3

\* What the gateway books for a hold is the flight that was picked.
LEMMA GatewayFindsPicked ==
    ASSUME RightInv, pc = "chosen", NEW id, id = ChosenOffer.id, id \in DOMAIN snapshots,
           HoldAtMuadi(snapshots[id]), pc' \in Holding
    PROVE  pc' = "pricing" /\ HeldRecord(held') /\ Picked(held'.flight, held'.fare)
<1> DEFINE s == snapshots[id]
           flights == IF s.airline \in Airlines THEN AnswerOf(market, s.airline) ELSE <<>>
           found == FindMatchingFlight(flights, s, ChosenClass)
           r == ResolveFare(ChosenClass, found.flight)
<1>1. ~found.throws /\ found.flight # Null
  BY DEF HoldAtMuadi, HoldFails, Holding
<1>2. /\ pc' = "pricing"
      /\ \E rows \in Rows(GatewayTotal(found.flight, r, s.query)) : held' = Booked(found.flight, r, s, rows)
  BY <1>1 DEF HoldAtMuadi
<1>3. DOMAIN flights \subseteq Nat
  <2>1. ASSUME s.airline \in Airlines PROVE market[s.airline].flights \in Seq(RawFlight)
    BY <2>1, JourneyAssumption DEF RightInv, GatewayAnswer
  <2> QED BY <2>1 DEF AnswerOf
<1>4. PICK i \in DOMAIN flights : /\ found.flight = flights[i] /\ Matches(flights[i], s, ChosenClass)
                                  /\ ~Unreadable(HeldDepart(flights[i]))
  <2> HIDE DEF flights, s
  <2> QED BY <1>1, <1>3, FoundFlightMatches
<1>5. s.airline \in Airlines /\ HeldDepart(found.flight) \in Int
  <2>1. s.airline \in Airlines
    BY <1>4
  <2> QED BY <1>4, <2>1, DateIsATime DEF RightInv
<1>6. HeldNumber(found.flight) = ChosenOffer.number /\ HeldDepart(found.flight) = ChosenOffer.segs[1].depart
  <2>1. s.number = id[2] /\ s.depart = id[3]
    BY DEF RightInv, SnapshotsAreNamed
  <2>2. id = <<ChosenOffer.airline, ChosenOffer.number, ChosenOffer.segs[1].depart, id[4]>>
    BY DEF RightInv, OffersAreNamed, ChosenOffer
  <2>3. id[2] = ChosenOffer.number /\ id[3] = ChosenOffer.segs[1].depart
    BY <2>2
  <2> QED BY <1>4, <2>1, <2>3 DEF Matches
<1>7. Answers(r, ChosenClass)
  <2>1. DOMAIN found.flight.fares \subseteq Nat
    <3>1. PICK f \in RawFlight : f = market[s.airline].flights[i]
      <4>1. market[s.airline].flights \in Seq(RawFlight)
        BY <1>5, JourneyAssumption DEF RightInv, GatewayAnswer
      <4>2. flights = AnswerOf(market, s.airline)
        BY <1>5
      <4>3. i \in DOMAIN market[s.airline].flights
        BY <1>4, <4>2 DEF AnswerOf
      <4> QED BY <4>1, <4>3
    <3>2. found.flight = WithAirline(f, s.airline, market[s.airline].fees)
      <4>1. found.flight = AnswerOf(market, s.airline)[i] /\ i \in DOMAIN AnswerOf(market, s.airline)
        BY <1>4, <1>5
      <4> QED BY <3>1, <4>1 DEF AnswerOf
    <3>3. WithAirline(f, s.airline, market[s.airline].fees).fares = f.fares
      BY DEF WithAirline, RawFlight
    <3>4. f.fares \in Seq(RawFare)
      BY DEF RawFlight
    <3> QED BY <3>2, <3>3, <3>4
  <2>2. ResolveFare(ChosenClass, found.flight) # Null
    BY <1>4 DEF Matches
  <2> HIDE DEF found
  <2> QED BY <2>1, <2>2, ResolvedFareAnswers
<1> HIDE DEF s, flights, found, r
<1>8. PICK rows : held' = Booked(found.flight, r, s, rows)
  BY <1>2
<1>9. HeldRecord(held') /\ held'.flight = found.flight /\ held'.fare = r
  BY <1>8 DEF Booked, HeldRecord
<1> QED BY <1>2, <1>5, <1>6, <1>7, <1>9 DEF Picked

\* So is what the mock books.
LEMMA MockFindsPicked ==
    ASSUME RightInv, pc = "chosen", provider = "mock", NEW id, id = ChosenOffer.id, id \in DOMAIN snapshots,
           HoldAtMock(snapshots[id]), pc' \in Holding
    PROVE  pc' = "priced" /\ HeldRecord(held') /\ Picked(held'.flight, held'.fare)
<1> DEFINE s == snapshots[id]
           found == MockFind(From, To, s.airline, ChosenClass)
           rows == <<[pnr |-> "OFMOCK", total |-> FareTotal(found.flight, found.fare), limit |-> MockLimit]>>
<1>1. found # Null
  BY DEF HoldAtMock, HoldFails, Holding
<1>2. /\ pc' = "priced"
      /\ held' = Settled(Booked(found.flight, found.fare, s, rows), rows, Pricing(rows))
  BY <1>1 DEF HoldAtMock
<1>3. id = <<ChosenOffer.airline, ChosenOffer.number, ChosenOffer.segs[1].depart, id[4]>>
  BY DEF RightInv, OffersAreNamed, ChosenOffer
<1>4. s.airline = ChosenOffer.airline
  <2>1. s.airline = id[1]
    BY DEF RightInv, SnapshotsAreNamed
  <2> QED BY <1>3, <2>1
<1>5. PICK j \in 1..4 : /\ ChosenOffer.airline = Mock[j].airline /\ ChosenOffer.number = HeldNumber(Mock[j])
                        /\ ChosenOffer.segs[1].depart = HeldDepart(Mock[j])
  BY DEF RightInv, MockIsShown, ChosenOffer
<1>6. found.flight = Mock[j] /\ Answers(found.fare, ChosenClass)
  <2>1. Mock[j].airline = s.airline
    BY <1>4, <1>5
  <2> HIDE DEF s
  <2> QED BY <1>1, <2>1, MockFindsItsFlight
<1> HIDE DEF s, found, rows
<1>7. HeldRecord(held') /\ held'.flight = found.flight /\ held'.fare = found.fare
  BY <1>2 DEF Settled, Booked, HeldRecord
<1> QED BY <1>2, <1>5, <1>6, <1>7, MockFlightsAreKept DEF Picked

LEMMA HoldIsRight ==
    ASSUME RightInv, Hold
    PROVE  RightInv'
<1>1. /\ pc = "chosen" /\ pc' # "booked" /\ pc' # "chosen"
      /\ UNCHANGED <<provider, market, offers, snapshots, choice>>
  BY DEF Hold, HoldFails, HoldAtMuadi, HoldAtMock
<1>2. pc' \in Holding => HeldRecord(held') /\ Picked(held'.flight, held'.fare)
  <2> SUFFICES ASSUME pc' \in Holding PROVE HeldRecord(held') /\ Picked(held'.flight, held'.fare)
    OBVIOUS
  <2>1. ChosenOffer.id \in DOMAIN snapshots
    BY DEF Hold, HoldFails, Holding
  <2>2. CASE provider = "mock"
    <3>1. HoldAtMock(snapshots[ChosenOffer.id])
      BY <2>1, <2>2 DEF Hold
    <3> QED BY <1>1, <2>1, <2>2, <3>1, MockFindsPicked
  <2>3. CASE provider # "mock"
    <3>1. HoldAtMuadi(snapshots[ChosenOffer.id])
      BY <2>1, <2>3 DEF Hold
    <3> QED BY <1>1, <2>1, <3>1, GatewayFindsPicked
  <2> QED BY <2>2, <2>3
<1>3. Picked(held'.flight, held'.fare) => Picked(held.flight, held.fare)'
  BY <1>1 DEF Picked, ChosenOffer, ChosenClass
<1> QED BY <1>1, <1>2, <1>3 DEF RightInv, OffersAreNamed, SnapshotsAreNamed, MockIsShown, HeldRecord

LEMMA RightIsKept ==
    ASSUME RightInv, [Next]_vars
    PROVE  RightInv'
<1>1. ASSUME NEW q \in Queries, OtherSearch(q) PROVE RightInv'
  <2>1. pc = "shown" /\ UNCHANGED <<provider, market, pc, offers, choice>>
    BY <1>1 DEF OtherSearch
  <2>2. SnapshotsAreNamed'
    BY <1>1, MergedSnapshotsAreNamed DEF OtherSearch, RightInv
  <2> QED BY <2>1, <2>2 DEF RightInv, OffersAreNamed, MockIsShown, Holding
<1>2. CASE Reprice \/ ChangeRules
  <2>1. pc = "shown" /\ UNCHANGED <<provider, pc, offers, snapshots, choice>> /\ market' \in Markets
    BY <1>2 DEF Reprice, ChangeRules, RightInv
  <2> QED BY <2>1 DEF RightInv, OffersAreNamed, SnapshotsAreNamed, MockIsShown, Holding
<1>3. CASE SnapshotExpires
  <2>1. pc = "shown" /\ UNCHANGED <<provider, market, pc, offers, choice>> /\ DOMAIN snapshots' = {}
    BY <1>3 DEF SnapshotExpires
  <2> QED BY <2>1 DEF RightInv, OffersAreNamed, SnapshotsAreNamed, MockIsShown, Holding
<1>4. ASSUME NEW o \in DOMAIN offers, NEW party \in Parties, NEW tier \in Tiers,
             CustomerPicks(o, party, tier) \/ \E i \in 1..3 : HunterPicks(o, i, party, tier)
      PROVE  RightInv'
  <2>1. /\ pc' = "chosen" /\ UNCHANGED <<provider, market, offers, snapshots>>
        /\ choice'.offer = o
    BY <1>4 DEF CustomerPicks, HunterPicks, Pick
  <2> QED BY <2>1 DEF RightInv, OffersAreNamed, SnapshotsAreNamed, MockIsShown, Holding
<1>5. ASSUME NEW listed \in BOOLEAN, NEW priced \in SUBSET (1..2), AskTicketInfo(listed, priced) \/ AskListBooking(priced)
      PROVE  RightInv'
  <2>1. /\ pc \in {"pricing", "fallback"} /\ pc' \in {"pricing", "fallback", "priced", "unpriced"}
        /\ UNCHANGED <<provider, market, offers, snapshots, choice>>
    BY <1>5 DEF AskTicketInfo, AskListBooking, HoldFails
  <2>2. HeldRecord(held) /\ Picked(held.flight, held.fare)
    BY <2>1 DEF RightInv, Holding
  <2>3. HeldRecord(held') /\ held'.flight = held.flight /\ held'.fare = held.fare
    <3>1. ASSUME NEW info, NEW pricing, held' = Settled(held, info, pricing)
          PROVE  HeldRecord(held') /\ held'.flight = held.flight /\ held'.fare = held.fare
      BY <2>2, <3>1 DEF Settled, HeldRecord
    <3>2. ASSUME NEW info, held' = [held EXCEPT !.info = info]
          PROVE  HeldRecord(held') /\ held'.flight = held.flight /\ held'.fare = held.fare
      BY <2>2, <3>2 DEF HeldRecord
    <3>3. \/ held' = held
          \/ \E info, pricing : held' = Settled(held, info, pricing)
          \/ \E info : held' = [held EXCEPT !.info = info]
      BY <1>5 DEF AskTicketInfo, AskListBooking, HoldFails
    <3> QED BY <2>2, <3>1, <3>2, <3>3
  <2>4. Picked(held.flight, held.fare)'
    BY <2>1, <2>2, <2>3 DEF Picked, ChosenOffer, ChosenClass
  <2> QED BY <2>1, <2>3, <2>4 DEF RightInv, OffersAreNamed, SnapshotsAreNamed, MockIsShown, Holding, HeldRecord
<1>6. CASE RefuseShortWindow
  <2>1. pc' = "tooShort" /\ UNCHANGED <<provider, market, offers, snapshots, choice>>
    BY <1>6 DEF RefuseShortWindow, HoldFails
  <2> QED BY <2>1 DEF RightInv, OffersAreNamed, SnapshotsAreNamed, MockIsShown, Holding
<1>7. ASSUME NEW loaded \in BOOLEAN, NEW located \in BOOLEAN, Persist(loaded, located) PROVE RightInv'
  <2>1. /\ pc = "priced" /\ pc' = "booked" /\ UNCHANGED <<provider, market, offers, snapshots, choice, held>>
        /\ booking'.number = FiledNumber(held.flight) /\ booking'.depart = HeldDepart(held.flight)
    BY <1>7 DEF Persist
  <2>2. HeldRecord(held') /\ Picked(held.flight, held.fare)'
    BY <2>1 DEF RightInv, Holding, Picked, ChosenOffer, ChosenClass
  <2> QED BY <2>1, <2>2 DEF RightInv, OffersAreNamed, SnapshotsAreNamed, MockIsShown, Holding, HeldRecord
<1>8. CASE UNCHANGED vars
  BY <1>8 DEF vars, RightInv, OffersAreNamed, SnapshotsAreNamed, MockIsShown, Holding, HeldRecord,
              Picked, ChosenOffer, ChosenClass
<1> QED BY <1>1, <1>2, <1>3, <1>4, <1>5, <1>6, <1>7, <1>8, SearchShows, HoldIsRight DEF Next

-----------------------------------------------------------------------------
(* The invariant of the reservations: what is learnt of them, from either  *)
(* source, is the codes, the prices and the limits the gateway filed.      *)

RowsFit(rows) ==
    /\ DOMAIN rows \in {1..1, 1..2} /\ rows = [i \in DOMAIN rows |-> rows[i]]
    /\ \A i \in DOMAIN rows :
          /\ rows[i] = [pnr |-> rows[i].pnr, total |-> rows[i].total, limit |-> rows[i].limit]
          /\ rows[i].limit \in Moment \ {Null} /\ rows[i].pnr # Foreign.pnr
    /\ \A i, j \in DOMAIN rows : rows[i].pnr = rows[j].pnr => i = j

\* The last answer named all reservations, or none.
InfoFits(info, rows) ==
    /\ DOMAIN info \in {{}, DOMAIN rows}
    /\ \A i \in DOMAIN info : info[i].pnr = rows[i].pnr

Covered(pnrs, rows) ==
    /\ DOMAIN pnrs = DOMAIN rows
    /\ \A i \in DOMAIN rows : pnrs[i].pnr = rows[i].pnr /\ pnrs[i].limit = rows[i].limit

CoverInv ==
    /\ pc \in {"pricing", "fallback"} => RowsFit(held.rows) /\ InfoFits(held.info, held.rows)
    /\ pc \in {"priced", "booked"} =>
          RowsFit(held.rows) /\ held.total = Sum(held.rows) /\ Covered(held.pnrs, held.rows)
    /\ pc = "booked" => /\ booking.net = held.total
                        /\ booking.deadline = Deadline /\ ~WindowTooShort(Deadline)
                        /\ booking.pnrs = StoredPnrs(held.pnrs, HeldDepart(held.flight))

\* Rows with a price for each code cover them, whatever the last answer said of prices.
LEMMA ExtractedPnrsCover ==
    ASSUME NEW rows, RowsFit(rows), NEW info, InfoFits(info, rows), DOMAIN info = DOMAIN rows, NEW total
    PROVE  Covered(ExtractPnrs(info, [total |-> total, byPnr |-> rows]), rows)
<1> DEFINE pnrs == ExtractPnrs(info, [total |-> total, byPnr |-> rows])
<1>1. DOMAIN pnrs = DOMAIN rows
  BY DEF ExtractPnrs
<1>2. ASSUME NEW i \in DOMAIN rows
      PROVE  pnrs[i].pnr = rows[i].pnr /\ pnrs[i].limit = rows[i].limit
  <2>1. {k \in DOMAIN rows : rows[k].pnr = info[i].pnr} = {i}
    BY DEF RowsFit, InfoFits
  <2>2. SmallestOf({i}) = i
    BY SmallestIs DEF RowsFit
  <2>3. pnrs[i].limit = FirstOf(<<rows[i].limit, info[i].limit>>) /\ pnrs[i].pnr = info[i].pnr
    BY <2>1, <2>2 DEF ExtractPnrs
  <2>4. rows[i].limit # Null
    BY DEF RowsFit
  <2> QED BY <2>3, <2>4, FirstOfTwo DEF InfoFits
<1> QED BY <1>1, <1>2 DEF Covered

\* A row of an answer has its price, or is shown without.
LEMMA ShownRows ==
    ASSUME NEW rows, RowsFit(rows), NEW priced, NEW i \in DOMAIN rows
    PROVE  /\ DOMAIN Shown(rows, priced) = DOMAIN rows
           /\ Shown(rows, priced)[i].pnr = rows[i].pnr
           /\ HasPrice(Shown(rows, priced)[i]) => Shown(rows, priced)[i] = rows[i]
<1>1. DOMAIN Shown(rows, priced) = DOMAIN rows
  BY DEF Shown
<1>2. Shown(rows, priced)[i] = IF i \in priced THEN rows[i] ELSE [rows[i] EXCEPT !.total = Null]
  BY DEF Shown
<1>3. PICK row : row = rows[i] /\ row = [pnr |-> row.pnr, total |-> row.total, limit |-> row.limit]
  BY DEF RowsFit
<1>4. PICK bare : bare = [row EXCEPT !.total = Null]
  OBVIOUS
<1>5. bare.pnr = row.pnr /\ bare.total = Null
  BY <1>3, <1>4
<1>6. ~HasPrice(bare)
  BY <1>5 DEF HasPrice, ReadMoney
<1> QED BY <1>1, <1>2, <1>3, <1>4, <1>5, <1>6

LEMMA TicketInfoGivesAll ==
    ASSUME NEW rows, RowsFit(rows), NEW priced, PricingFromTicketInfo(Shown(rows, priced)) # Null
    PROVE  Shown(rows, priced) = rows /\ PricingFromTicketInfo(Shown(rows, priced)) = Pricing(rows)
<1> DEFINE info == Shown(rows, priced)
<1>1. PricingFromTicketInfo(info) = Pricing(info) /\ \A i \in DOMAIN info : HasPrice(info[i])
  BY DEF PricingFromTicketInfo
<1>2. info = [i \in DOMAIN rows |-> info[i]]
  BY DEF Shown
<1>3. \A i \in DOMAIN rows : info[i] = rows[i]
  BY <1>1, ShownRows
<1>4. info = rows
  <2> HIDE DEF info
  <2> QED BY <1>2, <1>3 DEF RowsFit
<1> QED BY <1>1, <1>4

LEMMA ListBookingGivesAll ==
    ASSUME NEW rows, RowsFit(rows), NEW priced, NEW codes,
           codes = [i \in DOMAIN rows |-> rows[i].pnr],
           PricingFromListBooking(<<Foreign>> \o Shown(rows, priced), codes) # Null
    PROVE  PricingFromListBooking(<<Foreign>> \o Shown(rows, priced), codes) = Pricing(rows)
<1> DEFINE shown == Shown(rows, priced)
           list == <<Foreign>> \o shown
           of(c) == {k \in DOMAIN list : list[k].pnr = c /\ HasPrice(list[k])}
           last(c) == list[CHOOSE k \in of(c) : \A j \in of(c) : j <= k]
<1>1. PICK n \in {1, 2} : DOMAIN rows = 1..n
  BY DEF RowsFit
<1>2. DOMAIN list = 1..n + 1 /\ list[1] = Foreign /\ \A i \in 1..n : list[i + 1] = shown[i]
  <2>1. PICK S : S = {Foreign} \cup {shown[i] : i \in 1..n}
    OBVIOUS
  <2>2. shown \in Seq(S) /\ Len(shown) = n
    BY <1>1, <2>1 DEF Shown
  <2>3. <<Foreign>> \in Seq(S) /\ Len(<<Foreign>>) = 1
    BY <2>1
  <2> HIDE DEF shown
  <2> QED BY <2>2, <2>3, ConcatProperties
<1>3. ASSUME NEW i \in 1..n PROVE last(codes[i]) = rows[i]
  <2>1. of(codes[i]) # {}
    BY <1>1, <1>3 DEF PricingFromListBooking
  <2>2. ASSUME NEW k \in of(codes[i]) PROVE k = i + 1
    <3>1. k # 1
      BY <1>1, <1>2, <2>2 DEF RowsFit
    <3>2. k - 1 \in 1..n /\ list[k] = shown[k - 1]
      BY <1>1, <1>2, <2>2, <3>1
    <3>3. rows[k - 1].pnr = rows[i].pnr
      BY <1>1, <2>2, <3>2, ShownRows
    <3> QED BY <1>1, <3>2, <3>3 DEF RowsFit
  <2>3. of(codes[i]) = {i + 1}
    BY <2>1, <2>2
  <2>4. HasPrice(list[i + 1])
    BY <2>3
  <2>5. list[i + 1] = rows[i]
    BY <1>1, <1>2, <2>4, ShownRows
  <2>6. (CHOOSE k \in {i + 1} : \A j \in {i + 1} : j <= k) = i + 1
    OBVIOUS
  <2> QED BY <2>3, <2>5, <2>6
<1>4. PricingFromListBooking(list, codes) = Pricing([i \in DOMAIN codes |-> last(codes[i])])
  BY DEF PricingFromListBooking
<1> HIDE DEF last
<1>5. [i \in DOMAIN codes |-> last(codes[i])] = rows
  BY <1>1, <1>3 DEF RowsFit
<1> QED BY <1>4, <1>5

\* A hold lasts as long as its first reservation, if any limit can be read.
LEMMA HoldEndsWithFirst ==
    ASSUME NEW rows, RowsFit(rows), NEW pnrs, Covered(pnrs, rows), NEW depart \in Int
    PROVE  /\ HoldExpiresAt(pnrs, depart) \in Int
           /\ \A i \in DOMAIN rows : rows[i].limit # BadTime => HoldExpiresAt(pnrs, depart) <= rows[i].limit
<1>1. /\ Limits(pnrs) \subseteq Int
      /\ \A i \in DOMAIN rows : rows[i].limit # BadTime => rows[i].limit \in Limits(pnrs)
  <2>1. \A i \in DOMAIN rows : rows[i].limit \in Int \cup {BadTime}
    BY DEF RowsFit, Moment
  <2>2. Limits(pnrs) = {ParseTimelimit(rows[i].limit) : i \in DOMAIN rows} \ {Null}
    BY DEF Limits, Covered
  <2> QED BY <2>1, <2>2, NullIsNoValue DEF ParseTimelimit
<1>2. ASSUME NEW S, S \subseteq Int, S # {}, NEW a, NEW b, S \subseteq {a, b}
      PROVE  SmallestOf(S) \in S /\ \A x \in S : SmallestOf(S) <= x
  <2>1. \E x \in S : \A y \in S : x <= y
    <3>1. PICK x \in S : TRUE
      BY <1>2
    <3>2. CASE \A y \in S : x <= y
      BY <3>2
    <3>3. CASE \E y \in S : ~(x <= y)
      <4>1. PICK y \in S : ~(x <= y)
        BY <3>3
      <4>2. y <= x /\ y <= y /\ \A z \in S : z = x \/ z = y
        BY <1>2, <4>1
      <4> QED BY <4>2
    <3> QED BY <3>2, <3>3
  <2> QED BY <2>1 DEF SmallestOf
<1>3. CASE Limits(pnrs) # {}
  <2>1. \E a, b : Limits(pnrs) \subseteq {a, b}
    <3>1. Limits(pnrs) \subseteq {ParseTimelimit(pnrs[1].limit), ParseTimelimit(pnrs[2].limit)}
      BY DEF Limits, Covered, RowsFit
    <3> QED BY <3>1
  <2>2. HoldExpiresAt(pnrs, depart) = SmallestOf(Limits(pnrs))
    BY <1>3 DEF HoldExpiresAt
  <2> QED BY <1>1, <1>2, <1>3, <2>1, <2>2
<1>4. CASE Limits(pnrs) = {}
  <2>1. depart - BeforeDeparture \in Int /\ FallbackHold \in Int
    BY JourneyAssumption
  <2>2. SmallestOf({FallbackHold, depart - BeforeDeparture}) \in Int
    BY <1>2, <2>1
  <2>3. HoldExpiresAt(pnrs, depart) = SmallestOf({FallbackHold, depart - BeforeDeparture})
    BY <1>4 DEF HoldExpiresAt
  <2> QED BY <1>1, <1>4, <2>2, <2>3
<1> QED BY <1>3, <1>4

LEMMA RowsAreFiled ==
    ASSUME NEW total, NEW rows \in Rows(total)
    PROVE  RowsFit(rows)
<1>1. ASSUME NEW l \in LimitPairs, rows = <<[pnr |-> "P1", total |-> total, limit |-> l[1]]>>
      PROVE  RowsFit(rows)
  BY <1>1, JourneyAssumption DEF RowsFit, Foreign
<1>2. ASSUME NEW l \in LimitPairs, NEW half, NEW rest,
             rows = <<[pnr |-> "P1", total |-> half, limit |-> l[1]], [pnr |-> "P2", total |-> rest, limit |-> l[2]]>>
      PROVE  RowsFit(rows)
  <2>1. DOMAIN rows = 1..2 /\ rows[1].pnr = "P1" /\ rows[2].pnr = "P2"
        /\ rows[1].limit = l[1] /\ rows[2].limit = l[2]
    BY <1>2
  <2>2. l[1] \in Moment \ {Null} /\ l[2] \in Moment \ {Null}
    BY JourneyAssumption
  <2>3. /\ rows = [i \in DOMAIN rows |-> rows[i]]
        /\ \A i \in DOMAIN rows : rows[i] = [pnr |-> rows[i].pnr, total |-> rows[i].total, limit |-> rows[i].limit]
    BY <1>2
  <2> QED BY <2>1, <2>2, <2>3 DEF RowsFit, Foreign
<1> QED BY <1>1, <1>2 DEF Rows

LEMMA CoverStarts == Init => CoverInv
BY DEF Init, CoverInv

\* What the provider's hold leaves.
LEMMA HoldCovers ==
    ASSUME RightInv, CoverInv, Hold
    PROVE  CoverInv'
<1>1. pc = "chosen" /\ pc' \notin {"fallback", "booked"}
  BY DEF Hold, HoldFails, HoldAtMuadi, HoldAtMock
<1>2. CASE pc' \notin {"pricing", "priced"}
  BY <1>1, <1>2 DEF CoverInv
<1>3. CASE pc' = "pricing"
  <2>1. HoldAtMuadi(snapshots[ChosenOffer.id])
    BY <1>3 DEF Hold, HoldFails, HoldAtMock
  <2>2. \E f, r, s, total : \E rows \in Rows(total) : held' = Booked(f, r, s, rows)
    BY <1>3, <2>1 DEF HoldAtMuadi, HoldFails
  <2>3. PICK f, r, s, total, rows : RowsFit(rows) /\ held' = Booked(f, r, s, rows)
    BY <2>2, RowsAreFiled
  <2>4. held'.rows = rows /\ held'.info = <<>>
    BY <2>3 DEF Booked
  <2> QED BY <1>1, <1>3, <2>3, <2>4 DEF CoverInv, InfoFits
<1>4. CASE pc' = "priced"
  <2>1. HoldAtMock(snapshots[ChosenOffer.id])
    BY <1>4 DEF Hold, HoldFails, HoldAtMuadi
  <2>2. \E f, r, s, total : \E rows : /\ rows = <<[pnr |-> "OFMOCK", total |-> total, limit |-> MockLimit]>>
                                      /\ held' = Settled(Booked(f, r, s, rows), rows, Pricing(rows))
    BY <1>4, <2>1 DEF HoldAtMock, HoldFails
  <2>3. PICK f, r, s, total, rows : /\ rows = <<[pnr |-> "OFMOCK", total |-> total, limit |-> MockLimit]>>
                                    /\ held' = Settled(Booked(f, r, s, rows), rows, Pricing(rows))
    BY <2>2
  <2>4. RowsFit(rows) /\ InfoFits(rows, rows)
    <3>1. MockLimit \in Moment \ {Null}
      BY NullIsNoValue DEF MockLimit, Clock, Moment
    <3> QED BY <2>3, <3>1 DEF RowsFit, InfoFits, Foreign
  <2>5. /\ held'.rows = rows /\ held'.total = Sum(rows)
        /\ held'.pnrs = ExtractPnrs(rows, [total |-> Sum(rows), byPnr |-> rows])
    BY <2>3 DEF Settled, Booked, Pricing
  <2>6. Covered(held'.pnrs, rows)
    BY <2>4, <2>5, ExtractedPnrsCover
  <2> QED BY <1>1, <1>4, <2>4, <2>5, <2>6 DEF CoverInv
<1> QED BY <1>2, <1>3, <1>4

LEMMA SettlingCovers ==
    ASSUME HeldRecord(held), NEW rows, rows = held.rows, RowsFit(rows), NEW info, InfoFits(info, rows),
           DOMAIN info = DOMAIN rows, held' = Settled(held, info, Pricing(rows)), pc' = "priced"
    PROVE  CoverInv'
<1>1. held'.rows = rows /\ held'.total = Sum(rows) /\ held'.pnrs = ExtractPnrs(info, [total |-> Sum(rows), byPnr |-> rows])
  BY DEF HeldRecord, Settled, Pricing
<1>2. Covered(held'.pnrs, rows)
  BY <1>1, ExtractedPnrsCover
<1> QED BY <1>1, <1>2 DEF CoverInv

LEMMA TicketInfoCovers ==
    ASSUME RightInv, CoverInv, NEW listed \in BOOLEAN, NEW priced, AskTicketInfo(listed, priced)
    PROVE  CoverInv'
<1> DEFINE info == IF listed THEN Shown(held.rows, priced) ELSE <<>>
<1>1. pc = "pricing" /\ HeldRecord(held) /\ RowsFit(held.rows)
  BY DEF AskTicketInfo, RightInv, CoverInv, Holding
<1>2. CASE PricingFromTicketInfo(info) # Null
  <2>1. listed /\ info = Shown(held.rows, priced)
    BY <1>2 DEF PricingFromTicketInfo
  <2>2. info = held.rows /\ PricingFromTicketInfo(info) = Pricing(held.rows)
    BY <1>1, <1>2, <2>1, TicketInfoGivesAll
  <2>3. held' = Settled(held, info, Pricing(held.rows)) /\ pc' = "priced"
    BY <1>2, <2>2 DEF AskTicketInfo
  <2>4. InfoFits(info, held.rows) /\ DOMAIN info = DOMAIN held.rows
    BY <2>2 DEF InfoFits
  <2> HIDE DEF info
  <2> QED BY <1>1, <2>3, <2>4, SettlingCovers
<1>3. CASE PricingFromTicketInfo(info) = Null
  <2>1. held' = [held EXCEPT !.info = Shown(info, {})] /\ pc' \in {"pricing", "fallback"}
    BY <1>1, <1>3 DEF AskTicketInfo
  <2>2. held'.rows = held.rows /\ held'.info = Shown(info, {})
    BY <1>1, <2>1 DEF HeldRecord
  <2>3. InfoFits(Shown(info, {}), held.rows)
    <3>1. DOMAIN Shown(info, {}) = DOMAIN info /\ \A i \in DOMAIN info : Shown(info, {})[i] = [info[i] EXCEPT !.total = Null]
      BY DEF Shown
    <3>2. CASE ~listed
      BY <3>1, <3>2 DEF InfoFits
    <3>3. CASE listed
      <4>1. DOMAIN info = DOMAIN held.rows
        BY <1>1, <3>3, ShownRows DEF Shown
      <4>2. ASSUME NEW i \in DOMAIN info PROVE Shown(info, {})[i].pnr = held.rows[i].pnr
        <5>1. info[i].pnr = held.rows[i].pnr
          BY <1>1, <3>3, <4>1, ShownRows
        <5>2. ASSUME NEW row, NEW bare, bare = [row EXCEPT !.total = Null] PROVE bare.pnr = row.pnr
          BY <5>2
        <5> HIDE DEF info
        <5> QED BY <3>1, <5>1, <5>2
      <4> QED BY <3>1, <4>1, <4>2 DEF InfoFits
    <3> QED BY <3>2, <3>3
  <2> QED BY <1>1, <2>1, <2>2, <2>3 DEF CoverInv
<1> QED BY <1>2, <1>3

LEMMA ListBookingCovers ==
    ASSUME RightInv, CoverInv, NEW priced, AskListBooking(priced)
    PROVE  CoverInv'
<1> DEFINE codes == PnrCodes(held.info)
           pricing == PricingFromListBooking(<<Foreign>> \o Shown(held.rows, priced), codes)
<1>1. pc = "fallback" /\ HeldRecord(held) /\ RowsFit(held.rows) /\ InfoFits(held.info, held.rows)
  BY DEF AskListBooking, RightInv, CoverInv, Holding
<1>2. CASE codes # <<>> /\ pricing # Null
  <2>1. DOMAIN held.info # {}
    <3>1. ASSUME DOMAIN held.info = {} PROVE codes = <<>>
      BY <3>1 DEF PnrCodes
    <3> QED BY <1>2, <3>1
  <2>2. DOMAIN held.info = DOMAIN held.rows /\ codes = [i \in DOMAIN held.rows |-> held.rows[i].pnr]
    BY <1>1, <2>1 DEF InfoFits, PnrCodes
  <2>3. held' = Settled(held, held.info, pricing) /\ pc' = "priced"
    BY <1>2 DEF AskListBooking
  <2>4. pricing = Pricing(held.rows)
    BY <1>1, <1>2, <2>2, ListBookingGivesAll
  <2> HIDE DEF codes, pricing
  <2> QED BY <1>1, <2>2, <2>3, <2>4, SettlingCovers
<1>3. CASE ~(codes # <<>> /\ pricing # Null)
  <2>1. held' = held /\ pc' \in {"fallback", "unpriced"}
    BY <1>1, <1>3 DEF AskListBooking, HoldFails
  <2> QED BY <1>1, <2>1 DEF CoverInv
<1> QED BY <1>2, <1>3

LEMMA CoverIsKept ==
    ASSUME RightInv, CoverInv, [Next]_vars
    PROVE  CoverInv'
<1>1. ASSUME NEW q \in Queries, NEW answered \in SUBSET Airlines, NEW loaded \in BOOLEAN, NEW lost \in BOOLEAN,
             Search(q, answered, loaded, lost)
      PROVE  CoverInv'
  BY <1>1 DEF Search, CoverInv
<1>2. ASSUME NEW q \in Queries, OtherSearch(q) PROVE CoverInv'
  BY <1>2 DEF OtherSearch, CoverInv
<1>3. CASE Reprice \/ ChangeRules \/ SnapshotExpires
  BY <1>3 DEF Reprice, ChangeRules, SnapshotExpires, CoverInv
<1>4. ASSUME NEW o \in DOMAIN offers, NEW party \in Parties, NEW tier \in Tiers,
             CustomerPicks(o, party, tier) \/ \E i \in 1..3 : HunterPicks(o, i, party, tier)
      PROVE  CoverInv'
  BY <1>4 DEF CustomerPicks, HunterPicks, Pick, CoverInv
<1>5. CASE RefuseShortWindow
  BY <1>5 DEF RefuseShortWindow, HoldFails, CoverInv
<1>6. ASSUME NEW loaded \in BOOLEAN, NEW located \in BOOLEAN, Persist(loaded, located) PROVE CoverInv'
  <2>1. /\ pc = "priced" /\ pc' = "booked" /\ held' = held /\ ~WindowTooShort(Deadline)
        /\ booking'.net = held.total /\ booking'.deadline = Deadline
        /\ booking'.pnrs = StoredPnrs(held.pnrs, HeldDepart(held.flight))
    BY <1>6 DEF Persist
  <2> QED BY <2>1 DEF CoverInv, Deadline
<1>7. CASE UNCHANGED vars
  BY <1>7 DEF vars, CoverInv, Deadline
<1> QED BY <1>1, <1>2, <1>3, <1>4, <1>5, <1>6, <1>7, HoldCovers, TicketInfoCovers, ListBookingCovers DEF Next

\* However late and from whichever source the prices come, a booking has the codes of all its
\* reservations, charges what they cost together, and must be paid the buffer before the
\* first of them lapses (real-muadi.provider.ts, reconcileHoldPricing; booking.service.ts,
\* resolveHoldExpiresAt).
THEOREM EveryReservationIsCovered == Spec => []ReservationsAreCovered
<1>1. ASSUME RightInv, CoverInv PROVE ReservationsAreCovered
  <2> SUFFICES ASSUME pc = "booked"
               PROVE  /\ Codes(booking.pnrs) = Codes(held.rows)
                      /\ booking.net = Sum(held.rows)
                      /\ booking.deadline > MinWindow
                      /\ \A i \in DOMAIN held.rows :
                           held.rows[i].limit # BadTime => booking.deadline + PaymentBuffer <= held.rows[i].limit
    BY DEF ReservationsAreCovered
  <2>1. /\ RowsFit(held.rows) /\ Covered(held.pnrs, held.rows) /\ booking.net = Sum(held.rows)
        /\ booking.deadline = Deadline /\ ~WindowTooShort(Deadline)
        /\ booking.pnrs = StoredPnrs(held.pnrs, HeldDepart(held.flight))
        /\ HeldDepart(held.flight) \in Int
    BY <1>1 DEF CoverInv, RightInv, Holding, Picked
  <2>2. Codes(booking.pnrs) = Codes(held.rows)
    BY <2>1 DEF Codes, StoredPnrs, Covered
  <2>3. PICK end \in Int : /\ end = HoldExpiresAt(held.pnrs, HeldDepart(held.flight))
                           /\ \A i \in DOMAIN held.rows : held.rows[i].limit # BadTime => end <= held.rows[i].limit
    BY <2>1, HoldEndsWithFirst
  <2>4. booking.deadline = end - PaymentBuffer /\ PaymentBuffer \in Nat /\ MinWindow \in Nat
    BY <2>1, <2>3, JourneyAssumption DEF Deadline, PaymentDeadline
  <2>5. ~(booking.deadline <= MinWindow)
    BY <2>1 DEF WindowTooShort
  <2>6. booking.deadline > MinWindow /\ booking.deadline + PaymentBuffer = end
    BY <2>4, <2>5
  <2> QED BY <2>1, <2>2, <2>3, <2>6
<1> QED BY <1>1, RightStarts, RightIsKept, CoverStarts, CoverIsKept, PTL DEF Spec

-----------------------------------------------------------------------------
(* From the answer to the offer on the screen, and back.                   *)

LEMMA FirstOfThree ==
    ASSUME NEW a, NEW b, NEW c
    PROVE  FirstOf(<<a, b, c>>) = IF a # Null THEN a ELSE IF b # Null THEN b ELSE c
<1> DEFINE s == <<a, b, c>>
           present == {i \in DOMAIN s : s[i] # Null}
<1>1. DOMAIN s = {1, 2, 3} /\ s[1] = a /\ s[2] = b /\ s[3] = c
  OBVIOUS
<1>2. CASE a # Null
  BY <1>1, <1>2, FirstIsHead
<1>3. CASE a = Null /\ b # Null
  <2>1. 2 \in present /\ present \subseteq Int /\ \A y \in present : 2 <= y
    BY <1>1, <1>3
  <2>2. SmallestOf(present) = 2
    BY <2>1, SmallestIs
  <2> QED BY <1>1, <1>3, <2>1, <2>2 DEF FirstOf
<1>4. CASE a = Null /\ b = Null /\ c # Null
  <2>1. 3 \in present /\ present \subseteq Int /\ \A y \in present : 3 <= y
    BY <1>1, <1>4
  <2>2. SmallestOf(present) = 3
    BY <2>1, SmallestIs
  <2> QED BY <1>1, <1>4, <2>1, <2>2 DEF FirstOf
<1>5. CASE a = Null /\ b = Null /\ c = Null
  <2>1. present = {}
    BY <1>1, <1>5
  <2> QED BY <1>5, <2>1 DEF FirstOf
<1> QED BY <1>2, <1>3, <1>4, <1>5

\* What a mark-up leaves of an offer, and what it makes of its prices.
LEMMA OfferIs ==
    ASSUME NEW f, NEW rs, NEW located, NEW o, o = MarkedUp(rs, located, NormalizeFlight(f))
    PROVE  /\ o.airline = AirlineCode(f) /\ o.segs = Segments(f) /\ o.number = Segments(f)[1].number
           /\ DOMAIN o.fares = DOMAIN f.fares
           /\ \A i \in DOMAIN f.fares :
                /\ o.fares[i].code = FareCode(f.fares[i], i)
                /\ o.fares[i].soldOut = FareClass(f, i).soldOut
                /\ o.fares[i].price = SellPrice(rs, ShownInput(NormalizeFlight(f), FareClass(f, i), located), NetPrice(f, f.fares[i]))
<1> DEFINE n == NormalizeFlight(f)
           Sold(p, c) == SellPrice(rs, ShownInput(n, c, located), p)
<1>1. /\ n.airline = AirlineCode(f) /\ n.segs = Segments(f) /\ n.number = Segments(f)[1].number
      /\ n.fares = FareClasses(f)
      /\ n = [id |-> n.id, airline |-> n.airline, number |-> n.number, segs |-> n.segs, fares |-> n.fares,
              cheapest |-> n.cheapest, minutes |-> n.minutes, direct |-> n.direct]
  BY DEF NormalizeFlight
<1>2. o = [n EXCEPT !.fares = [i \in DOMAIN n.fares |->
                      [n.fares[i] EXCEPT !.price = Sold(n.fares[i].price, n.fares[i])]],
                    !.cheapest = CheapestPrice([i \in DOMAIN n.fares |->
                      [n.fares[i] EXCEPT !.price = Sold(n.fares[i].price, n.fares[i])]])]
  BY DEF MarkedUp
<1> HIDE DEF n, Sold
<1>3. /\ o.airline = n.airline /\ o.segs = n.segs /\ o.number = n.number
      /\ o.fares = [i \in DOMAIN n.fares |-> [n.fares[i] EXCEPT !.price = Sold(n.fares[i].price, n.fares[i])]]
  BY <1>1, <1>2
<1>4. DOMAIN n.fares = DOMAIN f.fares /\ \A i \in DOMAIN f.fares : n.fares[i] = FareClass(f, i)
  BY <1>1 DEF FareClasses
<1>5. ASSUME NEW i \in DOMAIN f.fares
      PROVE  /\ o.fares[i].code = FareCode(f.fares[i], i)
             /\ o.fares[i].soldOut = FareClass(f, i).soldOut
             /\ o.fares[i].price = Sold(NetPrice(f, f.fares[i]), FareClass(f, i))
  <2>1. PICK c : c = FareClass(f, i) /\ o.fares[i] = [c EXCEPT !.price = Sold(c.price, c)]
    BY <1>3, <1>4
  <2>2. /\ c = [code |-> c.code, name |-> c.name, price |-> c.price, soldOut |-> c.soldOut]
        /\ c.code = FareCode(f.fares[i], i) /\ c.price = NetPrice(f, f.fares[i])
    BY <2>1 DEF FareClass
  <2>3. PICK p : p = Sold(c.price, c)
    OBVIOUS
  <2>4. o.fares[i] = [c EXCEPT !.price = p]
    BY <2>1, <2>3
  <2>5. o.fares[i].code = c.code /\ o.fares[i].soldOut = c.soldOut /\ o.fares[i].price = p
    BY <2>2, <2>4
  <2> QED BY <2>1, <2>2, <2>3, <2>5
<1> QED BY <1>1, <1>3, <1>4, <1>5 DEF n, Sold

\* Answers, with what the provider adds, and the mock's flights are raw flights.
LEMMA AnswersAreFlights ==
    ASSUME NEW m \in Markets, NEW airline \in Airlines
    PROVE  /\ AnswerOf(m, airline) \in Seq(RawFlight)
           /\ DOMAIN AnswerOf(m, airline) = DOMAIN m[airline].flights
           /\ \A i \in DOMAIN m[airline].flights :
                LET f == m[airline].flights[i]
                    g == AnswerOf(m, airline)[i]
                IN  /\ g.airline = (IF f.airline # Null THEN f.airline ELSE airline)
                    /\ g.carrier = f.carrier /\ g.segs = f.segs /\ g.number = f.number
<1>1. m[airline].flights \in Seq(RawFlight) /\ m[airline].fees \in Optional(Seq(Int))
  BY JourneyAssumption DEF GatewayAnswer
<1>2. ASSUME NEW f \in RawFlight, NEW g, g = WithAirline(f, airline, m[airline].fees)
      PROVE  /\ g \in RawFlight /\ g.airline = (IF f.airline # Null THEN f.airline ELSE airline)
             /\ g.carrier = f.carrier /\ g.segs = f.segs /\ g.number = f.number
  <2>1. PICK a, e : a = FirstOf(<<f.airline, airline>>) /\ e = FirstOf(<<f.fees, f.fee, m[airline].fees>>)
    OBVIOUS
  <2>2. g = [f EXCEPT !.airline = a, !.fees = e]
    BY <1>2, <2>1 DEF WithAirline
  <2>3. a = IF f.airline # Null THEN f.airline ELSE airline
    BY <2>1, FirstOfTwo
  <2>4. a \in Optional(STRING) /\ e \in Optional(Seq(Int))
    <3>1. f.airline \in Optional(STRING) /\ f.fees \in Optional(Seq(Int)) /\ f.fee \in Optional(Seq(Int))
      BY DEF RawFlight
    <3>2. airline \in Optional(STRING)
      BY JourneyAssumption DEF Optional
    <3>3. e \in {f.fees, f.fee, m[airline].fees, Null}
      BY <2>1, FirstOfThree
    <3>4. Null \in Optional(Seq(Int))
      BY DEF Optional
    <3> QED BY <1>1, <2>3, <3>1, <3>2, <3>3, <3>4
  <2>5. /\ g.airline = a /\ g.carrier = f.carrier /\ g.segs = f.segs /\ g.number = f.number
    BY <2>2 DEF RawFlight
  <2>6. g \in RawFlight
    BY <2>2, <2>4 DEF RawFlight
  <2> QED BY <2>3, <2>5, <2>6
<1>3. AnswerOf(m, airline) = [i \in DOMAIN m[airline].flights |-> WithAirline(m[airline].flights[i], airline, m[airline].fees)]
  BY DEF AnswerOf
<1>4. \A i \in DOMAIN m[airline].flights : m[airline].flights[i] \in RawFlight
  BY <1>1
<1>5. PICK n \in Nat : DOMAIN m[airline].flights = 1..n
  BY <1>1
<1>6. AnswerOf(m, airline) \in [1..n -> RawFlight]
  BY <1>2, <1>3, <1>4, <1>5
<1> QED BY <1>2, <1>3, <1>4, <1>5, <1>6

\* The flights of a search at the gateway are those of the airlines that answered.
LEMMA RawFlightsAreAnswers ==
    ASSUME provider # "mock", NEW m \in Markets, NEW answered \in SUBSET Airlines, NEW raw, raw = RawFlights(m, answered)
    PROVE  /\ \A i \in DOMAIN raw : \E a \in answered : \E j \in DOMAIN AnswerOf(m, a) : raw[i] = AnswerOf(m, a)[j]
           /\ \A a \in answered : \A j \in DOMAIN AnswerOf(m, a) : \E i \in DOMAIN raw : raw[i] = AnswerOf(m, a)[j]
<1> DEFINE of(a) == IF a \in answered THEN AnswerOf(m, a) ELSE <<>>
           s == of("VN")
           t == of("VJ")
<1>1. raw = s \o t
  BY DEF RawFlights
<1>2. s \in Seq(RawFlight) /\ t \in Seq(RawFlight)
  BY AnswersAreFlights DEF Airlines
<1>3. \A a \in answered : a = "VN" \/ a = "VJ"
  BY DEF Airlines
<1>4. \A i \in DOMAIN s : "VN" \in answered /\ s = AnswerOf(m, "VN")
  OBVIOUS
<1>5. \A i \in DOMAIN t : "VJ" \in answered /\ t = AnswerOf(m, "VJ")
  OBVIOUS
<1>6. /\ "VN" \in answered => s = AnswerOf(m, "VN")
      /\ "VJ" \in answered => t = AnswerOf(m, "VJ")
  OBVIOUS
<1> HIDE DEF of, s, t
<1>7. /\ \A i \in DOMAIN raw : (i \in DOMAIN s /\ raw[i] = s[i]) \/ (i - Len(s) \in DOMAIN t /\ raw[i] = t[i - Len(s)])
      /\ \A i \in DOMAIN s : i \in DOMAIN raw /\ raw[i] = s[i]
      /\ \A i \in DOMAIN t : i + Len(s) \in DOMAIN raw /\ raw[i + Len(s)] = t[i]
  <2>1. Len(s) \in Nat /\ Len(t) \in Nat /\ DOMAIN s = 1..Len(s) /\ DOMAIN t = 1..Len(t)
    BY <1>2
  <2>2. DOMAIN raw = 1..Len(s) + Len(t)
    BY <1>1, <1>2, ConcatProperties
  <2>3. /\ \A i \in 1..Len(s) : raw[i] = s[i]
        /\ \A i \in Len(s) + 1..Len(s) + Len(t) : raw[i] = t[i - Len(s)]
    BY <1>1, <1>2, ConcatProperties
  <2> QED BY <2>1, <2>2, <2>3
<1>8. ASSUME NEW i \in DOMAIN raw
      PROVE  \E a \in answered : \E j \in DOMAIN AnswerOf(m, a) : raw[i] = AnswerOf(m, a)[j]
  BY <1>4, <1>5, <1>7
<1>9. ASSUME NEW a \in answered, NEW j \in DOMAIN AnswerOf(m, a)
      PROVE  \E i \in DOMAIN raw : raw[i] = AnswerOf(m, a)[j]
  BY <1>3, <1>6, <1>7
<1> QED BY <1>8, <1>9

-----------------------------------------------------------------------------
\* A flight as airlines answer it: sold and flown by one airline, its first leg named.
Ordinary(f) ==
    /\ f \in RawFlight /\ f.airline # Null
    /\ f.carrier \in {Null, f.airline}
Named(f) == f.segs # <<>> => (f.segs[1].number # Null \/ f.number = Null) /\ f.segs[1].to # Null

LEMMA AnswersAreOrdinary ==
    ASSUME OwnFlights, NEW m \in Markets, NEW airline \in Airlines, NEW i \in DOMAIN AnswerOf(m, airline)
    PROVE  /\ Ordinary(AnswerOf(m, airline)[i]) /\ AnswerOf(m, airline)[i].airline = airline
           /\ LegsAreNamed => Named(AnswerOf(m, airline)[i])
<1> DEFINE f == m[airline].flights[i]
           g == AnswerOf(m, airline)[i]
<1>1. i \in DOMAIN m[airline].flights /\ g \in RawFlight
  BY AnswersAreFlights
<1>2. /\ g.airline = (IF f.airline # Null THEN f.airline ELSE airline)
      /\ g.carrier = f.carrier /\ g.segs = f.segs /\ g.number = f.number
  BY <1>1, AnswersAreFlights
<1>3. {f.airline, f.carrier} \subseteq {Null, airline} /\ airline # Null
  BY <1>1, JourneyAssumption DEF OwnFlights
<1>4. LegsAreNamed /\ f.segs # <<>> => (f.segs[1].number # Null \/ f.number = Null) /\ f.segs[1].to # Null
  BY <1>1 DEF LegsAreNamed
<1> HIDE DEF f, g
<1>5. g.airline = airline
  BY <1>2, <1>3
<1> QED BY <1>1, <1>2, <1>3, <1>4, <1>5 DEF Ordinary, Named, f, g

LEMMA MockIsOrdinary ==
    ASSUME NEW j \in 1..4
    PROVE  Ordinary(Mock[j]) /\ Named(Mock[j])
<1>1. /\ Mock[j] \in RawFlight /\ Mock[j].airline # Null
      /\ Mock[j].segs[1].number # Null /\ Mock[j].segs[1].to # Null
  BY JourneyAssumption DEF Mock
<1>2. Mock[j].carrier = Null
  BY DEF Mock, BuildMockFlights, MockFlight
<1> QED BY <1>1, <1>2 DEF Ordinary, Named

\* The number a flight is filed under is made of the one that is shown of it.
LEMMA NumberIsFiled ==
    ASSUME NEW f, Ordinary(f)
    PROVE  FiledNumber(f) = Filed(HeldNumber(f), NumberGiven(f))
<1> DEFINE c == FirstOf(<<FirstSegment(f, "carrier"), f.airline, f.carrier>>)
           n == NumberGiven(f)
<1>1. f.airline # Null /\ f.carrier \in {Null, f.airline} /\ f.airline \in Optional(STRING)
      /\ f.number \in Optional(Seq(STRING)) /\ f.segs \in Seq(RawSegment)
  BY DEF Ordinary, RawFlight
<1>2. FirstSegment(f, "carrier") \in Optional(STRING) /\ FirstSegment(f, "number") \in Optional(Seq(STRING))
  <2>1. CASE f.segs = <<>>
    BY <2>1 DEF FirstSegment, Optional
  <2>2. CASE f.segs # <<>>
    <3>1. Head(f.segs) \in RawSegment
      BY <1>1, <2>2
    <3> QED BY <2>2, <3>1 DEF FirstSegment, RawSegment
  <2> QED BY <2>1, <2>2
<1>3. FirstOf(<<FirstSegment(f, "carrier"), f.carrier, f.airline>>) = c /\ c \in STRING /\ c # Null
  BY <1>1, <1>2, FirstOfThree DEF Optional
<1>4. n \in Optional(Seq(STRING)) /\ n = FirstOf(<<FirstSegment(f, "number"), f.number>>)
  BY <1>1, <1>2, FirstOfTwo DEF NumberGiven
<1>5. HeldNumber(f) = FlightNumber(c, n)
  BY <1>4 DEF HeldNumber
<1>6. FiledNumber(f) = IF n \in {Null, <<>>} THEN n ELSE <<c>> \o n
  BY <1>3 DEF FiledNumber
<1> HIDE DEF c, n
<1>7. CASE n \in {Null, <<>>}
  BY <1>6, <1>7 DEF Filed, n
<1>8. CASE n \notin {Null, <<>>}
  <2>1. n \in Seq(STRING) /\ n # <<>> /\ Head(<<c>> \o n) = c
    BY <1>3, <1>4, <1>8 DEF Optional
  <2>2. HeldNumber(f) = IF c = Head(n) THEN n ELSE <<c>> \o n
    BY <1>3, <1>5, <1>8 DEF FlightNumber
  <2>3. Filed(HeldNumber(f), n) = <<c>> \o n
    BY <1>8, <2>1, <2>2 DEF Filed
  <2> QED BY <1>6, <1>8, <2>3 DEF n
<1> QED BY <1>7, <1>8

\* An offer shows the number and the date the hold will look for.
LEMMA ShownAsHeld ==
    ASSUME NEW f, Ordinary(f)
    PROVE  /\ AirlineCode(f) = f.airline
           /\ Segments(f)[1].number = HeldNumber(f)
           /\ HeldDepart(f) # Null => Segments(f)[1].depart = HeldDepart(f)
<1>0. f.airline # Null /\ f.segs \in Seq(RawSegment)
  BY DEF Ordinary, RawFlight
<1>1. AirlineCode(f) = f.airline
  BY <1>0, FirstOfThree DEF AirlineCode
<1>2. CASE f.segs # <<>>
  <2>1. PICK s : s = f.segs[1] /\ s = Head(f.segs) /\ 1 \in DOMAIN f.segs
    BY <1>0, <1>2
  <2>2. Segments(f)[1] = NormalizeSegment(f, s)
    BY <1>2, <2>1 DEF Segments, RawSegments
  <2>3. /\ NormalizeSegment(f, s).number = FlightNumber(FirstOf(<<s.carrier, f.airline>>), FirstOf(<<s.number, f.number>>))
        /\ NormalizeSegment(f, s).depart = FirstOf(<<s.depart, f.departAt>>)
    BY <1>1 DEF NormalizeSegment
  <2>4. FirstOf(<<s.carrier, f.airline, f.carrier>>) = FirstOf(<<s.carrier, f.airline>>)
    BY <1>0, FirstOfTwo, FirstOfThree
  <2>5. HeldNumber(f) = FlightNumber(FirstOf(<<s.carrier, f.airline, f.carrier>>), FirstOf(<<s.number, f.number>>))
    BY <1>2, <2>1 DEF HeldNumber, FirstSegment
  <2>6. HeldDepart(f) = FirstOf(<<s.depart, f.departAt>>)
    BY <1>2, <2>1 DEF HeldDepart, FirstSegment
  <2> QED BY <1>1, <2>2, <2>3, <2>4, <2>5, <2>6
<1>3. CASE f.segs = <<>>
  <2>1. PICK s : s = FallbackSegment(f) /\ Segments(f)[1] = NormalizeSegment(f, s)
    BY <1>3 DEF Segments, RawSegments
  <2>2. s.carrier = f.airline /\ s.number = f.number /\ s.depart = FirstOf(<<f.departAt, f.departDay>>)
    BY <1>0, <1>3, <2>1, FirstOfTwo DEF FallbackSegment, Ordinary
  <2>3. NormalizeSegment(f, s).number = FlightNumber(f.airline, f.number)
    <3>1. FirstOf(<<s.carrier, f.airline>>) = f.airline /\ FirstOf(<<s.number, f.number>>) = f.number
      BY <1>0, <2>2, FirstOfTwo
    <3> QED BY <1>1, <3>1 DEF NormalizeSegment
  <2>4. HeldNumber(f) = FlightNumber(f.airline, f.number)
    <3>1. FirstSegment(f, "carrier") = Null /\ FirstSegment(f, "number") = Null
      BY <1>3 DEF FirstSegment
    <3>2. /\ FirstOf(<<FirstSegment(f, "carrier"), f.airline, f.carrier>>) = f.airline
          /\ FirstOf(<<FirstSegment(f, "number"), f.number>>) = f.number
      BY <1>0, <3>1, FirstOfTwo, FirstOfThree
    <3> QED BY <3>2 DEF HeldNumber
  <2>5. HeldDepart(f) = f.departAt
    BY <1>3, FirstOfTwo DEF HeldDepart, FirstSegment
  <2>6. HeldDepart(f) # Null => NormalizeSegment(f, s).depart = HeldDepart(f)
    BY <2>2, <2>5, FirstOfTwo DEF NormalizeSegment
  <2> QED BY <1>1, <2>1, <2>3, <2>4, <2>6
<1> QED BY <1>2, <1>3

\* The first leg as it is shown, and its ends are there.
LEMMA LegIsShown ==
    ASSUME NEW f, Ordinary(f)
    PROVE  /\ FirstLeg(f).number = Segments(f)[1].number /\ FirstLeg(f).depart = Segments(f)[1].depart
           /\ FirstLeg(f).from = Segments(f)[1].from /\ FirstLeg(f).to = Segments(f)[1].to
           /\ ~Malformed(f) => Null \notin {FirstLeg(f).from, FirstLeg(f).to}
<1> DEFINE s == RawSegments(f)[1]
<1>1. 1 \in DOMAIN RawSegments(f)
  BY DEF RawSegments, RawFlight, Ordinary
<1>2. Segments(f)[1] = NormalizeSegment(f, s)
  BY <1>1 DEF Segments
<1>3. /\ FirstLeg(f).number = HeldNumber(f) /\ FirstLeg(f).depart = FirstOf(<<s.depart, f.departAt>>)
      /\ FirstLeg(f).from = FirstOf(<<s.from, f.from>>) /\ FirstLeg(f).to = FirstOf(<<s.to, f.to>>)
  BY DEF FirstLeg
<1>4. ~Malformed(f) => Null \notin {FirstOf(<<s.from, f.from>>), FirstOf(<<s.to, f.to>>)}
  BY <1>1 DEF Malformed
<1> HIDE DEF s
<1>5. /\ NormalizeSegment(f, s).from = FirstOf(<<s.from, f.from>>) /\ NormalizeSegment(f, s).to = FirstOf(<<s.to, f.to>>)
      /\ NormalizeSegment(f, s).depart = FirstOf(<<s.depart, f.departAt>>)
  BY DEF NormalizeSegment
<1> QED BY <1>2, <1>3, <1>4, <1>5, ShownAsHeld

\* The leg that is asked for is the first leg of the flight that was found.
LEMMA FoundLegIsAskedFor ==
    ASSUME NEW f, Ordinary(f), Named(f), HeldDepart(f) # Null, NEW from, NEW to, from = FirstLeg(f).from, to = FirstLeg(f).to,
           from # Null, to # Null, NEW r, NEW snapshot, NEW asked, asked = HoldRequest(f, r, snapshot).route.segs[1]
    PROVE  /\ <<asked.from, asked.to, asked.depart>> = <<from, to, HeldDepart(f)>>
           /\ FlightNumber(asked.carrier, asked.number) = HeldNumber(f)
<1> DEFINE s == SegmentsOf(f)[1]
           first == FirstOf(<<FirstSegment(f, "from"), f.from, From>>)
           final == FirstOf(<<IF f.segs = <<>> THEN Null ELSE f.segs[Len(f.segs)].to, f.to, To>>)
<1>0. f.airline # Null /\ f.segs \in Seq(RawSegment)
  BY DEF Ordinary, RawFlight
<1>1. asked = [from |-> FirstOf(<<s.from, first>>), to |-> FirstOf(<<s.to, final>>),
               depart |-> FirstOf(<<s.depart, f.departAt>>), number |-> s.number,
               carrier |-> FirstOf(<<s.carrier, f.airline>>), class |-> r.class,
               cabin |-> FirstOf(<<r.info.cabin, "Economy">>)]
  <2>1. 1 \in DOMAIN SegmentsOf(f)
    BY <1>0 DEF SegmentsOf
  <2> QED BY <2>1 DEF HoldRequest, BookRequest, RouteEntry
<1>2. from = FirstOf(<<s.from, f.from>>) /\ to = FirstOf(<<s.to, f.to>>)
  BY DEF FirstLeg, RawSegments, SegmentsOf
<1> HIDE DEF first, final
<1>3. CASE f.segs # <<>>
  <2>1. s = f.segs[1] /\ s = Head(f.segs)
    BY <1>0, <1>3 DEF SegmentsOf
  <2> HIDE DEF s
  <2>2. first = FirstOf(<<s.from, f.from, From>>)
    BY <1>3, <2>1 DEF first, FirstSegment
  <2>3. asked.from = from
    BY <1>1, <1>2, <2>2, FirstOfTwo, FirstOfThree
  <2>4. (s.number # Null \/ f.number = Null) /\ s.to # Null
    BY <1>3, <2>1 DEF Named
  <2>5. asked.to = to
    BY <1>1, <1>2, <2>4, FirstOfTwo
  <2>6. asked.depart = HeldDepart(f)
    BY <1>1, <1>3, <2>1 DEF HeldDepart, FirstSegment
  <2>7. asked.number = FirstOf(<<s.number, f.number>>)
    BY <1>1, <2>4, FirstOfTwo
  <2>8. asked.carrier = FirstOf(<<s.carrier, f.airline, f.carrier>>)
    BY <1>0, <1>1, FirstOfTwo, FirstOfThree
  <2>9. HeldNumber(f) = FlightNumber(asked.carrier, asked.number)
    BY <1>3, <2>1, <2>7, <2>8 DEF HeldNumber, FirstSegment
  <2> QED BY <2>3, <2>5, <2>6, <2>9
<1>4. CASE f.segs = <<>>
  <2>1. s = FallbackSegment(f)
    BY <1>4 DEF SegmentsOf
  <2> HIDE DEF s
  <2>2. /\ s.carrier = f.airline /\ s.number = f.number /\ s.from = f.from /\ s.to = f.to
        /\ s.depart = FirstOf(<<f.departAt, f.departDay>>)
    BY <1>0, <1>4, <2>1, FirstOfTwo DEF FallbackSegment, Ordinary
  <2>3. from = f.from /\ to = f.to
    BY <1>2, <2>2, FirstOfTwo
  <2>4. asked.from = from /\ asked.to = to
    BY <1>1, <2>2, <2>3, FirstOfTwo
  <2>5. HeldDepart(f) = f.departAt
    BY <1>4, FirstOfTwo DEF HeldDepart, FirstSegment
  <2>6. asked.depart = HeldDepart(f)
    BY <1>1, <2>2, <2>5, FirstOfTwo
  <2>7. asked.carrier = f.airline /\ asked.number = f.number
    BY <1>0, <1>1, <2>2, FirstOfTwo
  <2>8. HeldNumber(f) = FlightNumber(f.airline, f.number)
    <3>1. FirstSegment(f, "carrier") = Null /\ FirstSegment(f, "number") = Null
      BY <1>4 DEF FirstSegment
    <3>2. /\ FirstOf(<<FirstSegment(f, "carrier"), f.airline, f.carrier>>) = f.airline
          /\ FirstOf(<<FirstSegment(f, "number"), f.number>>) = f.number
      BY <1>0, <3>1, FirstOfTwo, FirstOfThree
    <3> QED BY <3>2 DEF HeldNumber
  <2> QED BY <2>4, <2>6, <2>7, <2>8
<1> QED BY <1>3, <1>4

-----------------------------------------------------------------------------
(* The price: one computation of it is as good as the other.               *)

\* Of numbers that may be absent, the last of which is there.
LEMMA FirstOfNumbers ==
    ASSUME NEW s, NEW n \in Nat \ {0}, DOMAIN s = 1..n, \A i \in 1..n : s[i] \in Optional(Int), s[n] \in Int
    PROVE  FirstOf(s) \in Int
<1> DEFINE present == {i \in DOMAIN s : s[i] # Null}
<1>1. n \in present /\ present \subseteq Nat
  BY NullIsNoValue
<1>2. FirstOf(s) = s[SmallestOf(present)]
  BY <1>1 DEF FirstOf
<1>3. SmallestOf(present) \in present
  <2> HIDE DEF present
  <2> QED BY <1>1, SmallestIsThere
<1> QED BY <1>2, <1>3 DEF Optional

LEMMA ListedNumbers ==
    ASSUME NEW fees \in Optional(Seq(Int))
    PROVE  Listed(fees) \in Seq(Int)
<1>1. CASE fees = Null
  <2>1. <<>> \in Seq(Int)
    OBVIOUS
  <2> QED BY <1>1, <2>1 DEF Listed
<1>2. CASE fees # Null
  BY <1>2 DEF Listed, Optional
<1> QED BY <1>1, <1>2

LEMMA PriceIsANumber ==
    ASSUME NEW f \in RawFlight, NEW r \in RawFare
    PROVE  NetPrice(f, r) \in Int
<1>1. IssueFee(f, r) \in Int
  <2> DEFINE T == Optional(Int)
             a == <<r.issueFee, f.issueFee>>
             b == Listed(f.fee)
             c == Listed(f.fees)
             s == a \o b \o c \o <<0>>
  <2>1. r.issueFee \in T /\ f.issueFee \in T
    BY DEF RawFlight, RawFare, Amount
  <2>2. a \in Seq(T) /\ <<0>> \in Seq(T) /\ 0 \in Int
    BY <2>1 DEF Optional
  <2>3. b \in Seq(T) /\ c \in Seq(T)
    <3>1. b \in Seq(Int) /\ c \in Seq(Int)
      BY ListedNumbers DEF RawFlight
    <3> HIDE DEF b, c
    <3>2. ASSUME NEW t \in Seq(Int) PROVE t \in Seq(T)
      <4>1. Int \subseteq T
        BY DEF Optional
      <4> HIDE DEF T
      <4>2. t \in [1..Len(t) -> Int] /\ Len(t) \in Nat
        OBVIOUS
      <4>3. t \in [1..Len(t) -> T]
        BY <4>1, <4>2
      <4> QED BY <4>2, <4>3
    <3> QED BY <3>1, <3>2
  <2> HIDE DEF T, a, b, c
  <2>4. a \o b \in Seq(T) /\ a \o b \o c \in Seq(T)
    BY <2>2, <2>3
  <2>5. s \in Seq(T) /\ Len(s) = Len(a \o b \o c) + 1 /\ s[Len(s)] = 0
    BY <2>2, <2>4
  <2> HIDE DEF s
  <2>6. DOMAIN s = 1..Len(s) /\ Len(s) \in Nat \ {0} /\ \A i \in 1..Len(s) : s[i] \in T
    BY <2>4, <2>5
  <2>7. FirstOf(s) \in Int
    <3>1. s[Len(s)] \in Int
      BY <2>5
    <3> QED BY <2>6, <3>1, FirstOfNumbers DEF T
  <2> QED BY <2>7 DEF IssueFee, s, a, b, c
<1>2. r.fareADT \in Optional(Int) /\ r.taxes \in Int /\ r.total \in Optional(Int)
  BY DEF RawFare, Amount
<1>3. CASE r.fareADT # Null
  BY <1>1, <1>2, <1>3 DEF NetPrice, Optional
<1>4. CASE r.fareADT = Null
  <2>1. NetPrice(f, r) = FirstOf(<<r.total, r.taxes + IssueFee(f, r)>>)
    BY <1>4 DEF NetPrice
  <2>2. NetPrice(f, r) \in {r.total, r.taxes + IssueFee(f, r)} /\ (NetPrice(f, r) = r.total => r.total # Null \/ NetPrice(f, r) = r.taxes + IssueFee(f, r))
    BY <2>1, FirstOfTwo
  <2> QED BY <1>1, <1>2, <2>2 DEF Optional
<1> QED BY <1>3, <1>4

\* The sum of one row, and of two.
LEMMA SumOfFew ==
    ASSUME NEW rows, NEW n \in {1, 2}, Len(rows) = n, \A i \in 1..n : rows[i].total \in Int
    PROVE  Sum(rows) = IF n = 1 THEN rows[1].total ELSE rows[1].total + rows[2].total
<1> DEFINE Adds(u) == u = [i \in 0..n |-> IF i = 0 THEN 0 ELSE u[i - 1] + rows[i].total]
           w == [i \in 0..n |-> IF i = 0 THEN 0 ELSE IF i = 1 THEN rows[1].total ELSE rows[1].total + rows[2].total]
           upTo == CHOOSE u : Adds(u)
<1>1. Adds(w)
  <2>1. \A i \in 0..n : w[i] = IF i = 0 THEN 0 ELSE w[i - 1] + rows[i].total
    OBVIOUS
  <2> QED BY <2>1
<1>2. Adds(upTo)
  <2> HIDE DEF Adds
  <2> QED BY <1>1
<1>3. Sum(rows) = upTo[n]
  BY DEF Sum
<1> HIDE DEF upTo
<1>4. upTo[0] = 0 /\ upTo[1] = upTo[0] + rows[1].total /\ (n = 2 => upTo[2] = upTo[1] + rows[2].total)
  BY <1>2
<1> QED BY <1>3, <1>4

\* However the reservations are filed, they cost what was booked.
LEMMA RowsCostTheTotal ==
    ASSUME NEW total \in Int, NEW rows \in Rows(total)
    PROVE  Sum(rows) = total
<1>1. CASE \E l \in LimitPairs : rows = <<[pnr |-> "P1", total |-> total, limit |-> l[1]]>>
  <2>1. Len(rows) = 1 /\ rows[1].total = total
    BY <1>1
  <2> QED BY <2>1, SumOfFew
<1>2. CASE \E l \in LimitPairs : rows = <<[pnr |-> "P1", total |-> total \div 2, limit |-> l[1]],
                                        [pnr |-> "P2", total |-> total - total \div 2, limit |-> l[2]]>>
  <2>1. PICK half \in Int : half = total \div 2
    OBVIOUS
  <2>2. Len(rows) = 2 /\ rows[1].total = half /\ rows[2].total = total - half
    BY <1>2, <2>1
  <2>3. \A i \in 1..2 : rows[i].total \in Int
    BY <2>1, <2>2
  <2>4. Sum(rows) = rows[1].total + rows[2].total
    BY <2>2, <2>3, SumOfFew
  <2> QED BY <2>2, <2>4
<1> QED BY <1>1, <1>2 DEF Rows

\* Rules for everyone ask only for what is in the scope.
LEMMA SameInputSamePrice ==
    ASSUME NEW rs, \A r \in rs : r.tiers = {}, NEW a, NEW b, \A k \in ScopeFields : a[k] = b[k], NEW net
    PROVE  SellPrice(rs, a, net) = SellPrice(rs, b, net)
<1> DEFINE Best(S) == IF S = {} THEN Null ELSE CHOOSE r \in S : \A s \in S : Precedes(r, s)
<1>1. \A r \in rs : MatchesRule(r, a) <=> MatchesRule(r, b)
  BY DEF MatchesRule
<1>2. PICK S : S = {r \in rs : MatchesRule(r, a)} /\ S = {r \in rs : MatchesRule(r, b)}
  BY <1>1
<1>3. MatchedRule(rs, a) = MatchedRule(rs, b)
  <2>1. MatchedRule(rs, a) = Best({r \in rs : MatchesRule(r, a)}) /\ MatchedRule(rs, b) = Best({r \in rs : MatchesRule(r, b)})
    BY DEF MatchedRule
  <2> HIDE DEF Best
  <2> QED BY <1>2, <2>1
<1> QED BY <1>3 DEF SellPrice

\* The first and the last leg that are shown end where the hold says the flight does.
LEMMA EndsAreKept ==
    ASSUME NEW f, Ordinary(f), ~Malformed(f), NEW segs, segs = Segments(f)
    PROVE  /\ segs[1].from = FirstOf(<<FirstSegment(f, "from"), f.from, From>>)
           /\ segs[Len(segs)].to = FirstOf(<<IF f.segs = <<>> THEN Null ELSE f.segs[Len(f.segs)].to, f.to, To>>)
<1>1. f.segs \in Seq(RawSegment)
  BY DEF Ordinary, RawFlight
<1>2. ASSUME NEW n \in Nat, n # 0, DOMAIN RawSegments(f) = 1..n
      PROVE  Len(segs) = n
  BY <1>2 DEF Segments
<1>3. ASSUME NEW i \in DOMAIN RawSegments(f), NEW s, s = RawSegments(f)[i]
      PROVE  /\ segs[i].from = FirstOf(<<s.from, f.from>>) /\ segs[i].to = FirstOf(<<s.to, f.to>>)
             /\ Null \notin {FirstOf(<<s.from, f.from>>), FirstOf(<<s.to, f.to>>)}
  <2>1. segs[i] = NormalizeSegment(f, s)
    BY <1>3 DEF Segments
  <2>2. NormalizeSegment(f, s).from = FirstOf(<<s.from, f.from>>) /\ NormalizeSegment(f, s).to = FirstOf(<<s.to, f.to>>)
    BY DEF NormalizeSegment
  <2>3. Null \notin {FirstOf(<<s.from, f.from>>), FirstOf(<<s.to, f.to>>)}
    BY <1>3 DEF Malformed
  <2> QED BY <2>1, <2>2, <2>3
<1>4. CASE f.segs # <<>>
  <2>1. RawSegments(f) = f.segs /\ Len(f.segs) \in Nat /\ Len(f.segs) # 0 /\ DOMAIN f.segs = 1..Len(f.segs)
    BY <1>1, <1>4 DEF RawSegments
  <2>2. Len(segs) = Len(f.segs)
    BY <1>2, <2>1
  <2>3. PICK s, t : s = f.segs[1] /\ t = f.segs[Len(f.segs)]
    OBVIOUS
  <2>4. /\ segs[1].from = FirstOf(<<s.from, f.from>>) /\ FirstOf(<<s.from, f.from>>) # Null
        /\ segs[Len(segs)].to = FirstOf(<<t.to, f.to>>) /\ FirstOf(<<t.to, f.to>>) # Null
    <3>1. PICK n \in DOMAIN RawSegments(f) : n = Len(f.segs) /\ n = Len(segs)
      BY <2>1, <2>2
    <3>2. 1 \in DOMAIN RawSegments(f) /\ s = RawSegments(f)[1] /\ t = RawSegments(f)[n]
      BY <2>1, <2>3, <3>1
    <3>3. segs[1].from = FirstOf(<<s.from, f.from>>) /\ FirstOf(<<s.from, f.from>>) # Null
      BY <1>3, <3>2
    <3>4. segs[n].to = FirstOf(<<t.to, f.to>>) /\ FirstOf(<<t.to, f.to>>) # Null
      BY <1>3, <3>2
    <3> QED BY <3>1, <3>3, <3>4
  <2>5. FirstSegment(f, "from") = s.from
    BY <1>1, <1>4, <2>3 DEF FirstSegment
  <2>6. /\ FirstOf(<<s.from, f.from, From>>) = FirstOf(<<s.from, f.from>>)
        /\ FirstOf(<<t.to, f.to, To>>) = FirstOf(<<t.to, f.to>>)
    BY <2>4, FirstOfTwo, FirstOfThree
  <2> QED BY <1>4, <2>3, <2>4, <2>5, <2>6
<1>5. CASE f.segs = <<>>
  <2>1. PICK s : s = FallbackSegment(f) /\ RawSegments(f) = <<s>>
    BY <1>5 DEF RawSegments
  <2>2. s.from = f.from /\ s.to = f.to
    BY <2>1 DEF FallbackSegment
  <2>3. DOMAIN RawSegments(f) = 1..1 /\ RawSegments(f)[1] = s
    BY <2>1
  <2>4. Len(segs) = 1
    <3>1. PICK n \in Nat : n = 1
      OBVIOUS
    <3>2. n # 0 /\ DOMAIN RawSegments(f) = 1..n
      BY <2>3, <3>1
    <3> QED BY <1>2, <3>1, <3>2
  <2>5. /\ segs[1].from = FirstOf(<<s.from, f.from>>) /\ segs[1].to = FirstOf(<<s.to, f.to>>)
        /\ Null \notin {FirstOf(<<s.from, f.from>>), FirstOf(<<s.to, f.to>>)}
    BY <1>3, <2>3
  <2>6. segs[1].from = f.from /\ segs[1].to = f.to /\ f.from # Null /\ f.to # Null
    BY <2>2, <2>5, FirstOfTwo
  <2>7. FirstSegment(f, "from") = Null
    BY <1>5 DEF FirstSegment
  <2>8. FirstOf(<<Null, f.from, From>>) = f.from /\ FirstOf(<<Null, f.to, To>>) = f.to
    BY <2>6, FirstOfThree
  <2> QED BY <1>5, <2>4, <2>6, <2>7, <2>8
<1> QED BY <1>4, <1>5

\* A fare with its cabin is marked up in a booking as it was in the search.
LEMMA SameScope ==
    ASSUME NEW f, Ordinary(f), ~Malformed(f), NEW i \in DOMAIN f.fares, f.fares[i].info.cabin # Null,
           NEW snapshot, NEW tier, NEW located, NEW k \in ScopeFields
    PROVE  ShownInput(NormalizeFlight(f), FareClass(f, i), located)[k] = HoldInput(f, f.fares[i], snapshot, tier, located)[k]
<1> DEFINE segs == Segments(f)
           from == segs[1].from
           to   == segs[Len(segs)].to
           r    == f.fares[i]
<1>1. NormalizeFlight(f).airline = f.airline /\ NormalizeFlight(f).segs = segs
  BY ShownAsHeld DEF NormalizeFlight
<1>2. FareClass(f, i).name = r.info.cabin
  <2>1. FareClass(f, i).name = FareName(r, FareCode(r, i))
    BY DEF FareClass
  <2> QED BY <2>1, FirstOfTwo DEF FareName
<1>3. FirstOf(<<r.info.cabin, "Economy">>) = r.info.cabin
  BY FirstOfTwo
<1>4. /\ from = FirstOf(<<FirstSegment(f, "from"), f.from, From>>)
      /\ to = FirstOf(<<IF f.segs = <<>> THEN Null ELSE f.segs[Len(f.segs)].to, f.to, To>>)
  BY EndsAreKept
<1> HIDE DEF segs
<1>5. ShownInput(NormalizeFlight(f), FareClass(f, i), located) =
        [channel |-> "B2C", airline |-> f.airline, cabin |-> r.info.cabin, paxType |-> "ADT",
         from |-> from, to |-> to, domestic |-> Domestic(from, to, located), tier |-> Null]
  BY <1>1, <1>2 DEF ShownInput
<1>6. HoldInput(f, r, snapshot, tier, located) =
        [channel |-> "B2C", airline |-> f.airline, cabin |-> r.info.cabin, paxType |-> "ADT",
         from |-> from, to |-> to, domestic |-> Domestic(from, to, located), tier |-> tier]
  BY <1>3, <1>4 DEF HoldInput
<1> HIDE DEF from, to, r
<1> QED BY <1>5, <1>6 DEF ScopeFields, r

\* The fees of the mock's flights are listed once.
LEMMA MockCountsTheSame ==
    ASSUME NEW j \in 1..4, NEW f, f = Mock[j], f.fees = Null, NEW k \in 1..2
    PROVE  FareTotal(f, f.fares[k]) = NetPrice(f, f.fares[k]) /\ FareTotal(f, f.fares[k]) \in Int
<1>1. f.fee = Null /\ f \in RawFlight /\ DOMAIN f.fares = 1..2
  <2>1. f \in RawFlight
    BY JourneyAssumption DEF Mock
  <2>2. f.fee = Null
    BY DEF Mock, BuildMockFlights, MockFlight
  <2>3. DOMAIN f.fares = 1..2
    BY MockFlightsAreKept
  <2> QED BY <2>1, <2>2, <2>3
<1>2. PICK r \in RawFare : r = f.fares[k]
  BY <1>1 DEF RawFlight
<1>3. r.fareADT # Null
  <2>1. \A i \in 1..4, l \in 1..2 : Mock[i].fares[l].fareADT \in Int
    BY DEF Mock, BuildMockFlights, MockFlight, Fare
  <2> QED BY <1>2, <2>1, NullIsNoValue
<1>4. NetPrice(f, r) = r.fareADT + r.taxes + IssueFee(f, r)
  BY <1>3 DEF NetPrice
<1>5. IssueFee(f, r) = FirstOf(<<r.issueFee, f.issueFee, 0>>)
  <2>1. PICK a, b : a = r.issueFee /\ b = f.issueFee
    OBVIOUS
  <2>2. <<a, b>> \o <<>> \o <<>> \o <<0>> = <<a, b, 0>>
    <3>1. PICK S : S = {a, b, 0}
      OBVIOUS
    <3>2. <<a, b>> \in Seq(S) /\ <<0>> \in Seq(S) /\ <<a, b, 0>> \in Seq(S)
      BY <3>1
    <3>3. <<a, b>> \o <<>> = <<a, b>>
      BY <3>2, ConcatEmptySeq
    <3>4. <<a, b>> \o <<0>> = <<a, b, 0>>
      <4>1. PICK s, t : s = <<a, b>> \o <<0>> /\ t = <<a, b, 0>>
        OBVIOUS
      <4>2. s \in Seq(S) /\ Len(s) = 3 /\ s[1] = a /\ s[2] = b /\ s[3] = 0
        BY <3>2, <4>1, ConcatProperties
      <4>3. t \in Seq(S) /\ Len(t) = 3 /\ t[1] = a /\ t[2] = b /\ t[3] = 0
        BY <3>2, <4>1
      <4>4. s = t
        BY <4>2, <4>3
      <4> QED BY <4>1, <4>4
    <3> QED BY <3>3, <3>4
  <2> QED BY <1>1, <2>1, <2>2 DEF IssueFee, Listed
<1>6. FareTotal(f, r) = NetPrice(f, r)
  BY <1>4, <1>5 DEF FareTotal
<1> QED BY <1>1, <1>2, <1>6, PriceIsANumber

-----------------------------------------------------------------------------
(* What was on sale is found again.                                        *)

\* Of classes that name one fare each, each resolves to its fare, if that is on sale.
LEMMA OnSaleResolves ==
    ASSUME NEW f, NEW i \in DOMAIN f.fares, f \in RawFlight, OneFarePerCode(f), NEW class, class = FareCode(f.fares[i], i)
    PROVE  /\ ResolveFare(class, f) # Null => ResolveFare(class, f) = f.fares[i]
           /\ ~FareClass(f, i).soldOut => ResolveFare(class, f) # Null
<1> DEFINE those == {k \in DOMAIN f.fares : Answers(f.fares[k], class)}
           r == f.fares[i]
<1>1. those = {i}
  BY DEF OneFarePerCode
<1>2. SmallestOf({i}) = i
  <2>1. i \in Int
    BY DEF RawFlight
  <2> QED BY <2>1, SmallestIs
<1>3. ResolveFare(class, f) = IF r.soldOut \/ FirstOf(<<r.seats, 1>>) <= 0 THEN Null ELSE r
  BY <1>1, <1>2 DEF ResolveFare
<1>4. r # Null
  <2>1. r \in RawFare
    BY DEF RawFlight
  <2> QED BY <2>1, JourneyAssumption
<1>5. ASSUME ~FareClass(f, i).soldOut PROVE ~(r.soldOut \/ FirstOf(<<r.seats, 1>>) <= 0)
  <2>1. ~(r.soldOut \/ SeatAvailable(r) <= 0)
    BY <1>5 DEF FareClass
  <2>2. CASE r.seats = Null
    BY <2>1, <2>2, FirstOfTwo
  <2>3. CASE r.seats # Null
    <3>1. SeatAvailable(r) = r.seats
      BY <2>3, FirstOfThree DEF SeatAvailable
    <3>2. FirstOf(<<r.seats, 1>>) = r.seats
      BY <2>3, FirstOfTwo
    <3> QED BY <2>1, <3>1, <3>2
  <2> QED BY <2>2, <2>3
<1> HIDE DEF r
<1> QED BY <1>3, <1>4, <1>5 DEF r

LEMMA MatchingFlightIsFound ==
    ASSUME NEW flights, DOMAIN flights \subseteq Nat, NEW snapshot, NEW class,
           \A i \in DOMAIN flights : ~Unreadable(HeldDepart(flights[i])) /\ flights[i] # Null,
           \E i \in DOMAIN flights : Matches(flights[i], snapshot, class)
    PROVE  LET found == FindMatchingFlight(flights, snapshot, class)
           IN  ~found.throws /\ found.flight # Null
<1> DEFINE throwing == {i \in DOMAIN flights : Unreadable(HeldDepart(flights[i]))}
           matching == {i \in DOMAIN flights \ throwing : Matches(flights[i], snapshot, class)}
           i == SmallestOf(throwing \cup matching)
<1>1. throwing = {} /\ matching # {} /\ throwing \cup matching = matching
  OBVIOUS
<1>2. SmallestOf(matching) \in matching
  <2>1. matching \subseteq Nat
    OBVIOUS
  <2> HIDE DEF matching
  <2> QED BY <1>1, <2>1, SmallestIsThere
<1>3. FindMatchingFlight(flights, snapshot, class) =
        [throws |-> i \in throwing, flight |-> IF i \in throwing THEN Null ELSE flights[i]]
  BY <1>1 DEF FindMatchingFlight
<1>4. PICK k \in DOMAIN flights : k = i /\ k \notin throwing
  BY <1>1, <1>2
<1>5. flights[k] # Null
  OBVIOUS
<1> HIDE DEF i, throwing
<1>6. ~FindMatchingFlight(flights, snapshot, class).throws
  <2>1. ~(i \in throwing)
    BY <1>1
  <2>2. ASSUME NEW found, NEW g, found = [throws |-> i \in throwing, flight |-> g] PROVE ~found.throws
    <3>1. [throws |-> i \in throwing, flight |-> g].throws = (i \in throwing)
      BY Zenon
    <3>2. found.throws = (i \in throwing)
      BY <2>2, <3>1, Zenon
    <3> QED BY <2>1, <3>2, Zenon
  <2> QED BY <1>3, <2>2
<1>7. FindMatchingFlight(flights, snapshot, class).flight = flights[k]
  <2>1. FindMatchingFlight(flights, snapshot, class).flight = IF i \in throwing THEN Null ELSE flights[i]
    BY <1>3
  <2> QED BY <1>4, <2>1
<1> QED BY <1>5, <1>6, <1>7

LEMMA MockFareIsFound ==
    ASSUME NEW j \in 1..4, NEW f, f = Mock[j], NEW i \in DOMAIN f.fares, OneFarePerCode(f),
           NEW class, class = FareCode(f.fares[i], i), NEW found, found = MockFind(From, To, f.airline, class)
    PROVE  /\ found # Null => found = [flight |-> f, fare |-> f.fares[i]]
           /\ ~FareClass(f, i).soldOut => found # Null
<1> DEFINE of == {k \in DOMAIN f.fares : class \in {f.fares[k].class, f.fares[k].fareClass}}
           r == f.fares[i]
<1>1. DOMAIN f.fares = 1..2 /\ i \in 1..2
  BY MockFlightsAreKept
<1>2. r.class # Null /\ [flight |-> f, fare |-> r] # Null
  BY <1>1, JourneyAssumption DEF Mock
<1>3. class = r.class
  BY <1>2, FirstIsHead DEF FareCode
<1>4. of = {i}
  <2>1. \A k \in of : Answers(f.fares[k], class)
    BY DEF Answers
  <2>2. \A k \in DOMAIN f.fares : Answers(f.fares[k], class) => k = i
    BY DEF OneFarePerCode
  <2> QED BY <1>3, <2>1, <2>2
<1>5. SmallestOf({i}) = i
  BY <1>1, SmallestIs
<1>6. (CHOOSE k \in DOMAIN Mock : Mock[k].airline = f.airline) = j
  BY MockFlightsAreKept
<1>7. found = IF r.seats <= 0 THEN Null ELSE [flight |-> f, fare |-> r]
  BY <1>4, <1>5, <1>6, MockFlightsAreKept DEF MockFind, Mock
<1>8. ASSUME ~FareClass(f, i).soldOut PROVE ~(r.seats <= 0)
  <2>1. ~(SeatAvailable(r) <= 0)
    BY <1>8 DEF FareClass
  <2>2. r.seats \in Int
    <3>1. \A k \in 1..4, l \in 1..2 : Mock[k].fares[l].seats \in Int
      BY DEF Mock, BuildMockFlights, MockFlight, Fare
    <3> QED BY <1>1, <3>1
  <2>3. SeatAvailable(r) = r.seats
    BY <2>2, NullIsNoValue, FirstOfThree DEF SeatAvailable
  <2> QED BY <2>1, <2>3
<1> HIDE DEF r
<1> QED BY <1>2, <1>7, <1>8 DEF r

-----------------------------------------------------------------------------
(* The invariant of what was seen: the offers are those of an answer of    *)
(* the market that was seen, and what is held is a flight of the answer    *)
(* that the hold got, with the fare the class resolves to, priced by it.   *)

Chosen == {"chosen", "soldOut", "error"} \cup Holding
Displayed == {"shown"} \cup Chosen

\* The offer that is made of a flight that was seen.
AsShown(f) ==
    LET n == NormalizeFlight(f)
    IN  MarkedUp(seen.rules, RouteOf(n) \in seen.located, n)

SeenFits ==
    /\ seen.market \in Markets
    /\ \E answered \in SUBSET Airlines : seen.raw = RawFlights(seen.market, answered)
    /\ DOMAIN offers = DOMAIN seen.raw
    /\ \A i \in DOMAIN offers : ~Malformed(seen.raw[i]) /\ offers[i] = AsShown(seen.raw[i])
    /\ ~replaced => \A id \in DOMAIN snapshots : snapshots[id].query = query
    /\ provider = "mock" => seen.market = market

ChoiceFits == choice.offer \in DOMAIN offers /\ choice.fare \in DOMAIN ChosenOffer.fares

HeldAtMuadi(h) ==
    /\ ChosenOffer.airline \in Airlines
    /\ \E j \in DOMAIN AnswerOf(market, ChosenOffer.airline) : h.flight = AnswerOf(market, ChosenOffer.airline)[j]
    /\ h.fare = ResolveFare(ChosenClass, h.flight) /\ h.fare # Null
    /\ h.rows \in Rows(GatewayTotal(h.flight, h.fare, h.snapshot.query))

HeldAtMock(h) ==
    /\ MockFind(From, To, ChosenOffer.airline, ChosenClass) = [flight |-> h.flight, fare |-> h.fare]
    /\ MockFind(From, To, ChosenOffer.airline, ChosenClass) # Null
    /\ h.rows = <<[pnr |-> "OFMOCK", total |-> FareTotal(h.flight, h.fare), limit |-> MockLimit]>>

HeldFits(h) ==
    /\ IF provider = "mock" THEN HeldAtMock(h) ELSE HeldAtMuadi(h)
    /\ h.request = HoldRequest(h.flight, h.fare, h.snapshot)
    /\ ~replaced => h.snapshot.query = query

SeenInv ==
    /\ pc = "idle" => DOMAIN snapshots = {} /\ ~replaced
    /\ pc \in Displayed => SeenFits
    /\ pc \in Chosen => ChoiceFits
    /\ pc \in Holding => HeldFits(held)
    /\ pc = "booked" =>
          booking.sell = SellPrice(IF booking.loaded THEN rules ELSE {},
                                   HoldInput(held.flight, held.fare, held.snapshot, choice.tier, booking.located), held.total)

\* Every flight that was seen is one the gateway, or the mock, may answer.
LEMMA SeenFlightsAreFlights ==
    ASSUME SeenFits, NEW i \in DOMAIN offers
    PROVE  /\ seen.raw[i] \in RawFlight
           /\ DOMAIN offers[i].fares = DOMAIN seen.raw[i].fares
           /\ offers[i].fares = [k \in DOMAIN seen.raw[i].fares |-> offers[i].fares[k]]
<1>1. PICK answered \in SUBSET Airlines : seen.raw = RawFlights(seen.market, answered)
  BY DEF SeenFits
<1>2. seen.market \in Markets /\ i \in DOMAIN seen.raw /\ offers[i] = AsShown(seen.raw[i])
  BY DEF SeenFits
<1>3. seen.raw[i] \in RawFlight
  <2>1. CASE provider = "mock"
    <3>1. seen.raw = Mock
      BY <1>1, <2>1 DEF RawFlights, Mock
    <3>2. i \in 1..4
      BY <1>2, <3>1, MockFlightsAreKept
    <3> QED BY <3>1, <3>2, JourneyAssumption DEF Mock
  <2>2. CASE provider # "mock"
    <3>1. PICK a \in answered : \E j \in DOMAIN AnswerOf(seen.market, a) : seen.raw[i] = AnswerOf(seen.market, a)[j]
      BY <1>1, <1>2, <2>2, RawFlightsAreAnswers
    <3>2. AnswerOf(seen.market, a) \in Seq(RawFlight)
      BY <1>2, AnswersAreFlights
    <3> QED BY <3>1, <3>2
  <2> QED BY <2>1, <2>2
<1>4. DOMAIN offers[i].fares = DOMAIN seen.raw[i].fares
  BY <1>2, OfferIs DEF AsShown
<1>5. \E g : offers[i].fares = [k \in DOMAIN seen.raw[i].fares |-> g[k]]
  <2> DEFINE n == NormalizeFlight(seen.raw[i])
  <2>1. /\ n.fares = FareClasses(seen.raw[i])
        /\ n = [id |-> n.id, airline |-> n.airline, number |-> n.number, segs |-> n.segs, fares |-> n.fares,
                cheapest |-> n.cheapest, minutes |-> n.minutes, direct |-> n.direct]
    BY DEF NormalizeFlight
  <2>2. DOMAIN n.fares = DOMAIN seen.raw[i].fares
    BY <2>1 DEF FareClasses
  <2>3. PICK g : g = [k \in DOMAIN n.fares |->
                    [n.fares[k] EXCEPT !.price = SellPrice(seen.rules, ShownInput(n, n.fares[k], RouteOf(n) \in seen.located), @)]]
    OBVIOUS
  <2>4. offers[i] = [n EXCEPT !.fares = g, !.cheapest = CheapestPrice(g)]
    BY <1>2, <2>3 DEF AsShown, MarkedUp
  <2> HIDE DEF n
  <2>5. offers[i].fares = g
    BY <2>1, <2>4
  <2>6. g = [k \in DOMAIN n.fares |-> g[k]]
    BY <2>3
  <2> QED BY <2>2, <2>5, <2>6
<1> QED BY <1>3, <1>4, <1>5

LEMMA SeenStarts == Init => SeenInv
<1> SUFFICES ASSUME Init PROVE SeenInv
  OBVIOUS
<1>1. pc = "idle" /\ DOMAIN snapshots = {} /\ ~replaced
  BY DEF Init
<1> QED BY <1>1 DEF SeenInv, Displayed, Chosen, Holding

LEMMA NewSnapshotsAreAsked ==
    ASSUME NEW net, NEW q, NEW id \in DOMAIN Snapshots(net, q)
    PROVE  Snapshots(net, q)[id].query = q
<1>1. PICK o : Snapshots(net, q)[id] = OfferSnapshot(o, q)
  BY DEF Snapshots
<1>2. OfferSnapshot(o, q).query = q
  BY DEF OfferSnapshot
<1> QED BY <1>1, <1>2

LEMMA SearchIsSeen ==
    ASSUME RightInv, SeenInv, NEW q \in Queries, NEW answered \in SUBSET Airlines,
           NEW loaded \in BOOLEAN, NEW lost \in BOOLEAN, Search(q, answered, loaded, lost)
    PROVE  SeenInv'
<1> DEFINE raw == RawFlights(market, answered)
           net == NetOffers(raw)
           rs  == IF loaded THEN rules ELSE {}
<1>1. /\ pc = "idle" /\ pc' \in {"searchFailed", "shown"} /\ query' = q
      /\ UNCHANGED <<provider, market, replaced>> /\ market \in Markets
      /\ DOMAIN snapshots = {} /\ ~replaced
  BY DEF Search, SeenInv, RightInv
<1>2. CASE pc' = "searchFailed"
  BY <1>2 DEF SeenInv, Displayed, Chosen, Holding
<1>3. CASE pc' = "shown"
  <2>1. /\ ~(\E i \in DOMAIN raw : Malformed(raw[i]))
        /\ snapshots' = snapshots \/ snapshots' = Merge(Snapshots(net, q), snapshots)
        /\ \E located : /\ offers' = [i \in DOMAIN net |-> MarkedUp(rs, RouteOf(net[i]) \in located, net[i])]
                         /\ seen' = [market |-> market, rules |-> rs, raw |-> raw, located |-> located]
    BY <1>3 DEF Search
  <2>2. DOMAIN net = DOMAIN raw /\ \A i \in DOMAIN raw : net[i] = NormalizeFlight(raw[i])
    BY DEF NetOffers
  <2> HIDE DEF net
  <2>3. seen'.raw = raw /\ seen'.market = market /\ seen'.rules = rs
    BY <2>1
  <2>4. (seen.raw = RawFlights(seen.market, answered))'
    BY <1>1, <2>3 DEF RawFlights
  <2> HIDE DEF raw, rs
  <2>5. /\ DOMAIN offers' = DOMAIN raw
        /\ \A i \in DOMAIN raw : LET n == NormalizeFlight(raw[i])
                                IN  offers'[i] = MarkedUp(seen'.rules, RouteOf(n) \in seen'.located, n)
    BY <2>1, <2>2
  <2>6. \A id \in DOMAIN snapshots' : snapshots'[id].query = q
    <3>1. CASE snapshots' = snapshots
      BY <1>1, <3>1
    <3>2. CASE snapshots' = Merge(Snapshots(net, q), snapshots)
      <4>1. \A id \in DOMAIN snapshots' : id \in DOMAIN Snapshots(net, q) /\ snapshots'[id] = Snapshots(net, q)[id]
        BY <1>1, <3>2 DEF Merge
      <4> QED BY <4>1, NewSnapshotsAreAsked
    <3> QED BY <2>1, <3>1, <3>2
  <2>7. (\E a \in SUBSET Airlines : seen.raw = RawFlights(seen.market, a))'
    BY <2>4
  <2>8. SeenFits'
    BY <1>1, <2>1, <2>3, <2>5, <2>6, <2>7 DEF SeenFits, AsShown
  <2> QED BY <1>3, <2>8 DEF SeenInv, Displayed, Chosen, Holding
<1> QED BY <1>1, <1>2, <1>3

\* What was seen stays, as long as the offers do.
LEMMA SeenStays ==
    ASSUME SeenFits, UNCHANGED <<provider, offers, seen>>, provider = "mock" => market' = market,
           ~replaced' => \A id \in DOMAIN snapshots' : snapshots'[id].query = query'
    PROVE  SeenFits'
<1>1. (\E answered \in SUBSET Airlines : seen.raw = RawFlights(seen.market, answered))'
  BY DEF SeenFits, RawFlights
<1> QED BY <1>1 DEF SeenFits, AsShown

LEMMA HeldStays ==
    ASSUME HeldFits(held), UNCHANGED <<provider, market, offers, choice, replaced, query>>,
           held'.flight = held.flight, held'.fare = held.fare, held'.request = held.request,
           held'.snapshot = held.snapshot, held'.rows = held.rows
    PROVE  HeldFits(held)'
<1>1. HoldRequest(held.flight, held.fare, held.snapshot)' = HoldRequest(held.flight, held.fare, held.snapshot)
  BY DEF HoldRequest
<1>2. UNCHANGED <<ChosenOffer, ChosenClass>>
  BY DEF ChosenOffer, ChosenClass
<1> QED BY <1>1, <1>2 DEF HeldFits, HeldAtMuadi, HeldAtMock

\* What the gateway's answer is searched for, and in.
LEMMA GatewayHolds ==
    ASSUME RightInv, SeenInv, pc = "chosen", provider # "mock", NEW id, id = ChosenOffer.id, id \in DOMAIN snapshots,
           HoldAtMuadi(snapshots[id]), pc' \in Holding
    PROVE  HeldFits(held')
<1> DEFINE s == snapshots[id]
           flights == IF s.airline \in Airlines THEN AnswerOf(market, s.airline) ELSE <<>>
           found == FindMatchingFlight(flights, s, ChosenClass)
           r == ResolveFare(ChosenClass, found.flight)
<1>1. ~found.throws /\ found.flight # Null
  BY DEF HoldAtMuadi, HoldFails, Holding
<1>2. \E rows \in Rows(GatewayTotal(found.flight, r, s.query)) : held' = Booked(found.flight, r, s, rows)
  BY <1>1 DEF HoldAtMuadi
<1>3. DOMAIN flights \subseteq Nat
  <2>1. ASSUME s.airline \in Airlines PROVE market[s.airline].flights \in Seq(RawFlight)
    BY <2>1, JourneyAssumption DEF RightInv, GatewayAnswer
  <2> QED BY <2>1 DEF AnswerOf
<1>4. PICK i \in DOMAIN flights : found.flight = flights[i] /\ Matches(flights[i], s, ChosenClass)
  <2> HIDE DEF flights, s
  <2> QED BY <1>1, <1>3, FoundFlightMatches
<1>5. s.airline = ChosenOffer.airline /\ s.airline \in Airlines
  <2>1. s.airline = id[1]
    BY DEF RightInv, SnapshotsAreNamed
  <2>2. id = <<ChosenOffer.airline, ChosenOffer.number, ChosenOffer.segs[1].depart, id[4]>>
    BY DEF RightInv, OffersAreNamed, ChosenOffer
  <2>3. id[1] = ChosenOffer.airline
    BY <2>2
  <2>4. s.airline \in Airlines
    BY <1>4
  <2> QED BY <2>1, <2>3, <2>4
<1>6. r # Null
  BY <1>4 DEF Matches
<1>7. ~replaced => s.query = query
  BY DEF SeenInv, SeenFits, Displayed, Chosen
<1>8. i \in DOMAIN AnswerOf(market, s.airline) /\ found.flight = AnswerOf(market, s.airline)[i]
  BY <1>4, <1>5
<1> HIDE DEF s, flights, found
<1>9. PICK rows \in Rows(GatewayTotal(found.flight, r, s.query)) : held' = Booked(found.flight, r, s, rows)
  BY <1>2
<1>10. /\ held'.flight = found.flight /\ held'.fare = r /\ held'.snapshot = s /\ held'.rows = rows
       /\ held'.request = HoldRequest(found.flight, r, s)
  BY <1>9 DEF Booked
<1>11. HeldAtMuadi(held')
  BY <1>5, <1>6, <1>8, <1>9, <1>10 DEF HeldAtMuadi
<1> QED BY <1>7, <1>10, <1>11 DEF HeldFits

LEMMA MockHolds ==
    ASSUME RightInv, SeenInv, pc = "chosen", provider = "mock", NEW id, id = ChosenOffer.id, id \in DOMAIN snapshots,
           HoldAtMock(snapshots[id]), pc' \in Holding
    PROVE  HeldFits(held')
<1> DEFINE s == snapshots[id]
           found == MockFind(From, To, s.airline, ChosenClass)
           rows == <<[pnr |-> "OFMOCK", total |-> FareTotal(found.flight, found.fare), limit |-> MockLimit]>>
<1>1. found # Null
  BY DEF HoldAtMock, HoldFails, Holding
<1>2. held' = Settled(Booked(found.flight, found.fare, s, rows), rows, Pricing(rows))
  BY <1>1 DEF HoldAtMock
<1>3. s.airline = ChosenOffer.airline
  <2>1. s.airline = id[1]
    BY DEF RightInv, SnapshotsAreNamed
  <2>2. id = <<ChosenOffer.airline, ChosenOffer.number, ChosenOffer.segs[1].depart, id[4]>>
    BY DEF RightInv, OffersAreNamed, ChosenOffer
  <2>3. id[1] = ChosenOffer.airline
    BY <2>2
  <2> QED BY <2>1, <2>3
<1>4. ~replaced => s.query = query
  BY DEF SeenInv, SeenFits, Displayed, Chosen
<1>5. found = [flight |-> found.flight, fare |-> found.fare]
  <2>1. \A f, r : [flight |-> f, fare |-> r] = [flight |-> [flight |-> f, fare |-> r].flight, fare |-> [flight |-> f, fare |-> r].fare]
    OBVIOUS
  <2>2. \E f, r : found = [flight |-> f, fare |-> r]
    BY <1>1 DEF MockFind
  <2> HIDE DEF found
  <2> QED BY <2>2
<1> HIDE DEF s, found
<1>6. /\ held'.flight = found.flight /\ held'.fare = found.fare /\ held'.snapshot = s /\ held'.rows = rows
      /\ held'.request = HoldRequest(found.flight, found.fare, s)
  BY <1>2 DEF Settled, Booked
<1>7. MockFind(From, To, ChosenOffer.airline, ChosenClass) = found
  BY <1>3 DEF found
<1>8. HeldAtMock(held')
  BY <1>1, <1>5, <1>6, <1>7 DEF HeldAtMock
<1> QED BY <1>4, <1>6, <1>8 DEF HeldFits

LEMMA HoldIsSeen ==
    ASSUME RightInv, SeenInv, Hold
    PROVE  SeenInv'
<1>1. /\ pc = "chosen" /\ pc' # "booked" /\ pc' # "idle"
      /\ UNCHANGED <<provider, market, rules, query, offers, snapshots, seen, replaced, choice>>
  BY DEF Hold, HoldFails, HoldAtMuadi, HoldAtMock
<1>2. SeenFits' /\ ChoiceFits'
  <2>1. SeenFits /\ ChoiceFits
    BY <1>1 DEF SeenInv, Displayed, Chosen
  <2>2. SeenFits'
    BY <1>1, <2>1, SeenStays DEF SeenFits
  <2> QED BY <1>1, <2>1, <2>2 DEF ChoiceFits, ChosenOffer
<1>3. ASSUME pc' \in Holding PROVE HeldFits(held)'
  <2>1. ChosenOffer.id \in DOMAIN snapshots
    BY <1>3 DEF Hold, HoldFails, Holding
  <2>2. HeldFits(held')
    <3>1. CASE provider = "mock"
      <4>1. HoldAtMock(snapshots[ChosenOffer.id])
        BY <2>1, <3>1 DEF Hold
      <4> QED BY <1>1, <1>3, <2>1, <3>1, <4>1, MockHolds
    <3>2. CASE provider # "mock"
      <4>1. HoldAtMuadi(snapshots[ChosenOffer.id])
        BY <2>1, <3>2 DEF Hold
      <4> QED BY <1>1, <1>3, <2>1, <3>2, <4>1, GatewayHolds
    <3> QED BY <3>1, <3>2
  <2>3. HoldRequest(held.flight, held.fare, held.snapshot)' = HoldRequest(held'.flight, held'.fare, held'.snapshot)
    BY <1>1 DEF HoldRequest
  <2>4. UNCHANGED <<ChosenOffer, ChosenClass>>
    BY <1>1 DEF ChosenOffer, ChosenClass
  <2> QED BY <1>1, <2>2, <2>3, <2>4 DEF HeldFits, HeldAtMuadi, HeldAtMock
<1> QED BY <1>1, <1>2, <1>3 DEF SeenInv

\* Until a choice is made only what was shown counts.
LEMMA ShownIsSeen ==
    ASSUME SeenFits', pc' = "shown"
    PROVE  SeenInv'
BY DEF SeenInv, Chosen, Holding

\* An answer about the price leaves what is held and how it was asked for.
LEMMA AskingIsSeen ==
    ASSUME RightInv, SeenInv, NEW listed \in BOOLEAN, NEW priced \in SUBSET (1..2),
           AskTicketInfo(listed, priced) \/ AskListBooking(priced)
    PROVE  SeenInv'
<1>1. /\ pc \in {"pricing", "fallback"} /\ pc' \in {"pricing", "fallback", "priced", "unpriced"}
      /\ UNCHANGED <<provider, market, rules, query, offers, snapshots, seen, replaced, choice>>
  BY DEF AskTicketInfo, AskListBooking, HoldFails
<1>2. HeldRecord(held) /\ HeldFits(held) /\ SeenFits /\ ChoiceFits
  BY <1>1 DEF RightInv, SeenInv, Displayed, Chosen, Holding
<1>3. /\ held'.flight = held.flight /\ held'.fare = held.fare /\ held'.request = held.request
      /\ held'.snapshot = held.snapshot /\ held'.rows = held.rows
  <2>1. ASSUME NEW info, NEW pricing, held' = Settled(held, info, pricing)
        PROVE  /\ held'.flight = held.flight /\ held'.fare = held.fare /\ held'.request = held.request
               /\ held'.snapshot = held.snapshot /\ held'.rows = held.rows
    BY <1>2, <2>1 DEF Settled, HeldRecord
  <2>2. ASSUME NEW info, held' = [held EXCEPT !.info = info]
        PROVE  /\ held'.flight = held.flight /\ held'.fare = held.fare /\ held'.request = held.request
               /\ held'.snapshot = held.snapshot /\ held'.rows = held.rows
    BY <1>2, <2>2 DEF HeldRecord
  <2>3. \/ held' = held
        \/ \E info, pricing : held' = Settled(held, info, pricing)
        \/ \E info : held' = [held EXCEPT !.info = info]
    BY DEF AskTicketInfo, AskListBooking, HoldFails
  <2> QED BY <2>1, <2>2, <2>3
<1>4. HeldFits(held)'
  BY <1>1, <1>2, <1>3, HeldStays
<1>5. SeenFits'
  BY <1>1, <1>2, SeenStays DEF SeenFits
<1>6. ChoiceFits'
  BY <1>1, <1>2 DEF ChoiceFits, ChosenOffer
<1> QED BY <1>1, <1>4, <1>5, <1>6 DEF SeenInv

LEMMA SeenIsKept ==
    ASSUME RightInv, SeenInv, [Next]_vars
    PROVE  SeenInv'
<1>1. ASSUME NEW q \in Queries, OtherSearch(q) PROVE SeenInv'
  <2>1. pc = "shown" /\ pc' = "shown" /\ replaced' /\ UNCHANGED <<provider, market, offers, seen>> /\ SeenFits
    BY <1>1 DEF OtherSearch, SeenInv, Displayed
  <2>2. SeenFits'
    BY <2>1, SeenStays
  <2> QED BY <2>1, <2>2, ShownIsSeen
<1>2. CASE Reprice \/ ChangeRules \/ SnapshotExpires
  <2>1. /\ pc = "shown" /\ pc' = "shown" /\ UNCHANGED <<provider, query, replaced, offers, seen>> /\ SeenFits
        /\ provider = "mock" => market' = market
        /\ snapshots' = snapshots \/ DOMAIN snapshots' = {}
    BY <1>2 DEF Reprice, ChangeRules, SnapshotExpires, SeenInv, Displayed
  <2>2. SeenFits'
    BY <2>1, SeenStays DEF SeenFits
  <2> QED BY <2>1, <2>2, ShownIsSeen
<1>3. ASSUME NEW o \in DOMAIN offers, NEW party \in Parties, NEW tier \in Tiers,
             CustomerPicks(o, party, tier) \/ \E i \in 1..3 : HunterPicks(o, i, party, tier)
      PROVE  SeenInv'
  <2>1. PICK i : \E who, price : Pick(who, o, i, price, party, tier) /\ i \in DOMAIN offers[o].fares
    <3>1. CASE CustomerPicks(o, party, tier)
      <4>1. offers[o].fares # <<>> /\ \E price : Pick("customer", o, 1, price, party, tier)
        BY <3>1 DEF CustomerPicks, AdaptOffer
      <4>2. SeenFits
        BY <4>1 DEF Pick, SeenInv, Displayed
      <4>3. 1 \in DOMAIN offers[o].fares
        <5>1. PICK f : f \in RawFlight /\ DOMAIN offers[o].fares = DOMAIN f.fares
                       /\ offers[o].fares = [i \in DOMAIN f.fares |-> offers[o].fares[i]]
          BY <4>2, SeenFlightsAreFlights
        <5>2. f.fares # <<>>
          <6>1. ASSUME f.fares = <<>> PROVE FALSE
            <7>1. DOMAIN f.fares = {}
              BY <6>1
            <7>2. offers[o].fares = <<>>
              BY <5>1, <7>1
            <7> QED BY <4>1, <7>2
          <6> QED BY <6>1
        <5> QED BY <5>1, <5>2 DEF RawFlight
      <4> QED BY <4>1, <4>3
    <3>2. ASSUME NEW i \in 1..3, HunterPicks(o, i, party, tier)
          PROVE  \E who, price : Pick(who, o, i, price, party, tier) /\ i \in DOMAIN offers[o].fares
      BY <3>2 DEF HunterPicks, CheapestBookable, Buyable
    <3> QED BY <1>3, <3>1, <3>2
  <2>2. /\ pc = "shown" /\ pc' = "chosen" /\ choice'.offer = o /\ choice'.fare = i
        /\ UNCHANGED <<provider, market, query, offers, snapshots, seen, replaced>>
    BY <2>1 DEF Pick
  <2>3. SeenFits /\ SeenFits'
    BY <2>2, SeenStays DEF SeenInv, Displayed, SeenFits
  <2>4. ChoiceFits'
    BY <2>1, <2>2 DEF ChoiceFits, ChosenOffer
  <2> QED BY <2>2, <2>3, <2>4 DEF SeenInv, Holding
<1>4. CASE RefuseShortWindow
  BY <1>4 DEF RefuseShortWindow, HoldFails, SeenInv, Displayed, Chosen, Holding
<1>5. ASSUME NEW loaded \in BOOLEAN, NEW located \in BOOLEAN, Persist(loaded, located) PROVE SeenInv'
  <2>1. /\ pc = "priced" /\ pc' = "booked"
        /\ UNCHANGED <<provider, market, rules, query, offers, snapshots, seen, replaced, choice, held>>
        /\ booking'.loaded = loaded /\ booking'.located = located
        /\ booking'.sell = SellPrice(IF loaded THEN rules ELSE {},
                                     HoldInput(held.flight, held.fare, held.snapshot, choice.tier, located), held.total)
    BY <1>5 DEF Persist
  <2>2. SeenFits /\ ChoiceFits /\ HeldFits(held)
    BY <2>1 DEF SeenInv, Displayed, Chosen, Holding
  <2>3. SeenFits'
    BY <2>1, <2>2, SeenStays DEF SeenFits
  <2>4. ChoiceFits'
    BY <2>1, <2>2 DEF ChoiceFits, ChosenOffer
  <2>5. HeldFits(held)'
    BY <2>1, <2>2, HeldStays
  <2> QED BY <2>1, <2>3, <2>4, <2>5 DEF SeenInv
<1>6. CASE UNCHANGED vars
  <2>1. UNCHANGED <<provider, market, rules, pc, query, offers, snapshots, seen, replaced, choice, held, booking>>
    BY <1>6 DEF vars
  <2>2. SeenFits => SeenFits'
    BY <2>1, SeenStays DEF SeenFits
  <2>3. ChoiceFits => ChoiceFits'
    BY <2>1 DEF ChoiceFits, ChosenOffer
  <2>4. HeldFits(held) => HeldFits(held)'
    BY <2>1, HeldStays
  <2> QED BY <2>1, <2>2, <2>3, <2>4 DEF SeenInv
<1> QED BY <1>1, <1>2, <1>3, <1>4, <1>5, <1>6, SearchIsSeen, HoldIsSeen, AskingIsSeen DEF Next

-----------------------------------------------------------------------------
(* What was chosen, and that it is what is held.                           *)

\* A flight that was seen, as the gateway or the mock answered it, and its offer.
LEMMA SeenFlightsAreShown ==
    ASSUME OwnFlights, SeenFits, NEW k \in DOMAIN offers, NEW f, f = seen.raw[k]
    PROVE  /\ Ordinary(f) /\ ~Malformed(f) /\ k \in DOMAIN seen.raw
           /\ offers[k] = AsShown(f)
           /\ offers[k].airline = f.airline /\ offers[k].number = HeldNumber(f) /\ offers[k].segs = Segments(f)
           /\ HeldDepart(f) # Null => offers[k].segs[1].depart = HeldDepart(f)
           /\ provider = "mock" => \E j \in 1..4 : f = Mock[j]
           /\ provider # "mock" => /\ f.airline \in Airlines
                                   /\ \E j \in DOMAIN AnswerOf(seen.market, f.airline) : f = AnswerOf(seen.market, f.airline)[j]
                                   /\ \A j \in DOMAIN AnswerOf(seen.market, f.airline) :
                                        \E l \in DOMAIN seen.raw : seen.raw[l] = AnswerOf(seen.market, f.airline)[j]
<1>1. PICK answered \in SUBSET Airlines : seen.raw = RawFlights(seen.market, answered)
  BY DEF SeenFits
<1>2. /\ seen.market \in Markets /\ k \in DOMAIN seen.raw /\ ~Malformed(f)
      /\ offers[k] = AsShown(f)
  BY DEF SeenFits
<1>3. CASE provider = "mock"
  <2>1. seen.raw = Mock
    BY <1>1, <1>3 DEF RawFlights, Mock
  <2>2. k \in 1..4 /\ f = Mock[k]
    BY <1>2, <2>1, MockFlightsAreKept
  <2>3. Ordinary(f)
    BY <2>2, MockIsOrdinary
  <2> QED BY <1>2, <1>3, <2>2, <2>3, OfferIs, ShownAsHeld DEF AsShown
<1>4. CASE provider # "mock"
  <2>1. PICK a \in answered : \E j \in DOMAIN AnswerOf(seen.market, a) : f = AnswerOf(seen.market, a)[j]
    BY <1>1, <1>2, <1>4, RawFlightsAreAnswers
  <2>2. Ordinary(f) /\ f.airline = a
    BY <1>2, <2>1, AnswersAreOrdinary
  <2>3. \A j \in DOMAIN AnswerOf(seen.market, a) : \E l \in DOMAIN seen.raw : seen.raw[l] = AnswerOf(seen.market, a)[j]
    BY <1>1, <1>2, <1>4, RawFlightsAreAnswers
  <2> QED BY <1>2, <1>4, <2>1, <2>2, <2>3, OfferIs, ShownAsHeld DEF AsShown
<1> QED BY <1>3, <1>4

LEMMA ChosenFareIsShown ==
    ASSUME SeenFits, ChoiceFits, NEW f, f = ChosenRaw, NEW i, i = choice.fare
    PROVE  /\ i \in DOMAIN f.fares
           /\ ChosenClass = FareCode(f.fares[i], i) /\ ChosenFare.soldOut = FareClass(f, i).soldOut
           /\ ChosenFare.price = SellPrice(seen.rules, ShownInput(NormalizeFlight(f), FareClass(f, i),
                                                                  RouteOf(NormalizeFlight(f)) \in seen.located),
                                           NetPrice(f, f.fares[i]))
           /\ RouteOf(ChosenOffer) = RouteOf(NormalizeFlight(f))
<1>1. choice.offer \in DOMAIN offers /\ i \in DOMAIN ChosenOffer.fares
  BY DEF ChoiceFits
<1>2. ChosenOffer = AsShown(f)
  BY <1>1 DEF SeenFits, ChosenOffer, ChosenRaw
<1>3. RouteOf(ChosenOffer) = RouteOf(NormalizeFlight(f))
  <2>1. ChosenOffer.segs = Segments(f)
    BY <1>2, OfferIs DEF AsShown
  <2> QED BY <2>1 DEF RouteOf, NormalizeFlight
<1> QED BY <1>1, <1>2, <1>3, OfferIs DEF ChosenClass, ChosenFare, AsShown

\* The number and the date lead back to the flight, when they are one flight's and it is still there.
LEMMA SameFlight ==
    ASSUME OwnFlights, SeenFits, ChoiceFits, HeldFits(held), Picked(held.flight, held.fare),
           seen.market = market, NoTwins
    PROVE  held.flight = ChosenRaw
<1> DEFINE f == ChosenRaw
<1>1. choice.offer \in DOMAIN offers /\ f = seen.raw[choice.offer] /\ ChosenOffer = offers[choice.offer]
  BY DEF ChoiceFits, ChosenRaw, ChosenOffer
<1>2. ChosenOffer.airline = f.airline
  BY <1>1, SeenFlightsAreShown
<1>3. CASE provider = "mock"
  <2>1. PICK j \in 1..4 : f = Mock[j]
    BY <1>1, <1>3, SeenFlightsAreShown
  <2>2. HeldAtMock(held)
    BY <1>3 DEF HeldFits
  <2>3. PICK found : found = MockFind(From, To, ChosenOffer.airline, ChosenClass)
                     /\ found = [flight |-> held.flight, fare |-> held.fare] /\ found # Null
    BY <2>2 DEF HeldAtMock
  <2>4. found.flight = Mock[j]
    BY <1>2, <2>1, <2>3, MockFindsItsFlight
  <2> QED BY <2>1, <2>3, <2>4
<1>4. CASE provider # "mock"
  <2>1. HeldAtMuadi(held)
    BY <1>4 DEF HeldFits
  <2>2. PICK j \in DOMAIN AnswerOf(market, f.airline) : held.flight = AnswerOf(market, f.airline)[j]
    BY <1>2, <2>1 DEF HeldAtMuadi
  <2>3. PICK l \in DOMAIN seen.raw : seen.raw[l] = held.flight
    BY <1>1, <1>4, <2>2, SeenFlightsAreShown
  <2>4. l \in DOMAIN offers
    BY DEF SeenFits
  <2>5. offers[l].number = HeldNumber(held.flight) /\ offers[l].segs[1].depart = HeldDepart(held.flight)
    <3>1. HeldDepart(held.flight) # Null
      BY NullIsNoValue DEF Picked
    <3> QED BY <2>3, <2>4, <3>1, SeenFlightsAreShown
  <2>6. l = choice.offer
    BY <1>1, <2>4, <2>5 DEF NoTwins, Picked
  <2> QED BY <1>1, <2>3, <2>6
<1> QED BY <1>3, <1>4

LEMMA SameFare ==
    ASSUME OwnFlights, SeenFits, ChoiceFits, HeldFits(held), held.flight = ChosenRaw, OneFarePerCode(ChosenRaw)
    PROVE  held.fare = ChosenRaw.fares[choice.fare]
<1> DEFINE f == ChosenRaw
           i == choice.fare
<1>1. i \in DOMAIN f.fares /\ ChosenClass = FareCode(f.fares[i], i)
  BY ChosenFareIsShown
<1>2. choice.offer \in DOMAIN offers /\ f = seen.raw[choice.offer] /\ ChosenOffer = offers[choice.offer]
  BY DEF ChoiceFits, ChosenRaw, ChosenOffer
<1>3. f \in RawFlight
  BY <1>2, SeenFlightsAreFlights
<1>4. CASE provider = "mock"
  <2>1. PICK j \in 1..4 : f = Mock[j]
    BY <1>2, <1>4, SeenFlightsAreShown
  <2>2. ChosenOffer.airline = f.airline
    BY <1>2, SeenFlightsAreShown
  <2>3. PICK found : found = MockFind(From, To, f.airline, ChosenClass)
                     /\ found = [flight |-> held.flight, fare |-> held.fare] /\ found # Null
    BY <1>4, <2>2 DEF HeldFits, HeldAtMock
  <2>4. found = [flight |-> f, fare |-> f.fares[i]]
    BY <1>1, <2>1, <2>3, MockFareIsFound
  <2>5. found.fare = held.fare /\ found.fare = f.fares[i]
    BY <2>3, <2>4
  <2> QED BY <2>5
<1>5. CASE provider # "mock"
  <2>1. held.fare = ResolveFare(ChosenClass, f) /\ held.fare # Null
    BY <1>5 DEF HeldFits, HeldAtMuadi
  <2> QED BY <1>1, <1>3, <2>1, OnSaleResolves
<1> QED BY <1>4, <1>5

\* A fare on sale, in an answer that has not changed, is held.
LEMMA GatewaySells ==
    ASSUME OwnFlights, RightInv, SeenFits, ChoiceFits, provider # "mock",
           NEW id, id = ChosenOffer.id, id \in DOMAIN snapshots, HoldAtMuadi(snapshots[id]),
           seen.market = market, ~ChosenFare.soldOut, OneFarePerCode(ChosenRaw), DatesAreKept
    PROVE  pc' = "pricing"
<1> DEFINE s == snapshots[id]
           f == ChosenRaw
           flights == AnswerOf(market, f.airline)
           found == FindMatchingFlight(flights, s, ChosenClass)
<1>1. choice.offer \in DOMAIN offers /\ f = seen.raw[choice.offer] /\ ChosenOffer = offers[choice.offer]
  BY DEF ChoiceFits, ChosenRaw, ChosenOffer
<1>2. s.airline = f.airline /\ s.number = HeldNumber(f) /\ s.depart = HeldDepart(f)
  <2>1. id = <<ChosenOffer.airline, ChosenOffer.number, ChosenOffer.segs[1].depart, id[4]>>
    BY <1>1 DEF RightInv, OffersAreNamed
  <2>2. id[1] = ChosenOffer.airline /\ id[2] = ChosenOffer.number /\ id[3] = ChosenOffer.segs[1].depart
    BY <2>1
  <2>3. s.airline = id[1] /\ s.number = id[2] /\ s.depart = id[3]
    BY DEF RightInv, SnapshotsAreNamed
  <2>4. choice.offer \in DOMAIN seen.raw
    BY <1>1, SeenFlightsAreShown
  <2>5. HeldDepart(f) # Null
    BY <1>1, <2>4 DEF DatesAreKept, Unreadable
  <2> QED BY <1>1, <2>2, <2>3, <2>5, SeenFlightsAreShown
<1>3. f.airline \in Airlines /\ f \in RawFlight
  BY <1>1, SeenFlightsAreShown DEF Ordinary
<1>4. flights \in Seq(RawFlight)
  BY <1>3, AnswersAreFlights DEF RightInv
<1>5. ASSUME NEW j \in DOMAIN flights PROVE ~Unreadable(HeldDepart(flights[j])) /\ flights[j] # Null
  <2>1. PICK l \in DOMAIN seen.raw : seen.raw[l] = flights[j]
    BY <1>1, SeenFlightsAreShown
  <2>2. flights[j] \in RawFlight
    BY <1>4
  <2> QED BY <2>1, <2>2, JourneyAssumption DEF DatesAreKept
<1>6. PICK j \in DOMAIN flights : f = flights[j]
  BY <1>1, SeenFlightsAreShown
<1>7. ResolveFare(ChosenClass, f) # Null
  <2>1. /\ choice.fare \in DOMAIN f.fares /\ ChosenClass = FareCode(f.fares[choice.fare], choice.fare)
        /\ ~FareClass(f, choice.fare).soldOut
    BY ChosenFareIsShown
  <2> QED BY <1>3, <2>1, OnSaleResolves
<1>8. Matches(flights[j], s, ChosenClass)
  BY <1>2, <1>6, <1>7 DEF Matches
<1>9. ~found.throws /\ found.flight # Null
  <2>1. DOMAIN flights \subseteq Nat
    BY <1>4
  <2> HIDE DEF flights, s
  <2> QED BY <1>5, <1>8, <2>1, MatchingFlightIsFound
<1>10. flights = IF s.airline \in Airlines THEN AnswerOf(market, s.airline) ELSE <<>>
  BY <1>2, <1>3
<1> QED BY <1>9, <1>10 DEF HoldAtMuadi

LEMMA MockSells ==
    ASSUME OwnFlights, RightInv, SeenFits, ChoiceFits, provider = "mock",
           NEW id, id = ChosenOffer.id, id \in DOMAIN snapshots, HoldAtMock(snapshots[id]),
           ~ChosenFare.soldOut, OneFarePerCode(ChosenRaw)
    PROVE  pc' = "priced"
<1> DEFINE s == snapshots[id]
           f == ChosenRaw
           found == MockFind(From, To, s.airline, ChosenClass)
<1>1. choice.offer \in DOMAIN offers /\ f = seen.raw[choice.offer] /\ ChosenOffer = offers[choice.offer]
  BY DEF ChoiceFits, ChosenRaw, ChosenOffer
<1>2. s.airline = f.airline
  <2>1. id = <<ChosenOffer.airline, ChosenOffer.number, ChosenOffer.segs[1].depart, id[4]>>
    BY <1>1 DEF RightInv, OffersAreNamed
  <2>2. id[1] = ChosenOffer.airline
    BY <2>1
  <2>3. s.airline = id[1]
    BY DEF RightInv, SnapshotsAreNamed
  <2> QED BY <1>1, <2>2, <2>3, SeenFlightsAreShown
<1>3. PICK j \in 1..4 : f = Mock[j]
  BY <1>1, SeenFlightsAreShown
<1>4. /\ choice.fare \in DOMAIN f.fares /\ ChosenClass = FareCode(f.fares[choice.fare], choice.fare)
      /\ ~FareClass(f, choice.fare).soldOut
  BY ChosenFareIsShown
<1>5. found # Null
  BY <1>2, <1>3, <1>4, MockFareIsFound
<1> QED BY <1>5 DEF HoldAtMock

LEMMA OnSaleIsKept ==
    ASSUME OwnFlights, RightInv, SeenInv, WhatIsOnSaleCanBeHeld, [Next]_vars
    PROVE  WhatIsOnSaleCanBeHeld'
<1>1. CASE Hold
  <2> SUFFICES ASSUME pc' \in {"soldOut", "error"}, seen.market = market, ~ChosenFare.soldOut,
                      OneFarePerCode(ChosenRaw), DatesAreKept
               PROVE  FALSE
    BY <1>1 DEF Hold, WhatIsOnSaleCanBeHeld, ChosenFare, ChosenOffer, ChosenRaw, DatesAreKept
  <2>1. pc = "chosen" /\ SeenFits /\ ChoiceFits /\ ChosenOffer.id \in DOMAIN snapshots
    BY <1>1 DEF Hold, HoldFails, SeenInv, Displayed, Chosen
  <2>2. CASE provider = "mock"
    <3>1. HoldAtMock(snapshots[ChosenOffer.id])
      BY <1>1, <2>1, <2>2 DEF Hold
    <3> QED BY <2>1, <2>2, <3>1, MockSells
  <2>3. CASE provider # "mock"
    <3>1. HoldAtMuadi(snapshots[ChosenOffer.id])
      BY <1>1, <2>1, <2>3 DEF Hold
    <3> QED BY <2>1, <2>3, <3>1, GatewaySells
  <2> QED BY <2>2, <2>3
<1>2. CASE UNCHANGED vars
  BY <1>2 DEF vars, WhatIsOnSaleCanBeHeld, ChosenFare, ChosenOffer, ChosenRaw, DatesAreKept
<1>3. CASE Next /\ ~Hold
  <2>1. pc' \notin {"soldOut", "error"}
    BY <1>3 DEF Next, Search, OtherSearch, Reprice, ChangeRules, SnapshotExpires, CustomerPicks, HunterPicks, Pick,
                AskTicketInfo, AskListBooking, RefuseShortWindow, Persist, HoldFails
  <2> QED BY <2>1 DEF WhatIsOnSaleCanBeHeld
<1> QED BY <1>1, <1>2, <1>3

\* The leg that is asked for is the one that was on the screen.
LEMMA ShownLegIsKept ==
    ASSUME OwnFlights, LegsAreNamed, NumbersAreKept, RightInv, SeenInv
    PROVE  ShownLegIsAskedFor
<1> SUFFICES ASSUME pc = "booked"
             PROVE  LET asked == held.request.route.segs[1]
                        first == ChosenOffer.segs[1]
                    IN  /\ <<asked.from, asked.to, asked.depart>> = <<first.from, first.to, first.depart>>
                        /\ FlightNumber(asked.carrier, asked.number) = first.number
  BY DEF ShownLegIsAskedFor
<1> DEFINE f == ChosenRaw
           g == held.flight
           first == ChosenOffer.segs[1]
<1>1. SeenFits /\ ChoiceFits /\ HeldFits(held) /\ Picked(g, held.fare)
  BY DEF RightInv, SeenInv, Displayed, Chosen, Holding
<1>2. choice.offer \in DOMAIN offers /\ f = seen.raw[choice.offer] /\ ChosenOffer = offers[choice.offer]
  BY <1>1 DEF ChoiceFits, ChosenRaw, ChosenOffer
<1>3. /\ Ordinary(f) /\ ~Malformed(f) /\ ChosenOffer.airline = f.airline
      /\ ChosenOffer.number = HeldNumber(f) /\ first = Segments(f)[1]
  BY <1>1, <1>2, SeenFlightsAreShown
<1>4. /\ first.number = HeldNumber(f) /\ first.depart = FirstLeg(f).depart
      /\ first.from = FirstLeg(f).from /\ first.to = FirstLeg(f).to
      /\ Null \notin {first.from, first.to}
  BY <1>3, LegIsShown, ShownAsHeld
<1>5. HeldNumber(g) = HeldNumber(f) /\ HeldDepart(g) = first.depart /\ HeldDepart(g) # Null
  BY <1>1, <1>3, NullIsNoValue DEF Picked
<1>6. Ordinary(g) /\ Named(g) /\ FirstLeg(g).from = first.from /\ FirstLeg(g).to = first.to
  <2>1. CASE provider = "mock"
    <3>1. PICK j \in 1..4 : f = Mock[j]
      BY <1>1, <1>2, <2>1, SeenFlightsAreShown
    <3>2. PICK found : found = MockFind(From, To, ChosenOffer.airline, ChosenClass)
                       /\ found = [flight |-> g, fare |-> held.fare] /\ found # Null
      BY <1>1, <2>1 DEF HeldFits, HeldAtMock
    <3>3. found.flight = Mock[j]
      BY <1>3, <3>1, <3>2, MockFindsItsFlight
    <3>4. g = f
      BY <3>1, <3>2, <3>3
    <3>5. Named(f)
      BY <3>1, MockIsOrdinary
    <3> QED BY <1>3, <1>4, <3>4, <3>5
  <2>2. CASE provider # "mock"
    <3>1. PICK a \in Airlines : a = f.airline /\ a = ChosenOffer.airline
      BY <1>1, <1>2, <1>3, <2>2, SeenFlightsAreShown
    <3>2. PICK j \in DOMAIN AnswerOf(market, a) : g = AnswerOf(market, a)[j]
      BY <1>1, <2>2, <3>1 DEF HeldFits, HeldAtMuadi
    <3>3. PICK i \in DOMAIN AnswerOf(seen.market, a) : f = AnswerOf(seen.market, a)[i]
      BY <1>1, <1>2, <2>2, <3>1, SeenFlightsAreShown
    <3>4. market \in Markets /\ seen.market \in Markets
      BY <1>1 DEF RightInv, SeenFits
    <3>5. Ordinary(g) /\ Named(g)
      BY <3>2, <3>4, AnswersAreOrdinary
    <3>6. FirstLeg(g).number = HeldNumber(g) /\ FirstLeg(f).number = HeldNumber(f)
      BY DEF FirstLeg
    <3>7. FirstLeg(g).depart = HeldDepart(g)
      BY <1>5, <3>5, LegIsShown, ShownAsHeld
    <3>8. i \in DOMAIN seen.market[a].flights /\ j \in DOMAIN market[a].flights
      BY <3>2, <3>3, <3>4, AnswersAreFlights
    <3>9. FirstLeg(f).number = FirstLeg(g).number /\ FirstLeg(f).depart = FirstLeg(g).depart
      BY <1>4, <1>5, <3>6, <3>7
    <3>10. FirstLeg(f).from = FirstLeg(g).from /\ FirstLeg(f).to = FirstLeg(g).to
      BY <3>2, <3>3, <3>4, <3>8, <3>9 DEF NumbersAreKept
    <3> QED BY <1>4, <3>5, <3>10
  <2> QED BY <2>1, <2>2
<1>7. held.request = HoldRequest(g, held.fare, held.snapshot)
  BY <1>1 DEF HeldFits
<1> DEFINE asked == HoldRequest(g, held.fare, held.snapshot).route.segs[1]
<1>8. /\ <<asked.from, asked.to, asked.depart>> = <<first.from, first.to, HeldDepart(g)>>
      /\ FlightNumber(asked.carrier, asked.number) = HeldNumber(g)
  <2> HIDE DEF g, first
  <2> QED BY <1>4, <1>5, <1>6, FoundLegIsAskedFor
<1> HIDE DEF asked, first
<1> QED BY <1>4, <1>5, <1>7, <1>8 DEF asked, first

\* What is held is a flight as airlines answer it.
LEMMA HeldIsOrdinary ==
    ASSUME OwnFlights, market \in Markets, SeenFits, ChoiceFits, NEW h, HeldFits(h)
    PROVE  Ordinary(h.flight)
<1>1. CASE provider = "mock"
  <2>1. PICK found : found = MockFind(From, To, ChosenOffer.airline, ChosenClass)
                     /\ found = [flight |-> h.flight, fare |-> h.fare] /\ found # Null
    BY <1>1 DEF HeldFits, HeldAtMock
  <2>2. choice.offer \in DOMAIN offers /\ ChosenOffer = offers[choice.offer]
    BY DEF ChoiceFits, ChosenOffer
  <2>3. PICK j \in 1..4 : Mock[j].airline = ChosenOffer.airline
    <3>1. PICK f : f = seen.raw[choice.offer] /\ ChosenOffer.airline = f.airline /\ \E j \in 1..4 : f = Mock[j]
      BY <1>1, <2>2, SeenFlightsAreShown
    <3> QED BY <3>1
  <2>4. found.flight = Mock[j]
    BY <2>1, <2>3, MockFindsItsFlight
  <2> QED BY <2>1, <2>4, MockIsOrdinary
<1>2. CASE provider # "mock"
  <2>1. PICK a \in Airlines : a = ChosenOffer.airline /\ \E j \in DOMAIN AnswerOf(market, a) : h.flight = AnswerOf(market, a)[j]
    BY <1>2 DEF HeldFits, HeldAtMuadi
  <2> QED BY <2>1, AnswersAreOrdinary
<1> QED BY <1>1, <1>2

\* Undisturbed, what is booked costs at the gateway what the fare was listed at.
LEMMA SameNet ==
    ASSUME OwnFlights, RightInv, CoverInv, SeenInv, pc = "booked", ~replaced, Heads(query) = 1,
           NEW f, f = ChosenRaw, NEW r, r = f.fares[choice.fare], held.flight = f, held.fare = r,
           provider = "mock" => f.fees = Null
    PROVE  held.total = NetPrice(f, r)
<1>1. SeenFits /\ ChoiceFits /\ HeldFits(held) /\ held.total = Sum(held.rows)
  BY DEF SeenInv, CoverInv, Displayed, Chosen, Holding
<1>2. choice.offer \in DOMAIN offers /\ f = seen.raw[choice.offer]
  BY <1>1 DEF ChoiceFits, ChosenRaw
<1>3. f \in RawFlight /\ r \in RawFare /\ choice.fare \in DOMAIN f.fares
  <2>1. f \in RawFlight
    BY <1>1, <1>2, SeenFlightsAreFlights
  <2>2. choice.fare \in DOMAIN f.fares
    BY <1>1, ChosenFareIsShown
  <2> QED BY <2>1, <2>2 DEF RawFlight
<1>4. CASE provider = "mock"
  <2>1. PICK j \in 1..4 : f = Mock[j]
    BY <1>1, <1>2, <1>4, SeenFlightsAreShown
  <2>2. choice.fare \in 1..2
    BY <1>3, <2>1, MockFlightsAreKept
  <2>3. FareTotal(f, r) = NetPrice(f, r) /\ FareTotal(f, r) \in Int
    BY <1>4, <2>1, <2>2, MockCountsTheSame
  <2>4. held.rows = <<[pnr |-> "OFMOCK", total |-> FareTotal(f, r), limit |-> MockLimit]>>
    BY <1>1, <1>4 DEF HeldFits, HeldAtMock
  <2>5. Len(held.rows) = 1 /\ held.rows[1].total = FareTotal(f, r)
    BY <2>4
  <2>6. Sum(held.rows) = FareTotal(f, r)
    BY <2>3, <2>5, SumOfFew
  <2> QED BY <1>1, <2>3, <2>6
<1>5. CASE provider # "mock"
  <2>1. held.rows \in Rows(GatewayTotal(f, r, held.snapshot.query)) /\ held.snapshot.query = query
    BY <1>1, <1>5 DEF HeldFits, HeldAtMuadi
  <2>2. NetPrice(f, r) \in Int
    BY <1>3, PriceIsANumber
  <2>3. GatewayTotal(f, r, held.snapshot.query) = NetPrice(f, r)
    BY <2>1, <2>2 DEF GatewayTotal
  <2>4. held.rows \in Rows(NetPrice(f, r))
    BY <2>1, <2>3
  <2> QED BY <1>1, <2>2, <2>4, RowsCostTheTotal
<1> QED BY <1>4, <1>5

LEMMA SeenPriceIsKept ==
    ASSUME OwnFlights, RightInv, CoverInv, SeenInv
    PROVE  PriceIsKept
<1> DEFINE f == ChosenRaw
           i == choice.fare
           r == f.fares[i]
<1> SUFFICES ASSUME pc = "booked", Undisturbed, Heads(query) = 1, NoTwins, OneFarePerCode(f),
                    r.info.cabin # Null, provider = "mock" => f.fees = Null
             PROVE  booking.sell = ChosenFare.price
  BY DEF PriceIsKept
<1>1. SeenFits /\ ChoiceFits /\ HeldFits(held) /\ Picked(held.flight, held.fare)
  BY DEF RightInv, SeenInv, Displayed, Chosen, Holding
<1>2. seen.market = market /\ ~replaced /\ seen.rules = rules /\ booking.loaded /\ \A rule \in rules : rule.tiers = {}
  BY DEF Undisturbed
<1>3. held.flight = f
  BY <1>1, <1>2, SameFlight
<1>4. held.fare = r
  BY <1>1, <1>3, SameFare
<1>5. held.total = NetPrice(f, r)
  BY <1>2, <1>3, <1>4, SameNet
<1>6. booking.sell = SellPrice(rules, HoldInput(f, r, held.snapshot, choice.tier, booking.located), NetPrice(f, r))
  BY <1>2, <1>3, <1>4, <1>5 DEF SeenInv
<1> DEFINE known == RouteOf(ChosenOffer) \in seen.located
<1>7. /\ ChosenFare.price = SellPrice(rules, ShownInput(NormalizeFlight(f), FareClass(f, i), known), NetPrice(f, r))
      /\ i \in DOMAIN f.fares
  BY <1>1, <1>2, ChosenFareIsShown
<1>8. Ordinary(f) /\ ~Malformed(f)
  <2>1. choice.offer \in DOMAIN offers /\ f = seen.raw[choice.offer]
    BY <1>1 DEF ChoiceFits, ChosenRaw
  <2> QED BY <1>1, <2>1, SeenFlightsAreShown
<1>9. \A k \in ScopeFields : ShownInput(NormalizeFlight(f), FareClass(f, i), known)[k]
                               = HoldInput(f, r, held.snapshot, choice.tier, known)[k]
  BY <1>7, <1>8, SameScope
<1>10. HoldInput(f, r, held.snapshot, choice.tier, known) = HoldInput(f, r, held.snapshot, choice.tier, booking.located)
  <2>1. booking.located <=> known
    BY DEF Undisturbed
  <2>2. \A from, to : Domestic(from, to, known) = Domestic(from, to, booking.located)
    BY <2>1 DEF Domestic
  <2> QED BY <2>2 DEF HoldInput
<1> HIDE DEF f, r, known
<1> QED BY <1>2, <1>6, <1>7, <1>9, <1>10, SameInputSamePrice

\* Where an airline's answer names no other airline, and whatever the gateway answers and whatever
\* changes between the search and the hold, a row has the date and the class of what was picked,
\* and the number that was shown, with its carrier twice if the answer's number has it
\* (flights.service.ts, offer snapshots; real-muadi.provider.ts, findMatchingFlight;
\* booking.service.ts, buildFlightNumber).
THEOREM ThePickedFlightIsBooked ==
    ASSUME OwnFlights
    PROVE  Spec => []RightFlightIsBooked
<1>1. RightInv /\ SeenInv => RightFlightIsBooked
  <2> SUFFICES ASSUME RightInv, SeenInv, pc = "booked"
               PROVE  /\ booking.number = Filed(ChosenOffer.number, NumberGiven(held.flight))
                      /\ booking.depart = ChosenOffer.segs[1].depart
                      /\ Answers(held.fare, ChosenClass)
    BY DEF RightFlightIsBooked
  <2>1. /\ booking.number = FiledNumber(held.flight) /\ booking.depart = HeldDepart(held.flight)
        /\ Picked(held.flight, held.fare) /\ market \in Markets
    BY DEF RightInv, Holding
  <2>2. Ordinary(held.flight)
    BY <2>1, HeldIsOrdinary DEF SeenInv, Displayed, Chosen, Holding
  <2> QED BY <2>1, <2>2, NumberIsFiled DEF Picked
<1> QED BY <1>1, RightStarts, RightIsKept, SeenStarts, SeenIsKept, PTL DEF Spec

\* Where an airline's answer names no other airline, names its first legs and keeps a number and a
\* time for one leg, what is shown on sale is held while the answer stands, and the leg that was
\* on the screen is the one that is asked for, whatever has changed (real-muadi.provider.ts,
\* findMatchingFlight; book-request.builder.ts; flights/normalizer.ts).
THEOREM WhatIsShownIsHeld ==
    ASSUME OwnFlights, LegsAreNamed, NumbersAreKept
    PROVE  Spec => []OnSaleIsHeldAsShown
<1>1. Init => WhatIsOnSaleCanBeHeld
  BY DEF Init, WhatIsOnSaleCanBeHeld
<1>2. RightInv /\ SeenInv /\ WhatIsOnSaleCanBeHeld => OnSaleIsHeldAsShown
  BY ShownLegIsKept DEF OnSaleIsHeldAsShown
<1>3. RightInv /\ SeenInv /\ WhatIsOnSaleCanBeHeld /\ [Next]_vars => WhatIsOnSaleCanBeHeld'
  BY OnSaleIsKept
<1> HIDE DEF WhatIsOnSaleCanBeHeld
<1> QED BY <1>1, <1>2, <1>3, RightStarts, RightIsKept, SeenStarts, SeenIsKept, PTL DEF Spec

\* Where an airline's answer names no other airline, one passenger is charged the price that was
\* shown of the fare that was picked, for every market, every set of rules and every way the
\* reservations are filed, when nothing changed, the airports of the route were readable at the
\* search and at the hold or at neither, and the fare was listed once and with its cabin
\* (markup.service.ts, applyMarkupToOffers, isDomesticRoute; booking.service.ts, persistHeldBooking).
THEOREM TheShownPriceIsCharged ==
    ASSUME OwnFlights
    PROVE  Spec => []PriceIsKept
<1>1. RightInv /\ CoverInv /\ SeenInv => PriceIsKept
  BY SeenPriceIsKept
<1> QED BY <1>1, RightStarts, RightIsKept, CoverStarts, CoverIsKept, SeenStarts, SeenIsKept, PTL DEF Spec
=============================================================================
