---------------------------- MODULE FareJourney ----------------------------
(***************************************************************************)
(* The journey of one price: a search turns the gateway's answer into      *)
(* offers, the snapshot of each offer is stored under its id, the offers   *)
(* are marked up and shown; a customer (through the web client) or the     *)
(* hunter picks one; the hold searches the gateway again, looks for the    *)
(* flight and the fare, books, reconciles the price and marks it up again. *)
(*                                                                         *)
(* Between the search and the hold the gateway's flights and the rules may *)
(* change, the snapshot may lapse, and another search of the same flights  *)
(* for other passengers may replace it.  Each happens at most once.        *)
(***************************************************************************)
EXTENDS MockMuadi, MarkupEngine, HeldSeats

CONSTANTS Markets,     \* what the gateway may answer: [airline -> [flights, fees]]
          RuleSets,    \* the sets of active mark-up rules that may be in the table
          Queries,     \* the passengers asked for: [adt, chd]
          Parties,     \* the passengers that are booked: [adt, chd]
          Tiers,       \* membership tiers
          LimitPairs,  \* time limits two reservations of a booking may get
          From, To, Attempts

VARIABLES provider,    \* "muadi" or "mock"
          market, rules,
          pc,          \* where the journey is
          query,       \* what was searched
          offers,      \* what was shown
          snapshots,   \* Redis: offer id -> snapshot
          seen,        \* the market, the raw flights, the rules and the routes the offers were made of (history)
          replaced,    \* another search has written its snapshots since (history)
          choice,      \* [who, offer, fare, party, tier]
          held,        \* what the gateway booked
          tries,       \* questions about the price of the booking so far
          booking      \* the row of the booking
vars == <<provider, market, rules, pc, query, offers, snapshots, seen, replaced, choice, held, tries, booking>>

Heads(p) == p.adt + p.chd

Airlines == {"VN", "VJ"}

ASSUME JourneyAssumption ==
    /\ \A m \in Markets : \A airline \in Airlines : m[airline] \in GatewayAnswer
    /\ Airlines \subseteq STRING /\ Null \notin Airlines /\ Null \notin RawFlight /\ Null \notin RawFare
    /\ \A i \in 1..4 : LET f == BuildMockFlights(From, To)[i]
                       IN  /\ f \in RawFlight /\ Null \notin {f.airline, f.segs[1].number, f.segs[1].to}
                           /\ \A k \in 1..2 : f.fares[k].class # Null /\ [flight |-> f, fare |-> f.fares[k]] # Null
    /\ \A l \in LimitPairs : \A i \in 1..2 : l[i] \in Moment \ {Null}
    /\ Attempts \in Nat \ {0} /\ {PaymentBuffer, MinWindow, FallbackHold, BeforeDeparture} \subseteq Nat

Init ==
    /\ provider \in {"muadi", "mock"}
    /\ market \in Markets /\ rules \in RuleSets
    /\ provider = "mock" => market = CHOOSE m \in Markets : TRUE    \* it has its own flights
    /\ pc = "idle" /\ query = Null /\ offers = <<>> /\ snapshots = <<>>
    /\ seen = Null /\ replaced = FALSE /\ choice = Null /\ held = Null /\ tries = 0 /\ booking = Null

-----------------------------------------------------------------------------
(* A search. *)

AnswerOf(m, airline) ==
    [i \in DOMAIN m[airline].flights |-> WithAirline(m[airline].flights[i], airline, m[airline].fees)]

\* The flights of the airlines whose search succeeded, in the order of the list.
RawFlights(m, answered) ==
    IF provider = "mock" THEN BuildMockFlights(From, To)
    ELSE (IF "VN" \in answered THEN AnswerOf(m, "VN") ELSE <<>>) \o (IF "VJ" \in answered THEN AnswerOf(m, "VJ") ELSE <<>>)

NetOffers(raw) == [i \in DOMAIN raw |-> NormalizeFlight(raw[i])]

Snapshots(net, q) ==
    [id \in {net[i].id : i \in DOMAIN net} |->
        OfferSnapshot(net[CHOOSE i \in DOMAIN net : net[i].id = id], q)]

\* located: whether the airports of its route could be read.
MarkedUp(rs, located, offer) ==
    LET fares == [i \in DOMAIN offer.fares |->
                    [offer.fares[i] EXCEPT !.price = SellPrice(rs, ShownInput(offer, offer.fares[i], located), @)]]
    IN  [offer EXCEPT !.fares = fares, !.cheapest = CheapestPrice(fares)]

Merge(new, old) == [id \in DOMAIN new \cup DOMAIN old |-> IF id \in DOMAIN new THEN new[id] ELSE old[id]]

\* The airports are read once per route.
RouteOf(offer) == <<offer.segs[1].from, offer.segs[Len(offer.segs)].to>>

\* Rules that cannot be read mark nothing up; the airports of some routes may not be
\* read either; a snapshot that cannot be written is skipped.
Search(q, answered, loaded, lost) ==
    LET raw == RawFlights(market, answered)
        net == NetOffers(raw)
        rs  == IF loaded THEN rules ELSE {}
    IN  /\ pc = "idle" /\ answered # {}
        /\ query' = q
        /\ IF \E i \in DOMAIN raw : Malformed(raw[i])
           THEN pc' = "searchFailed" /\ UNCHANGED <<offers, snapshots, seen>>
           ELSE /\ pc' = "shown"
                /\ snapshots' = IF lost THEN snapshots ELSE Merge(Snapshots(net, q), snapshots)
                /\ \E located \in SUBSET {RouteOf(net[i]) : i \in DOMAIN net} :
                     /\ offers' = [i \in DOMAIN net |-> MarkedUp(rs, RouteOf(net[i]) \in located, net[i])]
                     /\ seen' = [market |-> market, rules |-> rs, raw |-> raw, located |-> located]
        /\ UNCHANGED <<provider, market, rules, replaced, choice, held, tries, booking>>

\* The same flights searched for other passengers: only the snapshots matter here.
OtherSearch(q) ==
    LET raw == RawFlights(market, Airlines)
    IN  /\ pc = "shown" /\ ~replaced /\ q # query
        /\ \A i \in DOMAIN raw : ~Malformed(raw[i])
        /\ snapshots' = Merge(Snapshots(NetOffers(raw), q), snapshots)
        /\ replaced' = TRUE
        /\ UNCHANGED <<provider, market, rules, pc, query, offers, seen, choice, held, tries, booking>>

-----------------------------------------------------------------------------
(* What changes meanwhile. *)

Reprice ==
    /\ pc = "shown" /\ provider = "muadi" /\ market = seen.market
    /\ \E m \in Markets \ {market} : market' = m
    /\ UNCHANGED <<provider, rules, pc, query, offers, snapshots, seen, replaced, choice, held, tries, booking>>

ChangeRules ==
    /\ pc = "shown" /\ rules = seen.rules
    /\ \E rs \in RuleSets \ {rules} : rules' = rs
    /\ UNCHANGED <<provider, market, pc, query, offers, snapshots, seen, replaced, choice, held, tries, booking>>

SnapshotExpires ==
    /\ pc = "shown" /\ snapshots # <<>>
    /\ snapshots' = <<>>
    /\ UNCHANGED <<provider, market, rules, pc, query, offers, seen, replaced, choice, held, tries, booking>>

-----------------------------------------------------------------------------
(* A choice, then the hold. *)

\* The web client shows the cheapest price of an offer and keeps its first fare's code.
AdaptOffer(offer) == [price |-> offer.cheapest, fare |-> 1]

\* The hunter picks a fare on sale at the lowest price of all.
CheapestBookable ==
    LET all == {p \in (DOMAIN offers) \X (1..3) : p[2] \in Buyable(offers[p[1]].fares)}
    IN  {p \in all : \A q \in all : offers[p[1]].fares[p[2]].price <= offers[q[1]].fares[q[2]].price}

Pick(who, o, i, price, party, tier) ==
    /\ pc = "shown" /\ choice = Null
    /\ choice' = [who |-> who, offer |-> o, fare |-> i, price |-> price, party |-> party, tier |-> tier]
    /\ pc' = "chosen"
    /\ UNCHANGED <<provider, market, rules, query, offers, snapshots, seen, replaced, held, tries, booking>>

CustomerPicks(o, party, tier) ==
    /\ offers[o].fares # <<>>
    /\ Pick("customer", o, AdaptOffer(offers[o]).fare, AdaptOffer(offers[o]).price, party, tier)

HunterPicks(o, i, party, tier) ==
    /\ <<o, i>> \in CheapestBookable
    /\ Pick("hunter", o, i, offers[o].fares[i].price, party, tier)

ChosenOffer == offers[choice.offer]
ChosenClass == ChosenOffer.fares[choice.fare].code

\* What one passenger of the booked fare costs at the gateway, times the passengers asked for.
GatewayTotal(f, r, counts) == Heads(counts) * NetPrice(f, r)

FaultOneLeg(f) == <<FallbackSegment(f)>>
\* The one segment of a flight without a route is the flight itself.
SegmentsOf(f) == IF f.segs # <<>> THEN f.segs ELSE <<FallbackSegment(f)>>

\* Every segment is asked for in the class of the fare.
RouteEntry(f, r, from, to) ==
    [from |-> from, to |-> to, airline |-> f.airline,
     segs |-> [i \in DOMAIN SegmentsOf(f) |->
        LET s == SegmentsOf(f)[i]
        IN  [from |-> FirstOf(<<s.from, from>>), to |-> FirstOf(<<s.to, to>>),
             depart |-> FirstOf(<<s.depart, f.departAt>>), number |-> s.number,
             carrier |-> FirstOf(<<s.carrier, f.airline>>), class |-> r.class,
             cabin |-> FirstOf(<<r.info.cabin, "Economy">>)]]]

\* The passengers in the order of the form; the first one answers for the contact.
PassengerList(party) == [i \in 1..Heads(party) |-> IF i <= party.adt THEN "ADT" ELSE "CHD"]

\* The counts are those of the search, the passengers those of the form.
BookRequest(f, r, counts, party, from, to) ==
    [route |-> RouteEntry(f, r, from, to), pax |-> PassengerList(party), counts |-> counts]

HoldRequest(f, r, snapshot) ==
    BookRequest(f, r, snapshot.query, choice.party,
                FirstOf(<<FirstSegment(f, "from"), f.from, From>>),
                FirstOf(<<IF f.segs = <<>> THEN Null ELSE f.segs[Len(f.segs)].to, f.to, To>>))

\* The gateway files the passengers under one reservation code or two.
Rows(total) ==
    {<<[pnr |-> "P1", total |-> total, limit |-> l[1]]>> : l \in LimitPairs} \cup
    {<<[pnr |-> "P1", total |-> total \div 2, limit |-> l[1]],
       [pnr |-> "P2", total |-> total - total \div 2, limit |-> l[2]]>> : l \in LimitPairs}

\* rows is what the gateway has, info the last answer about it, total and pnrs what was made of it.
Booked(f, r, snapshot, rows) ==
    [flight |-> f, fare |-> r, request |-> HoldRequest(f, r, snapshot), snapshot |-> snapshot,
     rows |-> rows, info |-> <<>>, total |-> Null, pnrs |-> <<>>]

\* The hold is answered: what was learnt of its reservations is all that is kept.
Settled(h, info, pricing) ==
    [h EXCEPT !.total = pricing.total, !.pnrs = ExtractPnrs(info, pricing), !.info = <<>>]

HoldFails(why) == pc' = why /\ UNCHANGED <<held, tries>>

HoldAtMuadi(snapshot) ==
    LET flights == IF snapshot.airline \in Airlines THEN AnswerOf(market, snapshot.airline) ELSE <<>>
        found   == FindMatchingFlight(flights, snapshot, ChosenClass)
        r       == ResolveFare(ChosenClass, found.flight)
    IN  IF found.throws THEN HoldFails("error")
        ELSE IF found.flight = Null THEN HoldFails("soldOut")
        ELSE /\ \E rows \in Rows(GatewayTotal(found.flight, r, snapshot.query)) :
                   held' = Booked(found.flight, r, snapshot, rows)
             /\ pc' = "pricing" /\ tries' = 0

HoldAtMock(snapshot) ==
    LET found == MockFind(From, To, snapshot.airline, ChosenClass)
    IN  IF found = Null THEN HoldFails("soldOut")
        ELSE LET rows == <<[pnr |-> "OFMOCK", total |-> FareTotal(found.flight, found.fare), limit |-> MockLimit]>>
             IN  /\ held' = Settled(Booked(found.flight, found.fare, snapshot, rows), rows, Pricing(rows))
                 /\ pc' = "priced" /\ UNCHANGED tries

Hold ==
    /\ pc = "chosen"
    /\ IF ChosenOffer.id \notin DOMAIN snapshots THEN HoldFails("gone")
       ELSE IF provider = "mock" THEN HoldAtMock(snapshots[ChosenOffer.id])
       ELSE HoldAtMuadi(snapshots[ChosenOffer.id])
    /\ UNCHANGED <<provider, market, rules, query, offers, snapshots, seen, replaced, choice, booking>>

-----------------------------------------------------------------------------
(* The price of what was booked.  An answer may come before the rows are   *)
(* there, or before some of them has its price; the gateway is taken to    *)
(* list the rows of one booking together.                                  *)

\* An answer about the rows, without the prices that are not there yet.
Shown(rows, priced) ==
    [i \in DOMAIN rows |-> IF i \in priced THEN rows[i] ELSE [rows[i] EXCEPT !.total = Null]]

\* Another booking of the agent.
Foreign == [pnr |-> "P9", total |-> 7000, limit |-> 30]

AskTicketInfo(listed, priced) ==
    LET info == IF listed THEN Shown(held.rows, priced) ELSE <<>>
        pricing == PricingFromTicketInfo(info)
    IN  /\ pc = "pricing"
        /\ priced \subseteq IF listed THEN DOMAIN held.rows ELSE {}
        /\ IF pricing # Null
           THEN held' = Settled(held, info, pricing) /\ pc' = "priced" /\ UNCHANGED tries
           ELSE /\ held' = [held EXCEPT !.info = Shown(info, {})]     \* its prices are not read again
                /\ IF tries + 1 < Attempts THEN pc' = pc /\ tries' = tries + 1 ELSE pc' = "fallback" /\ tries' = 0
        /\ UNCHANGED <<provider, market, rules, query, offers, snapshots, seen, replaced, choice, booking>>

\* The list of bookings is asked for the codes the last answer gave.
AskListBooking(priced) ==
    LET codes == PnrCodes(held.info)
        pricing == PricingFromListBooking(<<Foreign>> \o Shown(held.rows, priced), codes)
    IN  /\ pc = "fallback"
        /\ priced \subseteq DOMAIN held.rows
        /\ IF codes = <<>> THEN HoldFails("unpriced")
           ELSE IF pricing # Null
           THEN held' = Settled(held, held.info, pricing) /\ pc' = "priced" /\ UNCHANGED tries
           ELSE IF tries + 1 < Attempts THEN tries' = tries + 1 /\ UNCHANGED <<pc, held>> ELSE HoldFails("unpriced")
        /\ UNCHANGED <<provider, market, rules, query, offers, snapshots, seen, replaced, choice, booking>>

-----------------------------------------------------------------------------
(* The booking row. *)

PriceChanged(snapshot, total) ==
    LET off == IF total >= snapshot.price THEN total - snapshot.price ELSE snapshot.price - total
    IN  snapshot.price > 0 /\ 20 * off > snapshot.price

\* What the total is marked up with: the tier of the user, the cabin of the raw
\* fare (economy when it has none), the ends of the raw flight.
HoldInput(f, r, snapshot, tier, located) ==
    LET from == FirstOf(<<FirstSegment(f, "from"), f.from, From>>)
        to   == FirstOf(<<IF f.segs = <<>> THEN Null ELSE f.segs[Len(f.segs)].to, f.to, To>>)
    IN  [channel |-> "B2C", airline |-> f.airline, cabin |-> FirstOf(<<r.info.cabin, "Economy">>), paxType |-> "ADT",
         from |-> from, to |-> to, domestic |-> Domestic(from, to, located), tier |-> tier]

Deadline == PaymentDeadline(held.pnrs, HeldDepart(held.flight))

\* The seats are held at the gateway all the same.
RefuseShortWindow ==
    /\ pc = "priced" /\ WindowTooShort(Deadline)
    /\ HoldFails("tooShort")
    /\ UNCHANGED <<provider, market, rules, query, offers, snapshots, seen, replaced, choice, booking>>

\* The rules may be unreadable here too, and the total then stays net; so may the airports.
Persist(loaded, located) ==
    /\ pc = "priced" /\ ~WindowTooShort(Deadline)
    /\ pc' = "booked"
    /\ booking' = [number |-> FiledNumber(held.flight), depart |-> HeldDepart(held.flight), net |-> held.total,
                   sell |-> SellPrice(IF loaded THEN rules ELSE {},
                                      HoldInput(held.flight, held.fare, held.snapshot, choice.tier, located), held.total),
                   priceChanged |-> PriceChanged(held.snapshot, held.total), loaded |-> loaded, located |-> located,
                   deadline |-> Deadline, pnrs |-> StoredPnrs(held.pnrs, HeldDepart(held.flight))]
    /\ UNCHANGED <<provider, market, rules, query, offers, snapshots, seen, replaced, choice, held, tries>>

Next ==
    \/ \E q \in Queries, answered \in SUBSET Airlines, loaded, lost \in BOOLEAN : Search(q, answered, loaded, lost)
    \/ \E q \in Queries : OtherSearch(q)
    \/ Reprice
    \/ ChangeRules
    \/ SnapshotExpires
    \/ \E o \in DOMAIN offers, party \in Parties, tier \in Tiers :
          CustomerPicks(o, party, tier) \/ \E i \in 1..3 : HunterPicks(o, i, party, tier)
    \/ Hold
    \/ \E listed \in BOOLEAN, priced \in SUBSET (1..2) : AskTicketInfo(listed, priced)
    \/ \E priced \in SUBSET (1..2) : AskListBooking(priced)
    \/ RefuseShortWindow
    \/ \E loaded, located \in BOOLEAN : Persist(loaded, located)

Spec == Init /\ [][Next]_vars

-----------------------------------------------------------------------------
(* Properties. *)

(* What the code takes for granted of the gateway's answer.                *)

\* A class of the flight answers to one fare only, and is one the gateway knows.
OneFarePerCode(f) ==
    \A i, j \in DOMAIN f.fares :
        LET code(k) == FareCode(f.fares[k], k)
        IN  Answers(f.fares[i], code(i)) /\ (Answers(f.fares[i], code(j)) => i = j)

NoTwins ==
    \A i, j \in DOMAIN offers :
        offers[i].number = offers[j].number /\ offers[i].segs[1].depart = offers[j].segs[1].depart => i = j

\* Every flight has its moment of departure where the hold looks for it.
DatesAreKept == \A i \in DOMAIN seen.raw : ~Unreadable(HeldDepart(seen.raw[i]))

\* An airline's answer names no other airline as the one that sells or flies it.
OwnFlights ==
    \A m \in Markets, airline \in Airlines : \A i \in DOMAIN m[airline].flights :
        {m[airline].flights[i].airline, m[airline].flights[i].carrier} \subseteq {Null, airline}

\* The first leg of a route says its number, if its flight does, and where it ends.
LegsAreNamed ==
    \A m \in Markets, airline \in Airlines : \A i \in DOMAIN m[airline].flights :
        LET f == m[airline].flights[i]
        IN  f.segs # <<>> => (f.segs[1].number # Null \/ f.number = Null) /\ f.segs[1].to # Null

\* The first leg of a flight, as far as the answer says.
FirstLeg(f) ==
    LET s == RawSegments(f)[1]
    IN  [number |-> HeldNumber(f), depart |-> FirstOf(<<s.depart, f.departAt>>),
         from |-> FirstOf(<<s.from, f.from>>), to |-> FirstOf(<<s.to, f.to>>)]

\* A number and a time of departure stand for one leg, today and in any later answer.
NumbersAreKept ==
    \A m, n \in Markets, airline \in Airlines :
        \A i \in DOMAIN m[airline].flights, j \in DOMAIN n[airline].flights :
            LET s == FirstLeg(AnswerOf(m, airline)[i])
                t == FirstLeg(AnswerOf(n, airline)[j])
            IN  s.number = t.number /\ s.depart = t.depart => s.from = t.from /\ s.to = t.to

ChosenRaw == seen.raw[choice.offer]
ChosenFare == ChosenOffer.fares[choice.fare]

\* Nothing changed between the search and the booking, nor can it differ by user.
Undisturbed ==
    /\ seen.market = market /\ ~replaced
    /\ seen.rules = rules /\ booking.loaded
    /\ booking.located <=> RouteOf(ChosenOffer) \in seen.located
    /\ \A r \in rules : r.tiers = {}

(* One passenger is charged the price that was shown of the fare that was  *)
(* picked, listed once and with its cabin, when nothing changed since the  *)
(* search and the airports were readable then and now, or neither time:    *)
(* four computations of a price (normalizer, mark-up of the offers,        *)
(* reconciliation, mark-up of the total) agree (flights.service.ts:58,     *)
(* booking.service.ts:67).  The web client may have shown the price of     *)
(* another fare, see ReviewedPriceIsCharged.                               *)
PriceIsKept ==
    (/\ pc = "booked" /\ Undisturbed /\ Heads(query) = 1
     /\ NoTwins /\ OneFarePerCode(ChosenRaw) /\ ChosenRaw.fares[choice.fare].info.cabin # Null
     /\ provider = "mock" => ChosenRaw.fees = Null)
    => booking.sell = ChosenFare.price

(* A fare shown on sale can be held, unless the gateway's answer changed,  *)
(* or the fare has no class of its own, or a flight came with a day only   *)
(* (real-muadi.provider.ts:579 against normalizer.ts:167).                 *)
WhatIsOnSaleCanBeHeld ==
    pc \in {"soldOut", "error"} =>
        \/ seen.market # market
        \/ ChosenFare.soldOut
        \/ ~OneFarePerCode(ChosenRaw)
        \/ ~DatesAreKept

\* What becomes of a number that was shown, when the hold is given it in this form.
Filed(shown, given) ==
    IF given \in {Null, <<>>} THEN given
    ELSE IF Head(given) = Head(shown) THEN <<Head(shown)>> \o shown ELSE shown

(* Whatever changed in between, the row has the departure and the class    *)
(* that were picked, and the number that was shown: the id, the snapshot   *)
(* and the fresh search lead back to them (real-muadi.provider.ts:210).    *)
(* Only a number that comes with its carrier is filed with the carrier     *)
(* twice, and a number that does not come is not filed                     *)
(* (booking.service.ts:306 against normalizer.ts:358).                     *)
RightFlightIsBooked ==
    pc = "booked" =>
        /\ booking.number = Filed(ChosenOffer.number, NumberGiven(held.flight))
        /\ booking.depart = ChosenOffer.segs[1].depart
        /\ Answers(held.fare, ChosenClass)

(* The gateway is asked for the leg that was on the screen: the request is *)
(* built of the flight the hold found, by rules of its own                 *)
(* (book-request.builder.ts:82 against normalizer.ts:135).                 *)
ShownLegIsAskedFor ==
    pc = "booked" =>
        LET asked == held.request.route.segs[1]
            first == ChosenOffer.segs[1]
        IN  /\ <<asked.from, asked.to, asked.depart>> = <<first.from, first.to, first.depart>>
            /\ FlightNumber(asked.carrier, asked.number) = first.number

(* What the screen shows on sale is held, and asked for as it was shown:   *)
(* both depend on what the airlines answer.                                *)
OnSaleIsHeldAsShown == WhatIsOnSaleCanBeHeld /\ ShownLegIsAskedFor

Codes(rows) == {rows[i].pnr : i \in DOMAIN rows}

(* A booking answers for all of its reservations, however late their       *)
(* prices came: it has every code, it charges what they cost together, and *)
(* the time to pay ends the buffer before the first of them lapses         *)
(* (real-muadi.provider.ts:259, booking.service.ts:261).                   *)
ReservationsAreCovered ==
    pc = "booked" =>
        /\ Codes(booking.pnrs) = Codes(held.rows)
        /\ booking.net = Sum(held.rows)
        /\ booking.deadline > MinWindow
        /\ \A i \in DOMAIN held.rows :
             held.rows[i].limit # BadTime => booking.deadline + PaymentBuffer <= held.rows[i].limit

(* "the review shows the real offer price = the backend totalSellPrice     *)
(* that will be charged" (BookingReviewMobile.tsx:3).                      *)
ReviewedPriceIsCharged ==
    (/\ provider = "muadi" /\ pc = "booked" /\ Undisturbed /\ choice.who = "customer"
     /\ Heads(query) = 1 /\ Heads(choice.party) = 1)
    => booking.sell = choice.price

(* "Giá đổi / hết chỗ / window quá ngắn — không giữ được": an automatic    *)
(* hold at a changed price is rejected (auto-hold.service.ts:80).          *)
AutoHoldAtSeenPrice == (pc = "booked" /\ choice.who = "hunter") => ~booking.priceChanged
=============================================================================
