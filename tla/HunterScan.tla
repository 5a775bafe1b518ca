----------------------------- MODULE HunterScan -----------------------------
(***************************************************************************)
(* What one run of a fare hunt sees and decides: the days it searches, the *)
(* fare it keeps of every offer, the comparison with the previous run      *)
(* (hunt/hunter-diff.ts), the historical low, and the notification and     *)
(* status that follow (hunt/hunter-run.service.ts).  Jobs, workers and the *)
(* auto-hold's own limits are in HuntLifecycle; here a run has one worker, *)
(* searches its days one by one, and the owner may edit the hunt or resume *)
(* it meanwhile.                                                           *)
(*                                                                         *)
(* An answer of the search is a sequence of offers [airline, number,       *)
(* depart, fares], a fare is [price, seats, soldOut] with the price  *)
(* after mark-up.  Counters nobody reads (scansCount, emptyStreak) are     *)
(* left out.                                                               *)
(***************************************************************************)
EXTENDS Integers, Sequences, FiniteSets, FiniteSetsExt, Functions, SequencesExt

CONSTANTS
    Answers,      \* What a search of one day may answer.
    Hunts,        \* Hunts as created.
    Targets,      \* Target prices the owner may set.
    MaxDays,      \* HUNTER_MAX_DAYS_PER_RUN
    LowSeats,     \* DEFAULT_LOW_SEAT_THRESHOLD
    MaxRuns,      \* Bound on the runs that finish.
    Null

\* Prices are whole VND.
ScanFare == [price : Int, seats : Int, soldOut : BOOLEAN]
ScanOffer == [airline : STRING, number : STRING, depart : Int, fares : Seq(ScanFare)]
HuntStatus == {"HUNTING", "FOUND", "PAUSED", "EXPIRED", "CANCELLED"}
ScanNotices == {"HUNT_FOUND", "HELD", "HUNT_PROGRESS"}
ScanHunt ==
    [status : HuntStatus, target : Int, best : Int \cup {Null}, auto : BOOLEAN,
     airlines : SUBSET STRING, exact : BOOLEAN, first : Int, last : Int]
\* What a run keeps of an offer: the fare picked of it, and when and where it was found.
ScanItem ==
    [number : STRING, depart : Int \X Int, price : Int, seats : Int,
     place : (Nat \ {0}) \X (Nat \ {0})]

\* Null (null in the code) is no notice and no item.
ASSUME ScanAssumption ==
    /\ MaxDays \in Nat \ {0} /\ LowSeats \in Nat /\ MaxRuns \in Nat
    /\ Answers \subseteq Seq(ScanOffer) /\ Hunts \subseteq ScanHunt /\ Targets \subseteq Int
    /\ Null \notin ScanNotices /\ Null \notin ScanItem

VARIABLES
    hunt,     \* The row: [status, target, best, auto, airlines, exact, first, last].
    run,      \* The run under way: its copy of the hunt and the answers so far, or Null.
    row,      \* The last HuntRun without error: [items, cheapest, diff], or Null.
    observed, \* The prices of the route seen with seats in the last 30 days.
    sent,     \* The kind of notification the last run asked for, or Null.
    runs      \* Runs finished so far.

scanVars == <<hunt, run, row, observed, sent, runs>>

-----------------------------------------------------------------------------
(* What a run keeps of an answer. *)

\* Every day of the window up to the limit; the first alone if the window is empty.
ResolveDays(h) ==
    LET days == IF h.exact \/ h.last < h.first THEN 1 ELSE h.last - h.first + 1
    IN  [i \in 1..(IF days > MaxDays THEN MaxDays ELSE days) |-> h.first + i - 1]

\* The first of some fares with the smallest price.
FirstCheapest(fares, among) == fares[Min({i \in among : \A j \in among : fares[i].price <= fares[j].price})]

FaultAnyFare(offer) == FirstCheapest(offer.fares, DOMAIN offer.fares)
\* A fare on sale if there is one, else any fare at all.
CheapestFare(offer) ==
    LET onSale == {i \in DOMAIN offer.fares : ~offer.fares[i].soldOut /\ offer.fares[i].seats > 0}
    IN  FirstCheapest(offer.fares, IF onSale # {} THEN onSale ELSE DOMAIN offer.fares)

Permitted(h, offer) == h.airlines = {} \/ offer.airline \in h.airlines

\* departTime is a date and a time; the place of an item is the number of its day and
\* that of its offer in the day's answer.
Item(day, offer, place) ==
    LET fare == CheapestFare(offer)
    IN  [number |-> offer.number, depart |-> <<day, offer.depart>>, price |-> fare.price,
         seats |-> fare.seats, place |-> place]

Kept(h, answer) == {i \in DOMAIN answer : Permitted(h, answer[i]) /\ answer[i].fares # <<>>}
ItemsOf(r, d) == {Item(ResolveDays(r.hunt)[d], r.answers[d][i], <<d, i>>) : i \in Kept(r.hunt, r.answers[d])}

\* The list of the code, whose order is that of the places.
Scanned(r) == UNION {ItemsOf(r, d) : d \in DOMAIN r.answers}

-----------------------------------------------------------------------------
(* hunter-diff.ts. *)

NotAfter(p, q) == p[1] < q[1] \/ (p[1] = q[1] /\ p[2] <= q[2])
Earliest(items) == CHOOSE i \in items : \A j \in items : NotAfter(i.place, j.place)
Latest(items) == CHOOSE i \in items : \A j \in items : NotAfter(j.place, i.place)

Bookable(item) == item.seats > 0
OnSale(items) == {i \in items : Bookable(i)}
Cheapest(items) == {i \in items : \A j \in items : i.price <= j.price}
CheapestBookable(items) == IF OnSale(items) = {} THEN Null ELSE Earliest(Cheapest(OnSale(items)))

ResultKey(item) == <<item.number, item.depart>>
Keys(items) == {ResultKey(i) : i \in items}
\* Of two items with one key the later is the one in the Map.
LastWith(items, key) == Latest({i \in items : ResultKey(i) = key})
OldPrice(prev, item) == LastWith(prev, ResultKey(item)).price

\* Sums of fractions <<n, d>>, and Math.round of their mean.
Plus(a, b) == <<a[1] * b[2] + b[1] * a[2], a[2] * b[2]>>
RoundedMean(fractions) ==
    LET sum == FoldFunction(Plus, <<0, 1>>, fractions)
        n   == Cardinality(DOMAIN fractions)
    IN  IF n = 0 THEN 0 ELSE (2 * sum[1] + sum[2] * n) \div (2 * sum[2] * n)

Fall == -1
Rise == 1

\* The flights whose price moved in a direction, and by how many percent on average.
Moved(prev, items, way) ==
    {i \in items : ResultKey(i) \in Keys(prev) /\ way * (i.price - OldPrice(prev, i)) > 0}
Changes(prev, items, way) ==
    LET moved == Moved(prev, items, way)
        percent(i) == <<100 * way * (i.price - OldPrice(prev, i)), OldPrice(prev, i)>>
    IN  [count |-> Cardinality(moved), percent |-> RoundedMean([i \in moved |-> percent(i)])]

NewFlights(prev, items) == {i \in items : ResultKey(i) \notin Keys(prev)}
Hits(items, target) == \E i \in OnSale(items) : i.price <= target

CompareHuntResults(prev, items, target, low) ==
    LET cheapest == CheapestBookable(items)
    IN  [down |-> Changes(prev, items, Fall),
         up |-> Changes(prev, items, Rise),
         new |-> Cardinality(NewFlights(prev, items)),
         removed |-> Cardinality(Keys(prev) \ Keys(items)),
         soldOut |-> Cardinality(items \ OnSale(items)),
         lowSeat |-> Cardinality({i \in OnSale(items) : i.seats <= LowSeats}),
         hit |-> Hits(items, target),
         historicalLow |-> low # Null /\ cheapest # Null /\ cheapest.price <= low]

Significant(diff) ==
    diff.historicalLow \/ diff.new > 0 \/ (diff.down.count > 0 /\ diff.down.percent >= 5)

HistoricalLow == IF observed = {} THEN Null ELSE CHOOSE p \in observed : \A q \in observed : p <= q

-----------------------------------------------------------------------------
ScanInit ==
    /\ hunt \in Hunts
    /\ run = Null /\ row = Null /\ sent = Null
    /\ observed = {} /\ runs = 0

StartRun ==
    /\ run = Null /\ hunt.status = "HUNTING" /\ runs < MaxRuns
    /\ run' = [hunt |-> hunt, answers |-> <<>>]
    /\ UNCHANGED <<hunt, row, observed, sent, runs>>

SearchDay ==
    /\ run # Null /\ Len(run.answers) < Len(ResolveDays(run.hunt))
    /\ \E a \in Answers : run' = [run EXCEPT !.answers = Append(@, a)]
    /\ UNCHANGED <<hunt, row, observed, sent, runs>>

\* No headroom, or a failed search: the days already searched are thrown away.
AbandonRun ==
    /\ run # Null
    /\ run' = Null
    /\ UNCHANGED <<hunt, row, observed, sent, runs>>

\* What the run does with its copy h of the hunt: the status it leaves and what it
\* sends.  A hold that succeeds sends its own notification and sets the best price.
Outcome(h, diff, cheapest, first) ==
    IF diff.hit /\ cheapest # Null
    THEN {[status |-> "FOUND", sent |-> "HUNT_FOUND", best |-> h.best]} \cup
         (IF h.auto THEN {[status |-> "PAUSED", sent |-> "HELD", best |-> cheapest.price]} ELSE {})
    ELSE {[status |-> "HUNTING", best |-> h.best,
           sent |-> IF ~first /\ Significant(diff) THEN "HUNT_PROGRESS" ELSE Null]}

Best(old, cheapest) ==
    IF cheapest # Null /\ (old = Null \/ cheapest.price < old) THEN cheapest.price ELSE old

Decide ==
    /\ run # Null /\ Len(run.answers) = Len(ResolveDays(run.hunt))
    /\ LET h == run.hunt
           items == Scanned(run)
           cheapest == CheapestBookable(items)
           diff == CompareHuntResults(IF row = Null THEN {} ELSE row.items, items, h.target, HistoricalLow)
       IN  /\ row' = [items |-> items, cheapest |-> cheapest, diff |-> diff]
           /\ observed' = observed \cup {i.price : i \in OnSale(items)}
           /\ \E o \in Outcome(h, diff, cheapest, row = Null) :
                 /\ sent' = o.sent
                 /\ hunt' = [hunt EXCEPT
                               !.status = IF o.status = "HUNTING" THEN @ ELSE o.status,
                               !.best = IF o.status = "PAUSED" THEN o.best
                                        ELSE IF Best(h.best, cheapest) = h.best THEN @ ELSE cheapest.price]
    /\ run' = Null /\ runs' = runs + 1

EditTarget ==
    /\ \E t \in Targets \ {hunt.target} : hunt' = [hunt EXCEPT !.target = t]
    /\ UNCHANGED <<run, row, observed, sent, runs>>

ResumeHunt ==
    /\ run = Null /\ hunt.status \in {"FOUND", "PAUSED"}
    /\ hunt' = [hunt EXCEPT !.status = "HUNTING"]
    /\ UNCHANGED <<run, row, observed, sent, runs>>

\* Observations leave the window of 30 days; other hunts of the route add theirs.
WindowMoves ==
    /\ \E p \in observed : observed' = observed \ {p}
    /\ UNCHANGED <<hunt, run, row, sent, runs>>

ScanNext ==
    StartRun \/ SearchDay \/ AbandonRun \/ Decide \/ EditTarget \/ ResumeHunt \/ WindowMoves

ScanSpec == ScanInit /\ [][ScanNext]_scanVars

-----------------------------------------------------------------------------
(* Properties. *)

\* The offers of permitted airlines a run was answered.
OffersOf(r) ==
    {o \in UNION {ToSet(r.answers[i]) : i \in DOMAIN r.answers} : Permitted(r.hunt, o)}

\* A run that ends (persistAndDecide) having been shown a permitted fare, on sale, at
\* or under the target it was started with does not go on hunting: neither the choice
\* of one fare per flight nor the choice of one flight loses it.
TargetIsNeverMissed ==
    [][runs' # runs =>
        ((\E o \in OffersOf(run) : \E f \in ToSet(o.fares) :
              ~f.soldOut /\ f.seats > 0 /\ f.price <= run.hunt.target)
         => hunt'.status # "HUNTING")]_scanVars

\* A hunt is declared found, or held for, only over a fare the run was answered, with
\* seats and within the target, and no permitted fare on sale was cheaper.
FoundIsTheCheapest ==
    [][runs' # runs /\ sent' \in {"HUNT_FOUND", "HELD"} =>
        /\ row'.cheapest.price <= run.hunt.target
        /\ \A o \in OffersOf(run) : \A f \in ToSet(o.fares) :
               ~f.soldOut /\ f.seats > 0 => row'.cheapest.price <= f.price]_scanVars

\* A hunt ends at its target exactly when it should, and over the right fare.
TargetIsMet == TargetIsNeverMissed /\ FoundIsTheCheapest

\* The stored comparison adds up: what was there, less what went, plus what came, is
\* what is there, and no flight is counted both as cheaper and as dearer (unless an
\* answer lists one flight twice).
DiffAddsUp ==
    [][runs' # runs =>
        LET before == IF row = Null THEN {} ELSE row.items
            diff == row'.diff
            twins(items) == \E i, j \in items : i # j /\ ResultKey(i) = ResultKey(j)
        IN  twins(before) \/ twins(row'.items) \/
            /\ Cardinality(before) - diff.removed + diff.new = Cardinality(row'.items)
            /\ diff.down.count + diff.up.count + diff.new <= Cardinality(row'.items)]_scanVars

\* What a run announces and what it stores about the answer are both true of it.
RunTellsTheTruth == TargetIsMet /\ DiffAddsUp

\* "The price is falling" (the text of HUNT_PROGRESS, notification-content.service.ts:56) is only said
\* when some flight is cheaper than in the run before.
ProgressMeansFalling ==
    [][runs' # runs /\ sent' = "HUNT_PROGRESS" => row'.diff.down.count > 0]_scanVars
=============================================================================
