---------------------------- MODULE BookingFlow ----------------------------
(***************************************************************************)
(* From the results to the payment in one tab of the web client: the       *)
(* routes of results, detail, passengers and review with the browser's     *)
(* history, the stores that carry the flight and the form from one to the  *)
(* next, and the hold that the last of them sends (data/useHoldBooking.ts) *)
(* with the screens a refusal leads to.  A phone asks in two steps, a      *)
(* desktop in one, and turning the device swaps them.                      *)
(*                                                                         *)
(* A screen's own state (the passengers picked, its mutation) lives as     *)
(* long as it is mounted, the stores until the page is reloaded; the       *)
(* server works on a call whatever became of the screen that sent it.      *)
(***************************************************************************)
EXTENDS Integers, Sequences

CONSTANTS
    Flight,      \* Offers in the results.
    Passenger,   \* Saved passengers; the primary one comes first.
    Primary,
    Adult,       \* Those of them who are no children.
    Press,       \* Bound: presses of the pay button, numbered.
    MaxTrail,    \* Bound on the pages the browser remembers.
    MaxTurns,    \* Bound on turns of the device, and on reloads.
    NoOne

ASSUME FlowAssumption ==
    /\ Primary \in Passenger /\ Adult \subseteq Passenger
    /\ Press \subseteq Nat /\ MaxTrail \in Nat \ {0} /\ MaxTurns \in Nat
    /\ NoOne \notin Flight \cup Press

VARIABLES
    trail,     \* The browser's history; its last page is on screen.
    wide,      \* The desktop layout is shown.
    results,   \* The query of the results: [status, data, failures].
    selected,  \* The selected-flight store.
    form,      \* The passengers of the booking-form store.
    picked,    \* Passengers picked on the screen.
    hold,      \* The mutation of the screen: [status, call, error].
    holds,     \* Each hold: [at, flight, party, error], at the server.
    seen,      \* Holds whose payment page was reached (history).
    left,      \* Holds whose screen was left before their answer (history).
    broken,      \* Holds whose connection broke.
    turns

flowVars == <<trail, wide, results, selected, form, picked, hold, holds, seen, left, broken, turns>>

Route(at, of) == [at |-> at, of |-> of]
Here == trail[Len(trail)]
NoHold == [status |-> "idle", call |-> NoOne, error |-> NoOne]
Unsent == [at |-> "unsent", flight |-> NoOne, party |-> {}, error |-> NoOne]
NoResults == [status |-> "pending", data |-> FALSE, failures |-> 0]

FlowInit ==
    /\ trail = <<Route("results", NoOne)>> /\ wide = FALSE
    /\ results = NoResults /\ selected = NoOne /\ form = {}
    /\ picked = {} /\ hold = NoHold
    /\ holds = [c \in Press |-> Unsent]
    /\ seen = {} /\ left = {} /\ broken = {} /\ turns = 0

\* A screen goes: what it kept is gone, and nobody waits for its hold any more.
Unmount ==
    /\ picked' = {} /\ hold' = NoHold
    /\ left' = IF hold.status = "pending" THEN left \cup {hold.call} ELSE left

Visit(page) == Len(trail) < MaxTrail /\ trail' = Append(trail, page) /\ Unmount

-----------------------------------------------------------------------------
(* The results. *)

\* useResults: an attempt is given up after twenty seconds, and one failure is retried.
SearchAnswers ==
    /\ Here.at = "results" /\ results.status = "pending"
    /\ results' = [status |-> "success", data |-> TRUE, failures |-> 0]
    /\ UNCHANGED <<trail, wide, selected, form, picked, hold, holds, seen, left, broken, turns>>

SearchFails(why) ==
    /\ Here.at = "results" /\ results.status = "pending"
    /\ results' = IF results.failures = 0 THEN [results EXCEPT !.failures = 1]
                  ELSE [status |-> why, data |-> FALSE, failures |-> 0]
    /\ UNCHANGED <<trail, wide, selected, form, picked, hold, holds, seen, left, broken, turns>>

\* "Wait more" of the timeout screen, "retry" of the other.
SearchAgain ==
    /\ Here.at = "results" /\ results.status \in {"error", "timeout"}
    /\ results' = NoResults
    /\ UNCHANGED <<trail, wide, selected, form, picked, hold, holds, seen, left, broken, turns>>

\* A card is tapped.
Select(f) ==
    /\ Here.at = "results" /\ results.data
    /\ selected' = f
    /\ Visit(Route("detail", f))
    /\ UNCHANGED <<wide, results, form, holds, seen, broken, turns>>

\* The flight of a detail or booking page: the selected one if the address names it.
FlightHere == IF selected = Here.of THEN selected ELSE NoOne
Booking == Here.at \in {"passengers", "review"} /\ FlightHere # NoOne

-----------------------------------------------------------------------------
(* Moving on. *)

\* The pages' own links: to the passengers, back to the results, to somewhere else.
Follow(page) ==
    /\ \/ Here.at = "detail" /\ FlightHere # NoOne /\ page = Route("passengers", Here.of)
       \/ Here.at \in {"detail", "passengers", "review"} /\ FlightHere = NoOne /\ page = Route("results", NoOne)
       \/ Booking /\ wide /\ hold.status # "error" /\ page = Route("detail", Here.of)
       \/ Here.at # "elsewhere" /\ page = Route("elsewhere", NoOne)
       \/ Here.at = "elsewhere" /\ page = Route("results", NoOne)
    /\ Visit(page)
    /\ UNCHANGED <<wide, results, selected, form, holds, seen, broken, turns>>

Back ==
    /\ Len(trail) > 1
    /\ trail' = SubSeq(trail, 1, Len(trail) - 1)
    /\ Unmount
    /\ UNCHANGED <<wide, results, selected, form, holds, seen, broken, turns>>

\* The other layout is another component.
Turn ==
    /\ turns < MaxTurns /\ turns' = turns + 1
    /\ wide' = ~wide
    /\ Unmount
    /\ UNCHANGED <<trail, results, selected, form, holds, seen, broken>>

\* The stores are not persisted.
Reload ==
    /\ turns < MaxTurns /\ turns' = turns + 1
    /\ results' = NoResults /\ selected' = NoOne /\ form' = {}
    /\ Unmount
    /\ UNCHANGED <<trail, wide, holds, seen, broken>>

-----------------------------------------------------------------------------
(* Passengers and contact. *)

Picking == Booking /\ hold.status = "idle" /\ (wide \/ Here.at = "passengers")

\* The saved passengers are there: with nobody picked, the primary one is.
Preselect ==
    /\ Picking /\ picked = {}
    /\ picked' = {Primary}
    /\ UNCHANGED <<trail, wide, results, selected, form, hold, holds, seen, left, broken, turns>>

\* A phone takes several; a desktop one.
Pick(p) ==
    /\ Picking /\ picked # {}
    /\ picked' = IF wide THEN {p}
                 ELSE LET others == IF p \in picked THEN picked \ {p} ELSE picked \cup {p}
                      IN  IF others = {} THEN {Primary} ELSE others
    /\ UNCHANGED <<trail, wide, results, selected, form, hold, holds, seen, left, broken, turns>>

\* onContinue of the phone's first step.
Continue ==
    /\ Picking /\ ~wide /\ picked # {}
    /\ form' = picked
    /\ Visit(Route("review", Here.of))
    /\ UNCHANGED <<wide, results, selected, holds, seen, broken, turns>>

-----------------------------------------------------------------------------
(* The hold. *)

FaultReady == Booking /\ hold.status # "error" /\ (IF wide THEN picked # {} ELSE Here.at = "review")
\* onPay returns at once while its mutation is pending.
Ready == Booking /\ hold.status = "idle" /\ (IF wide THEN picked # {} ELSE Here.at = "review")

\* Every press sends a hold under a new idempotency key.
Pay(c) ==
    /\ Ready /\ holds[c].at = "unsent" /\ \A d \in Press : d < c => holds[d].at # "unsent"
    /\ holds' = [holds EXCEPT ![c] = [at |-> "sent", flight |-> FlightHere,
                                      party |-> IF wide THEN picked ELSE form, error |-> NoOne]]
    /\ hold' = [status |-> "pending", call |-> c, error |-> NoOne]
    /\ UNCHANGED <<trail, wide, results, selected, form, picked, seen, left, broken, turns>>

\* HoldBookingDto: somebody, and an adult.
Valid(party) == party \cap Adult # {}

\* What ends a hold, and what mapHoldError answers for it: an unknown price is a changed one.
Refusals == {"soldOut", "priceUnknown", "gone", "tooShort", "failed"}
MapHoldError(why) ==
    CASE why = "soldOut" -> "soldOut" [] why = "priceUnknown" -> "priceChanged" [] OTHER -> "other"

ServerBooks(c) ==
    /\ holds[c].at = "sent" /\ Valid(holds[c].party)
    /\ holds' = [holds EXCEPT ![c] = [@ EXCEPT !.at = "booked"]]
    /\ UNCHANGED <<trail, wide, results, selected, form, picked, hold, seen, left, broken, turns>>

ServerRefuses(c, why) ==
    /\ holds[c].at = "sent" /\ (Valid(holds[c].party) \/ why = "failed")
    /\ holds' = [holds EXCEPT ![c] = [@ EXCEPT !.at = "refused", !.error = MapHoldError(why)]]
    /\ UNCHANGED <<trail, wide, results, selected, form, picked, hold, seen, left, broken, turns>>

Waits(c) == hold.status = "pending" /\ hold.call = c

\* onSuccess of the mutate call, which a screen that is gone, or that has sent another
\* hold since, never hears.
Succeeds(c) ==
    /\ Waits(c) /\ c \notin broken /\ holds[c].at = "booked"
    /\ Len(trail) < MaxTrail /\ trail' = Append(trail, Route("payment", c))
    /\ seen' = seen \cup {c} /\ picked' = {} /\ hold' = NoHold
    /\ UNCHANGED <<wide, results, selected, form, holds, left, broken, turns>>

Fails(c) ==
    /\ Waits(c) /\ c \notin broken /\ holds[c].at = "refused"
    /\ hold' = [hold EXCEPT !.status = "error", !.error = holds[c].error]
    /\ UNCHANGED <<trail, wide, results, selected, form, picked, holds, seen, left, broken, turns>>

\* The connection breaks before the answer; the server goes on.
Breaks(c) ==
    /\ Waits(c) /\ c \notin broken
    /\ broken' = broken \cup {c}
    /\ hold' = [hold EXCEPT !.status = "error", !.error = "other"]
    /\ UNCHANGED <<trail, wide, results, selected, form, picked, holds, seen, left, turns>>

\* HoldError: where each failure leads.
Recover ==
    /\ Booking /\ hold.status = "error"
    /\ \/ /\ hold.error = "soldOut" /\ Visit(Route("results", NoOne))
       \/ /\ hold.error = "priceChanged" /\ (Visit(Route("detail", Here.of)) \/ Visit(Route("results", NoOne)))
       \/ /\ hold.error = "other" /\ hold' = NoHold /\ UNCHANGED <<trail, picked, left>>
    /\ UNCHANGED <<wide, results, selected, form, holds, seen, broken, turns>>

FlowNext ==
    \/ SearchAnswers \/ SearchAgain \/ \E why \in {"error", "timeout"} : SearchFails(why)
    \/ \E f \in Flight : Select(f) \/ \E at \in {"passengers", "detail"} : Follow(Route(at, f))
    \/ \E at \in {"results", "elsewhere"} : Follow(Route(at, NoOne))
    \/ Back \/ Turn \/ Reload
    \/ Preselect \/ Continue \/ \E p \in Passenger : Pick(p)
    \/ \E c \in Press :
          \/ Pay(c) \/ ServerBooks(c) \/ Succeeds(c) \/ Fails(c) \/ Breaks(c)
          \/ \E why \in Refusals : ServerRefuses(c, why)
    \/ Recover

FlowSpec == FlowInit /\ [][FlowNext]_flowVars

-----------------------------------------------------------------------------
(* Properties. *)

(* A booking whose payment page never opened has an explanation: its       *)
(* screen still waits, was left before the answer, or lost it (a hold's    *)
(* answer is acted on by the press that sent it only,                      *)
(* BookingReviewMobile.tsx:19).                                            *)
UnseenMeansLeft ==
    \A c \in Press : holds[c].at = "booked" => c \in seen \cup left \cup broken \/ Waits(c)

(* "Not persisted (a refresh restarts the booking)" (bookingForm.ts:2):    *)
(* a review that can be paid has passengers.                               *)
ReviewHasPassengers == (Ready /\ ~wide) => form # {}
=============================================================================
