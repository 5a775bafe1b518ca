---------------------------- MODULE BookingHold ----------------------------
(***************************************************************************)
(* POST /bookings/hold: a request reserves its idempotency key in Redis,   *)
(* has the gateway create a PNR, persists the booking and leaves its       *)
(* answer under the key; a request that finds the key taken is given the   *)
(* answer, or a conflict.                                                  *)
(*                                                                         *)
(* Every await is a boundary between actions.  The key expires on its own, *)
(* a Redis command may fail before or after it took effect, the gateway    *)
(* may execute a create-booking whose answer the client no longer waits    *)
(* for, and the process may die anywhere.                                  *)
(***************************************************************************)
EXTENDS Integers, FiniteSets

CONSTANTS
  Request,      \* calls of the endpoint, retries of the browser included
  Key,          \* idempotency keys, each one prefixed with its user
  Ttl,          \* lifetime of a key, 300 s in the code
  MaxAttempts,  \* MUADI_RETRY_MAX_ATTEMPTS
  MaxDead,      \* bound: requests that die with their process
  NoRequest, NoKey

ASSUME HoldConstants ==
  /\ Ttl \in Nat \ {0} /\ MaxAttempts \in Nat \ {0} /\ MaxDead \in Nat
  /\ NoRequest \notin Request /\ NoKey \notin Key

VARIABLES
  entry,     \* entry[k]: what Redis holds under key k
  request,   \* request[r]: how far the handler of r is
  pnrs,      \* pnrs[r]: PNRs the gateway made for r
  stray,     \* stray[r]: create-bookings of r the gateway may still execute
  booked,    \* booked[r]: PNRs in the booking r persisted, 0 if it has none
  mishap     \* mishap[r]: what went wrong around r, kept for the properties

vars == <<entry, request, pnrs, stray, booked, mishap>>

Running == {"reserved", "booking", "made", "priced", "persisted", "failing"}
Ended == {"served", "conflict", "unavailable", "failed", "dead"}
Mishaps == {"outlived", "aged", "unrecorded", "undeleted", "unanswered"}

Absent == [status |-> "absent", by |-> NoRequest, left |-> 0]
Arriving == [step |-> "idle", key |-> NoKey, attempt |-> 0, made |-> FALSE,
             retried |-> FALSE, verified |-> FALSE, seen |-> 0, answer |-> NoRequest]

IsRunning(r) == request[r].step \in Running

\* The handler of r leaves its locals behind and goes on.
Goes(r, step) ==
  request' = [request EXCEPT ![r] = [Arriving EXCEPT !.step = step, !.key = request[r].key]]
Suffers(r, what) == mishap' = [mishap EXCEPT ![r] = @ \cup {what}]
-----------------------------------------------------------------------------
(* The key in Redis                                                        *)

FaultOverwrites(k) == entry[k].status # "done"
FaultForgetsDone(k) == entry[k].status # "processing"
Vacant(k) == entry[k].status = "absent"

Processing(r) == [status |-> "processing", by |-> r, left |-> Ttl]

Done(r) == [status |-> "done", by |-> r, left |-> Ttl]

\* SET NX: reserves a vacant key for r.
Reserve(r, k) ==
  /\ request[r].step = "idle" /\ Vacant(k)
  /\ request' = [request EXCEPT ![r] = [@ EXCEPT !.step = "reserved", !.key = k]]
  /\ entry' = [entry EXCEPT ![k] = Processing(r)]
  /\ UNCHANGED <<pnrs, stray, booked, mishap>>

FindTaken(r, k) ==
  /\ request[r].step = "idle" /\ ~Vacant(k)
  /\ request' = [request EXCEPT ![r] = [@ EXCEPT !.step = "taken", !.key = k]]
  /\ UNCHANGED <<entry, pnrs, stray, booked, mishap>>

\* The command fails; it may have taken effect all the same.
ReserveFails(r, k) ==
  /\ request[r].step = "idle"
  /\ request' = [request EXCEPT ![r] = [@ EXCEPT !.step = "unavailable", !.key = k]]
  /\ \/ entry' = entry
     \/ Vacant(k) /\ entry' = [entry EXCEPT ![k] = Processing(r)]
  /\ UNCHANGED <<pnrs, stray, booked, mishap>>

Answers(e) == e.status = "done"

\* The key was taken: its answer, or a conflict while there is none.
ReadCached(r) ==
  /\ request[r].step = "taken"
  /\ LET e == entry[request[r].key]
     IN  \/ /\ Answers(e)
            /\ request' = [request EXCEPT ![r] =
                 [@ EXCEPT !.step = "served", !.answer = e.by]]
         \/ ~Answers(e) /\ Goes(r, "conflict")
         \/ Goes(r, "unavailable")
  /\ UNCHANGED <<entry, pnrs, stray, booked, mishap>>
-----------------------------------------------------------------------------
(* The gateway                                                             *)

Sent(q) == [q EXCEPT !.step = "booking", !.attempt = 1, !.made = FALSE]

\* Offer snapshot, session, search and fare are there: create-booking is sent.
CreateBooking(r) ==
  /\ request[r].step = "reserved"
  /\ request' = [request EXCEPT ![r] = Sent(@)]
  /\ UNCHANGED <<entry, pnrs, stray, booked, mishap>>

\* The gateway executes the create-booking that r waits for.
GatewayBooks(r) ==
  /\ request[r].step = "booking" /\ ~request[r].made
  /\ request' = [request EXCEPT ![r] = [@ EXCEPT !.made = TRUE]]
  /\ pnrs' = [pnrs EXCEPT ![r] = @ + 1]
  /\ UNCHANGED <<entry, stray, booked, mishap>>

\* It executes one that r gave up.
GatewayBooksLate(r) ==
  /\ stray[r] > 0
  /\ stray' = [stray EXCEPT ![r] = @ - 1]
  /\ pnrs' = [pnrs EXCEPT ![r] = @ + 1]
  /\ UNCHANGED <<entry, request, booked, mishap>>

Made(r) ==
  /\ request[r].step = "booking" /\ request[r].made
  /\ Goes(r, "made")
  /\ UNCHANGED <<entry, pnrs, stray, booked, mishap>>

\* Refused for its token: refreshed, and sent once more from the first attempt.
RefusedToken(r) ==
  /\ request[r].step = "booking" /\ ~request[r].made /\ ~request[r].retried
  /\ request' = [request EXCEPT ![r] = [Sent(@) EXCEPT !.retried = TRUE]]
  /\ UNCHANGED <<entry, pnrs, stray, booked, mishap>>

\* Refused until the agent is verified: verified, and sent once more.
RefusedProtection(r) ==
  /\ request[r].step = "booking" /\ ~request[r].made /\ ~request[r].verified
  /\ request' = [request EXCEPT ![r] =
                   [Sent(@) EXCEPT !.retried = FALSE, !.verified = TRUE]]
  /\ UNCHANGED <<entry, pnrs, stray, booked, mishap>>

\* The next attempt while one is left; then the hold fails.
SendAgainOrFail(r) ==
  IF request[r].attempt < MaxAttempts
  THEN request' = [request EXCEPT ![r] =
                     [@ EXCEPT !.attempt = request[r].attempt + 1, !.made = FALSE]]
  ELSE Goes(r, "failing")

FaultRetriesHttpError(q) == q.attempt < MaxAttempts
RetriesHttpError(q) == FALSE

\* An HTTP error whose body is JSON or empty, whether or not the PNR was made,
\* is not retried.
HttpError(r) ==
  /\ request[r].step = "booking"
  /\ IF RetriesHttpError(request[r]) THEN SendAgainOrFail(r) ELSE Goes(r, "failing")
  /\ UNCHANGED <<entry, pnrs, stray, booked, mishap>>

\* What r no longer waits for: the gateway may still execute it.
LeftBehind(r) == [stray EXCEPT ![r] = IF request[r].made THEN @ ELSE @ + 1]

\* No answer in time: the request is abandoned and sent again.
Timeout(r) ==
  /\ request[r].step = "booking"
  /\ SendAgainOrFail(r)
  /\ stray' = LeftBehind(r)
  /\ Suffers(r, "unanswered")
  /\ UNCHANGED <<entry, pnrs, booked>>

\* Any other exception on the way is sent again as well, HTTP errors among
\* them: the body is parsed before the status is looked at, so the error page
\* of a proxy ends here, in front of a gateway that did, will or will not make
\* the PNR.  So do a broken connection and a failure to store the gateway's
\* clock, or the refreshed tokens, in the session's row.
Unread(r) ==
  /\ request[r].step = "booking"
  /\ SendAgainOrFail(r)
  /\ stray' \in {stray, LeftBehind(r)}
  /\ Suffers(r, "unanswered")
  /\ UNCHANGED <<entry, pnrs, booked>>

\* Ticket info or the booking list gives the price and the PNRs made so far.
Reconcile(r) ==
  /\ request[r].step = "made"
  /\ \E n \in 1..pnrs[r] :
       request' = [request EXCEPT ![r] = [@ EXCEPT !.step = "priced", !.seen = n]]
  /\ UNCHANGED <<entry, pnrs, stray, booked, mishap>>
-----------------------------------------------------------------------------
(* The booking and the answer                                              *)

\* One insert, with the passengers, PNRs and timeline.
Persist(r) ==
  /\ request[r].step = "priced"
  /\ Goes(r, "persisted")
  /\ booked' = [booked EXCEPT ![r] = request[r].seen]
  /\ UNCHANGED <<entry, pnrs, stray, mishap>>

\* Any exception before the booking is persisted: no offer, no session, no
\* seat, no price, too short a payment window, database failure.
Fail(r) ==
  /\ request[r].step \in {"reserved", "booking", "made", "priced"}
  /\ request[r].step = "booking" => ~request[r].made
  /\ Goes(r, "failing")
  /\ UNCHANGED <<entry, pnrs, stray, booked, mishap>>

Recordable(r) == request[r].step = "persisted"

Record(r) ==
  /\ Recordable(r)
  /\ request' = [request EXCEPT ![r] =
                   [@ EXCEPT !.step = "served", !.seen = 0, !.answer = r]]
  /\ entry' = [entry EXCEPT ![request[r].key] = Done(r)]
  /\ UNCHANGED <<pnrs, stray, booked, mishap>>

\* The booking exists, but its answer could not be stored: the handler treats
\* it as a failed hold.
RecordFails(r) ==
  /\ request[r].step = "persisted"
  /\ Goes(r, "failing")
  /\ entry' \in {entry, [entry EXCEPT ![request[r].key] = Done(r)]}
  /\ Suffers(r, "unrecorded")
  /\ UNCHANGED <<pnrs, stray, booked>>

Cleared(r) == [entry EXCEPT ![request[r].key] = Absent]

\* DEL, whoever the entry belongs to by now.
Clear(r) ==
  /\ request[r].step = "failing"
  /\ Goes(r, "failed")
  /\ entry' = Cleared(r)
  /\ UNCHANGED <<pnrs, stray, booked, mishap>>

ClearFails(r) ==
  /\ request[r].step = "failing"
  /\ Goes(r, "failed")
  /\ Suffers(r, "undeleted")
  /\ UNCHANGED <<entry, pnrs, stray, booked>>

Die(r) ==
  /\ IsRunning(r)
  /\ Cardinality({x \in Request : request[x].step = "dead"}) < MaxDead
  /\ Goes(r, "dead")
  /\ UNCHANGED <<entry, pnrs, stray, booked, mishap>>

\* Entries whose lifetime ends now.
Expiring == {k \in Key : entry[k].left = 1}

Tick ==
  /\ \E k \in Key : entry[k].left > 0
  /\ entry' = [k \in Key |->
       IF k \in Expiring THEN Absent
       ELSE IF entry[k].left > 0 THEN [entry[k] EXCEPT !.left = @ - 1] ELSE entry[k]]
  /\ mishap' = [r \in Request |->
       IF \E k \in Expiring : entry[k].by = r
       THEN mishap[r] \cup {IF IsRunning(r) THEN "outlived" ELSE "aged"}
       ELSE mishap[r]]
  /\ UNCHANGED <<request, pnrs, stray, booked>>
-----------------------------------------------------------------------------
Init ==
  /\ entry = [k \in Key |-> Absent]
  /\ request = [r \in Request |-> Arriving]
  /\ pnrs = [r \in Request |-> 0] /\ stray = [r \in Request |-> 0]
  /\ booked = [r \in Request |-> 0]
  /\ mishap = [r \in Request |-> {}]

\* What the handler itself does next.
Handle(r) ==
  \/ ReadCached(r) \/ CreateBooking(r) \/ Made(r) \/ RefusedToken(r)
  \/ RefusedProtection(r) \/ HttpError(r) \/ Timeout(r) \/ Unread(r) \/ Reconcile(r)
  \/ Persist(r) \/ Fail(r) \/ Record(r) \/ RecordFails(r) \/ Clear(r) \/ ClearFails(r)

Arrive(r) == \E k \in Key : Reserve(r, k) \/ FindTaken(r, k) \/ ReserveFails(r, k)

Next ==
  \/ \E r \in Request : \/ Arrive(r) \/ Handle(r) \/ Die(r)
                        \/ GatewayBooks(r) \/ GatewayBooksLate(r)
  \/ Tick

Spec == Init /\ [][Next]_vars

-----------------------------------------------------------------------------
(* Properties                                                              *)

TypeOK ==
  /\ entry \in [Key -> [status : {"absent", "processing", "done"},
                        by : Request \cup {NoRequest}, left : 0..Ttl]]
  /\ request \in [Request ->
       [step : Running \cup Ended \cup {"idle", "taken"}, key : Key \cup {NoKey},
        attempt : 0..MaxAttempts, made : BOOLEAN, retried : BOOLEAN,
        verified : BOOLEAN, seen : Nat, answer : Request \cup {NoRequest}]]
  /\ pnrs \in [Request -> Nat] /\ stray \in [Request -> Nat]
  /\ booked \in [Request -> Nat]
  /\ mishap \in [Request -> SUBSET Mishaps]
  /\ \A r \in Request : request[r].step # "idle" => request[r].key \in Key
  /\ \A r \in Request : booked[r] <= pnrs[r]

SameKey(r, x) == request[r].key = request[x].key

\* While two requests of one key hold seats at the same time, the reservation
\* of a request of that key had run out under it: neither a conflict, a failure
\* of Redis, a death nor a cleared key lets a second hold in.
OneAtATime ==
  \A r, x \in Request :
    (r # x /\ IsRunning(r) /\ IsRunning(x) /\ SameKey(r, x))
      => \E y \in Request : SameKey(r, y) /\ "outlived" \in mishap[y]

\* Two bookings under one key mean that an entry of the key ran out or that the
\* answer of one booking could not be stored.  Otherwise a repeated request gets
\* the first booking: a death, a Redis command that fails and a reservation that
\* is not deleted keep the key taken, they never book twice by themselves.
TwiceOnlyByMishap ==
  \A r, x \in Request :
    (r # x /\ booked[r] > 0 /\ booked[x] > 0 /\ SameKey(r, x))
      => \E y \in Request :
           /\ SameKey(r, y)
           /\ mishap[y] \cap {"outlived", "aged", "unrecorded"} # {}

\* Every answer, stored or given, names a booking that was persisted under the
\* very key of the request that gets it.
AnswersAreBookings ==
  /\ \A k \in Key : entry[k].status = "done" =>
       booked[entry[k].by] > 0 /\ request[entry[k].by].key = k
  /\ \A r \in Request : request[r].step = "served" =>
       /\ request[r].answer \in Request
       /\ booked[request[r].answer] > 0 /\ SameKey(r, request[r].answer)

\* A key is reserved only while its request works, or after that request died,
\* saw its SET NX fail or failed to delete it: a hold that fails lets the
\* caller try again.
ReservedMeansWorking ==
  \A k \in Key : entry[k].status = "processing" =>
    LET r == entry[k].by
    IN  \/ IsRunning(r) /\ request[r].key = k
        \/ request[r].step \in {"dead", "unavailable"}
        \/ "undeleted" \in mishap[r]

\* A booking misses a PNR that its request had made only after an answer to a
\* create-booking of that request was lost, by a timeout or because it could not
\* be read: a refusal and an error the gateway itself reports never make a
\* second PNR.
MissingPnrMeansLostAnswer ==
  \A r \in Request :
    (booked[r] > 0 /\ booked[r] < pnrs[r]) => "unanswered" \in mishap[r]

=============================================================================
