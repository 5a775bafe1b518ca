------------------------- MODULE BookingHoldProofs -------------------------
(***************************************************************************)
(* Proofs about BookingHold, for any requests, keys, lifetime and attempts.*)
(*                                                                         *)
(* What makes a key safe is who owns its entry.  A request that runs still *)
(* owns the entry of its key, unless some reservation of that key ran out  *)
(* under its request; a request with a booking still owns it, unless one   *)
(* of the mishaps that TwiceOnlyByMishap lists befell its key.  An entry   *)
(* has one owner, so two owners mean a mishap.                             *)
(***************************************************************************)
EXTENDS BookingHold, TLAPS

\* A reservation of key k ran out while its request was running.
Outlived(k) == \E y \in Request : request[y].key = k /\ "outlived" \in mishap[y]

\* What may let a second booking of key k in.
Excused(k) ==
  \E y \in Request :
    request[y].key = k /\ mishap[y] \cap {"outlived", "aged", "unrecorded"} # {}

EntriesHaveOwners ==
  \A k \in Key :
    IF entry[k].status = "absent" THEN entry[k].by = NoRequest
    ELSE entry[k].by \in Request /\ request[entry[k].by].key = k

RunningOwns ==
  \A r \in Request : IsRunning(r) =>
    entry[request[r].key].by = r \/ Outlived(request[r].key)

BookedOwns ==
  \A r \in Request : booked[r] > 0 =>
    entry[request[r].key].by = r \/ Excused(request[r].key)

BookingsFollowSteps ==
  \A r \in Request :
    /\ request[r].step = "priced" => request[r].seen \in 1..pnrs[r]
    /\ request[r].step = "persisted" => booked[r] > 0
    /\ booked[r] > 0 =>
         /\ request[r].step \in {"persisted", "served", "failing", "failed", "dead"}
         /\ request[r].step = "failing" => "unrecorded" \in mishap[r]

ArrivalsHaveNoKey ==
  \A r \in Request : request[r].step = "idle" => request[r].key = NoKey

IndInv ==
  /\ TypeOK /\ EntriesHaveOwners /\ RunningOwns /\ BookedOwns
  /\ BookingsFollowSteps /\ ArrivalsHaveNoKey
  /\ AnswersAreBookings /\ ReservedMeansWorking

\* The types that TypeOK gives an entry and a request.
EntryType ==
  [status : {"absent", "processing", "done"}, by : Request \cup {NoRequest}, left : 0..Ttl]
RequestType ==
  [step : Running \cup Ended \cup {"idle", "taken"}, key : Key \cup {NoKey},
   attempt : 0..MaxAttempts, made : BOOLEAN, retried : BOOLEAN,
   verified : BOOLEAN, seen : Nat, answer : Request \cup {NoRequest}]

LEMMA InitOK == Init => IndInv
<1> SUFFICES ASSUME Init PROVE IndInv
  OBVIOUS
<1>1. TypeOK
  BY HoldConstants DEF Init, TypeOK, Absent, Arriving
<1>2. EntriesHaveOwners /\ ArrivalsHaveNoKey
  BY DEF Init, EntriesHaveOwners, ArrivalsHaveNoKey, Absent, Arriving
<1>3. RunningOwns /\ BookedOwns /\ BookingsFollowSteps
  BY DEF Init, RunningOwns, BookedOwns, BookingsFollowSteps, IsRunning, Running, Arriving
<1>4. AnswersAreBookings /\ ReservedMeansWorking
  BY DEF Init, AnswersAreBookings, ReservedMeansWorking, Absent, Arriving
<1> QED
  BY <1>1, <1>2, <1>3, <1>4 DEF IndInv
-----------------------------------------------------------------------------
(* What the steps have in common                                           *)

\* Mishaps are never forgotten, a key is never exchanged.
Remembers ==
  \A y \in Request :
    /\ mishap[y] \subseteq mishap'[y]
    /\ request[y].step # "idle" => request'[y].key = request[y].key

LEMMA MishapsStay ==
  ASSUME ArrivalsHaveNoKey, Remembers, NEW k \in Key
  PROVE  (Outlived(k) => Outlived(k)') /\ (Excused(k) => Excused(k)')
<1>1. \A y \in Request : request[y].key = k => request'[y].key = k
  BY HoldConstants DEF ArrivalsHaveNoKey, Remembers
<1>2. Outlived(k) => Outlived(k)'
  BY <1>1 DEF Outlived, Remembers
<1>3. Excused(k) => Excused(k)'
  BY <1>1 DEF Excused, Remembers
<1> QED BY <1>2, <1>3

LEMMA OutlivedIsExcuse == ASSUME NEW k, Outlived(k) PROVE Excused(k)
BY DEF Outlived, Excused

\* A step of the handler of r, of its gateway or of its process that touches
\* neither keys nor bookings and leaves r with q.
Quiet(r, q) ==
  /\ IsRunning(r) /\ q \in RequestType /\ q.key = request[r].key
  /\ request' = [request EXCEPT ![r] = q]
  /\ q.step \in (Running \ {"persisted"}) \cup {"failed", "dead"}
  /\ q.step = "failed" => "undeleted" \in mishap'[r]
  /\ q.step = "priced" => q.seen \in 1..pnrs'[r]
  /\ booked[r] > 0 => q.step \in {"failed", "dead"}
  /\ UNCHANGED <<entry, booked>>
  /\ pnrs' \in [Request -> Nat] /\ stray' \in [Request -> Nat]
  /\ mishap' \in [Request -> SUBSET Mishaps]
  /\ \A y \in Request : pnrs[y] <= pnrs'[y] /\ mishap[y] \subseteq mishap'[y]

\* What the handler's updates of its locals leave.
LEMMA RequestUpdates ==
  ASSUME NEW q \in RequestType
  PROVE  /\ Sent(q) \in RequestType /\ Sent(q).step = "booking" /\ Sent(q).key = q.key
         /\ [Sent(q) EXCEPT !.retried = TRUE] \in RequestType
         /\ [Sent(q) EXCEPT !.retried = TRUE].step = "booking"
         /\ [Sent(q) EXCEPT !.retried = TRUE].key = q.key
         /\ [Sent(q) EXCEPT !.retried = FALSE, !.verified = TRUE] \in RequestType
         /\ [Sent(q) EXCEPT !.retried = FALSE, !.verified = TRUE].step = "booking"
         /\ [Sent(q) EXCEPT !.retried = FALSE, !.verified = TRUE].key = q.key
         /\ [q EXCEPT !.made = TRUE] \in RequestType
         /\ [q EXCEPT !.made = TRUE].step = q.step
         /\ [q EXCEPT !.made = TRUE].key = q.key
         /\ q.attempt < MaxAttempts =>
              [q EXCEPT !.attempt = q.attempt + 1, !.made = FALSE] \in RequestType
         /\ [q EXCEPT !.attempt = q.attempt + 1, !.made = FALSE].step = q.step
         /\ [q EXCEPT !.attempt = q.attempt + 1, !.made = FALSE].key = q.key
         /\ \A n \in Nat :
              /\ [q EXCEPT !.step = "priced", !.seen = n] \in RequestType
              /\ [q EXCEPT !.step = "priced", !.seen = n].step = "priced"
              /\ [q EXCEPT !.step = "priced", !.seen = n].key = q.key
              /\ [q EXCEPT !.step = "priced", !.seen = n].seen = n
<1>1. /\ 1 \in 0..MaxAttempts /\ "booking" \in Running
      /\ q.attempt < MaxAttempts => q.attempt + 1 \in 0..MaxAttempts
  BY HoldConstants DEF RequestType, Running
<1>2. Sent(q) \in RequestType /\ Sent(q).step = "booking" /\ Sent(q).key = q.key
  <2>1. ASSUME NEW x \in RequestType, NEW n \in 0..MaxAttempts
        PROVE  LET y == [x EXCEPT !.step = "booking", !.attempt = n, !.made = FALSE]
               IN  y \in RequestType /\ y.step = "booking" /\ y.key = x.key
    BY <1>1 DEF RequestType
  <2> QED BY <1>1, <2>1 DEF Sent
<1>3. ASSUME NEW x \in RequestType
      PROVE  /\ [x EXCEPT !.retried = TRUE] \in RequestType
             /\ [x EXCEPT !.retried = TRUE].step = x.step
             /\ [x EXCEPT !.retried = TRUE].key = x.key
  BY DEF RequestType
<1>4. ASSUME NEW x \in RequestType
      PROVE  /\ [x EXCEPT !.retried = FALSE, !.verified = TRUE] \in RequestType
             /\ [x EXCEPT !.retried = FALSE, !.verified = TRUE].step = x.step
             /\ [x EXCEPT !.retried = FALSE, !.verified = TRUE].key = x.key
  BY DEF RequestType
<1>5. /\ [q EXCEPT !.made = TRUE] \in RequestType
      /\ [q EXCEPT !.made = TRUE].step = q.step
      /\ [q EXCEPT !.made = TRUE].key = q.key
  BY DEF RequestType
<1>6. /\ q.attempt < MaxAttempts =>
           [q EXCEPT !.attempt = q.attempt + 1, !.made = FALSE] \in RequestType
      /\ [q EXCEPT !.attempt = q.attempt + 1, !.made = FALSE].step = q.step
      /\ [q EXCEPT !.attempt = q.attempt + 1, !.made = FALSE].key = q.key
  <2>1. ASSUME NEW n \in 0..MaxAttempts
        PROVE  [q EXCEPT !.attempt = n, !.made = FALSE] \in RequestType
    BY DEF RequestType
  <2>2. /\ [q EXCEPT !.attempt = q.attempt + 1, !.made = FALSE].step = q.step
        /\ [q EXCEPT !.attempt = q.attempt + 1, !.made = FALSE].key = q.key
    BY DEF RequestType
  <2> QED BY <1>1, <2>1, <2>2
<1>7. ASSUME NEW n \in Nat
      PROVE  /\ [q EXCEPT !.step = "priced", !.seen = n] \in RequestType
             /\ [q EXCEPT !.step = "priced", !.seen = n].step = "priced"
             /\ [q EXCEPT !.step = "priced", !.seen = n].key = q.key
             /\ [q EXCEPT !.step = "priced", !.seen = n].seen = n
  BY DEF RequestType, Running
<1> HIDE DEF Sent
<1>8. /\ [Sent(q) EXCEPT !.retried = TRUE] \in RequestType
      /\ [Sent(q) EXCEPT !.retried = TRUE].step = "booking"
      /\ [Sent(q) EXCEPT !.retried = TRUE].key = q.key
  BY <1>2, <1>3
<1>9. /\ [Sent(q) EXCEPT !.retried = FALSE, !.verified = TRUE] \in RequestType
      /\ [Sent(q) EXCEPT !.retried = FALSE, !.verified = TRUE].step = "booking"
      /\ [Sent(q) EXCEPT !.retried = FALSE, !.verified = TRUE].key = q.key
  BY <1>2, <1>4
<1> QED
  BY <1>2, <1>5, <1>6, <1>7, <1>8, <1>9

\* What is left of a request that goes on.
LEMMA Leftovers ==
  ASSUME NEW k \in Key, NEW step \in Running \cup Ended
  PROVE  /\ [Arriving EXCEPT !.step = step, !.key = k] \in RequestType
         /\ [Arriving EXCEPT !.step = step, !.key = k].step = step
         /\ [Arriving EXCEPT !.step = step, !.key = k].key = k
<1>1. Arriving \in RequestType
  BY HoldConstants DEF RequestType, Arriving
<1>2. ASSUME NEW x \in RequestType
      PROVE  /\ [x EXCEPT !.step = step, !.key = k] \in RequestType
             /\ [x EXCEPT !.step = step, !.key = k].step = step
             /\ [x EXCEPT !.step = step, !.key = k].key = k
  BY DEF RequestType
<1> QED
  BY <1>1, <1>2

LEMMA QuietSteps ==
  ASSUME IndInv, NEW r \in Request,
         \/ CreateBooking(r) \/ GatewayBooks(r) \/ Made(r) \/ RefusedToken(r)
         \/ RefusedProtection(r) \/ HttpError(r) \/ Timeout(r) \/ Unread(r) \/ Reconcile(r)
         \/ Fail(r) \/ ClearFails(r) \/ Die(r)
  PROVE  \E q : Quiet(r, q)
<1> DEFINE old == request[r]
           Gone(step) == [Arriving EXCEPT !.step = step, !.key = old.key]
<1>1. /\ old \in RequestType
      /\ old.step # "idle" => old.key \in Key
      /\ pnrs \in [Request -> Nat] /\ stray \in [Request -> Nat]
      /\ booked \in [Request -> Nat] /\ mishap \in [Request -> SUBSET Mishaps]
  BY DEF IndInv, TypeOK, RequestType
<1>2. /\ old.step \in {"reserved", "booking", "made", "priced"} => booked[r] = 0
      /\ old.step = "priced" => old.seen \in 1..pnrs[r]
  BY <1>1 DEF IndInv, BookingsFollowSteps
<1>3. ASSUME old.step \in Running, NEW step \in Running \cup Ended
      PROVE  Gone(step) \in RequestType /\ Gone(step).step = step /\ Gone(step).key = old.key
  BY <1>1, <1>3, Leftovers DEF Running
<1>4. \A step : Goes(r, step) => request' = [request EXCEPT ![r] = Gone(step)]
  BY DEF Goes
<1>5. CASE CreateBooking(r)
  <2> DEFINE q == Sent(old)
  <2>1. q \in RequestType /\ q.key = old.key /\ q.step = "booking"
    BY <1>1, <1>5, RequestUpdates DEF CreateBooking
  <2>2. request' = [request EXCEPT ![r] = q]
    BY <1>5 DEF CreateBooking
  <2>3. /\ old.step = "reserved"
        /\ UNCHANGED <<entry, pnrs, stray, booked, mishap>>
    BY <1>5 DEF CreateBooking
  <2> HIDE DEF q
  <2>4. Quiet(r, q)
    BY <1>1, <1>2, <2>1, <2>2, <2>3 DEF Quiet, IsRunning, Running
  <2> QED BY <2>4
<1>6. CASE GatewayBooks(r)
  <2> DEFINE q == [old EXCEPT !.made = TRUE]
  <2>1. q \in RequestType /\ q.key = old.key /\ q.step = "booking"
    BY <1>1, <1>6, RequestUpdates DEF GatewayBooks
  <2>2. request' = [request EXCEPT ![r] = q]
    BY <1>6 DEF GatewayBooks
  <2>3. /\ old.step = "booking"
        /\ UNCHANGED <<entry, stray, booked, mishap>>
        /\ pnrs' = [pnrs EXCEPT ![r] = @ + 1]
    BY <1>6 DEF GatewayBooks
  <2> HIDE DEF q
  <2>4. Quiet(r, q)
    BY <1>1, <1>2, <2>1, <2>2, <2>3 DEF Quiet, IsRunning, Running
  <2> QED BY <2>4
<1>7. CASE Made(r)
  <2> DEFINE q == Gone("made")
  <2>1. old.step \in Running /\ Goes(r, "made")
    BY <1>7 DEF Made, IsRunning, Running
  <2>2. q \in RequestType /\ q.key = old.key /\ q.step = "made"
    BY <1>3, <2>1 DEF Running, Ended
  <2>3. request' = [request EXCEPT ![r] = q]
    BY <1>4, <2>1
  <2> HIDE DEF q
  <2>5. Quiet(r, q)
    BY <1>1, <1>2, <1>7, <2>1, <2>2, <2>3 DEF Made, Quiet, IsRunning, Running
  <2> QED BY <2>5
<1>8. CASE RefusedToken(r)
  <2> DEFINE q == [Sent(old) EXCEPT !.retried = TRUE]
  <2>1. q \in RequestType /\ q.key = old.key /\ q.step = "booking"
    BY <1>1, <1>8, RequestUpdates DEF RefusedToken
  <2>2. request' = [request EXCEPT ![r] = q]
    BY <1>8 DEF RefusedToken
  <2>3. /\ old.step = "booking"
        /\ UNCHANGED <<entry, pnrs, stray, booked, mishap>>
    BY <1>8 DEF RefusedToken
  <2> HIDE DEF q
  <2>4. Quiet(r, q)
    BY <1>1, <1>2, <2>1, <2>2, <2>3 DEF Quiet, IsRunning, Running
  <2> QED BY <2>4
<1>9. CASE RefusedProtection(r)
  <2> DEFINE q == [Sent(old) EXCEPT !.retried = FALSE, !.verified = TRUE]
  <2>1. q \in RequestType /\ q.key = old.key /\ q.step = "booking"
    BY <1>1, <1>9, RequestUpdates DEF RefusedProtection
  <2>2. request' = [request EXCEPT ![r] = q]
    BY <1>9 DEF RefusedProtection
  <2>3. /\ old.step = "booking"
        /\ UNCHANGED <<entry, pnrs, stray, booked, mishap>>
    BY <1>9 DEF RefusedProtection
  <2> HIDE DEF q
  <2>4. Quiet(r, q)
    BY <1>1, <1>2, <2>1, <2>2, <2>3 DEF Quiet, IsRunning, Running
  <2> QED BY <2>4
<1>10. CASE HttpError(r)
  <2> DEFINE q == Gone("failing")
  <2>1. old.step \in Running /\ Goes(r, "failing")
    BY <1>10 DEF HttpError, IsRunning, Running, RetriesHttpError
  <2>2. q \in RequestType /\ q.key = old.key /\ q.step = "failing"
    BY <1>3, <2>1 DEF Running, Ended
  <2>3. request' = [request EXCEPT ![r] = q]
    BY <1>4, <2>1
  <2> HIDE DEF q
  <2>5. Quiet(r, q)
    BY <1>1, <1>2, <1>10, <2>1, <2>2, <2>3 DEF HttpError, Quiet, IsRunning, Running
  <2> QED BY <2>5
<1>11. CASE Timeout(r) \/ Unread(r)
  <2>1. /\ stray' \in [Request -> Nat]
        /\ mishap' \in [Request -> SUBSET Mishaps]
        /\ \A y \in Request : mishap[y] \subseteq mishap'[y]
    BY <1>1, <1>11 DEF Timeout, Unread, LeftBehind, Suffers, Mishaps
  <2>2. old.step = "booking" /\ UNCHANGED <<entry, pnrs, booked>>
    BY <1>11 DEF Timeout, Unread
  <2>3. CASE old.attempt < MaxAttempts
    <3> DEFINE q == [old EXCEPT !.attempt = old.attempt + 1, !.made = FALSE]
    <3>1. q \in RequestType /\ q.key = old.key /\ q.step = "booking"
      BY <1>1, <2>2, <2>3, RequestUpdates
    <3>2. request' = [request EXCEPT ![r] = q]
      BY <1>11, <2>3 DEF Timeout, Unread, SendAgainOrFail
    <3> HIDE DEF q
    <3>3. Quiet(r, q)
      BY <1>1, <1>2, <2>1, <2>2, <3>1, <3>2 DEF Quiet, IsRunning, Running
    <3> QED BY <3>3
  <2>4. CASE ~(old.attempt < MaxAttempts)
    <3> DEFINE q == Gone("failing")
    <3>1. q \in RequestType /\ q.key = old.key /\ q.step = "failing"
      BY <1>3, <2>2 DEF Running
    <3>2. request' = [request EXCEPT ![r] = q]
      BY <1>4, <1>11, <2>4 DEF Timeout, Unread, SendAgainOrFail
    <3> HIDE DEF q
    <3>3. Quiet(r, q)
      BY <1>1, <1>2, <2>1, <2>2, <3>1, <3>2 DEF Quiet, IsRunning, Running
    <3> QED BY <3>3
  <2> QED BY <2>3, <2>4
<1>12. CASE Reconcile(r)
  <2>1. PICK n \in 1..pnrs[r] :
          request' = [request EXCEPT ![r] = [@ EXCEPT !.step = "priced", !.seen = n]]
    BY <1>12 DEF Reconcile
  <2> DEFINE q == [old EXCEPT !.step = "priced", !.seen = n]
  <2>2. old.step = "made" /\ UNCHANGED <<entry, pnrs, stray, booked, mishap>>
    BY <1>12, Zenon DEF Reconcile
  <2>3. q \in RequestType /\ q.key = old.key /\ q.step = "priced" /\ q.seen = n
    <3>1. n \in Nat
      BY <1>1
    <3>2. \A m \in Nat :
            /\ [old EXCEPT !.step = "priced", !.seen = m] \in RequestType
            /\ [old EXCEPT !.step = "priced", !.seen = m].step = "priced"
            /\ [old EXCEPT !.step = "priced", !.seen = m].key = old.key
            /\ [old EXCEPT !.step = "priced", !.seen = m].seen = m
      BY <1>1, RequestUpdates
    <3> QED BY <3>1, <3>2
  <2>4. request' = [request EXCEPT ![r] = q]
    BY <2>1
  <2> HIDE DEF q
  <2>5. Quiet(r, q)
    BY <1>1, <1>2, <2>2, <2>3, <2>4 DEF Quiet, IsRunning, Running
  <2> QED BY <2>5
<1>13. CASE Fail(r)
  <2> DEFINE q == Gone("failing")
  <2>1. old.step \in Running /\ Goes(r, "failing")
    BY <1>13 DEF Fail, IsRunning, Running
  <2>2. q \in RequestType /\ q.key = old.key /\ q.step = "failing"
    BY <1>3, <2>1 DEF Running, Ended
  <2>3. request' = [request EXCEPT ![r] = q]
    BY <1>4, <2>1
  <2> HIDE DEF q
  <2>5. Quiet(r, q)
    BY <1>1, <1>2, <1>13, <2>1, <2>2, <2>3 DEF Fail, Quiet, IsRunning, Running
  <2> QED BY <2>5
<1>14. CASE ClearFails(r)
  <2> DEFINE q == Gone("failed")
  <2>1. old.step \in Running /\ Goes(r, "failed")
    BY <1>14 DEF ClearFails, IsRunning, Running
  <2>2. q \in RequestType /\ q.key = old.key /\ q.step = "failed"
    BY <1>3, <2>1 DEF Running, Ended
  <2>3. request' = [request EXCEPT ![r] = q]
    BY <1>4, <2>1
  <2>4. /\ mishap' \in [Request -> SUBSET Mishaps]
        /\ \A y \in Request : mishap[y] \subseteq mishap'[y]
        /\ "undeleted" \in mishap'[r]
    BY <1>1, <1>14 DEF ClearFails, Suffers, Mishaps
  <2> HIDE DEF q
  <2>5. Quiet(r, q)
    BY <1>1, <1>2, <1>14, <2>1, <2>2, <2>3, <2>4 DEF ClearFails, Quiet, IsRunning, Running
  <2> QED BY <2>5
<1>15. CASE Die(r)
  <2> DEFINE q == Gone("dead")
  <2>1. old.step \in Running /\ Goes(r, "dead")
    BY <1>15 DEF Die, IsRunning, Running
  <2>2. q \in RequestType /\ q.key = old.key /\ q.step = "dead"
    BY <1>3, <2>1 DEF Running, Ended
  <2>3. request' = [request EXCEPT ![r] = q]
    BY <1>4, <2>1
  <2> HIDE DEF q
  <2>5. Quiet(r, q)
    BY <1>1, <1>2, <1>15, <2>1, <2>2, <2>3 DEF Die, Quiet, IsRunning, Running
  <2> QED BY <2>5
<1> QED
  BY <1>5, <1>6, <1>7, <1>8, <1>9, <1>10, <1>11, <1>12, <1>13, <1>14, <1>15
-----------------------------------------------------------------------------
(* The steps, group by group                                               *)

\* What IndInv says of types, with the types named.
LEMMA Typed ==
  IndInv => /\ entry \in [Key -> EntryType] /\ request \in [Request -> RequestType]
            /\ pnrs \in [Request -> Nat] /\ stray \in [Request -> Nat]
            /\ booked \in [Request -> Nat] /\ mishap \in [Request -> SUBSET Mishaps]
            /\ \A r \in Request : request[r].step # "idle" => request[r].key \in Key
            /\ \A r \in Request : booked[r] <= pnrs[r]
BY DEF IndInv, TypeOK, EntryType, RequestType

\* Answers and reservations as IndInv uses them.
LEMMA Owned ==
  ASSUME IndInv, NEW k \in Key, entry[k].status # "absent"
  PROVE  entry[k].by \in Request /\ request[entry[k].by].key = k
BY DEF IndInv, EntriesHaveOwners

\* A step that touches neither keys nor bookings is harmless.
LEMMA QuietKeeps ==
  ASSUME IndInv, NEW r \in Request, NEW q, Quiet(r, q)
  PROVE  IndInv'
<1>1. /\ entry \in [Key -> EntryType] /\ request \in [Request -> RequestType]
      /\ \A x \in Request : request[x].step # "idle" => request[x].key \in Key
      /\ booked \in [Request -> Nat] /\ \A x \in Request : booked[x] <= pnrs[x]
      /\ pnrs \in [Request -> Nat]
  BY Typed
<1>2. /\ request'[r] = q /\ q.key = request[r].key /\ q.key \in Key
      /\ \A x \in Request : x # r => request'[x] = request[x]
      /\ \A x \in Request : request'[x].key = request[x].key
      /\ entry' = entry /\ booked' = booked
      /\ request' \in [Request -> RequestType]
  BY <1>1 DEF Quiet, IsRunning, Running
<1>3. /\ request[r].step \in Running
      /\ q.step \in (Running \ {"persisted"}) \cup {"failed", "dead"}
  BY DEF Quiet, IsRunning
<1>4. Remembers
  BY <1>2, <1>3 DEF Quiet, Remembers, Running
<1>5. \A k \in Key : (Outlived(k) => Outlived(k)') /\ (Excused(k) => Excused(k)')
  BY <1>4, MishapsStay DEF IndInv
<1>6. \A x \in Request : request[x].key = request'[x].key /\
        (IsRunning(x)' => IsRunning(x) /\ request[x].key \in Key)
  BY <1>1, <1>2, <1>3 DEF IsRunning, Running
<1>7. TypeOK'
  <2>1. pnrs' \in [Request -> Nat] /\ stray' \in [Request -> Nat]
        /\ mishap' \in [Request -> SUBSET Mishaps]
    BY DEF Quiet
  <2>2. \A x \in Request : booked'[x] <= pnrs'[x]
    BY <1>1, <1>2, <2>1 DEF Quiet
  <2>3. \A x \in Request : request'[x].step # "idle" => request'[x].key \in Key
    BY <1>1, <1>2
  <2> QED BY <1>1, <1>2, <2>1, <2>2, <2>3 DEF TypeOK, EntryType, RequestType
<1>8. EntriesHaveOwners'
  BY <1>2 DEF IndInv, EntriesHaveOwners
<1>9. RunningOwns'
  BY <1>2, <1>5, <1>6 DEF IndInv, RunningOwns
<1>10. BookedOwns'
  <2>1. ASSUME NEW x \in Request, booked[x] > 0 PROVE request[x].key \in Key
    BY <1>1, <2>1 DEF IndInv, BookingsFollowSteps
  <2> QED BY <1>2, <1>5, <2>1 DEF IndInv, BookedOwns
<1>11. BookingsFollowSteps'
  <2>1. ASSUME NEW x \in Request, x # r
        PROVE  /\ request'[x].step = "priced" => request'[x].seen \in 1..pnrs'[x]
               /\ request'[x].step = "persisted" => booked'[x] > 0
               /\ booked'[x] > 0 =>
                    /\ request'[x].step \in {"persisted", "served", "failing", "failed", "dead"}
                    /\ request'[x].step = "failing" => "unrecorded" \in mishap'[x]
    <3>1. pnrs[x] <= pnrs'[x] /\ pnrs'[x] \in Nat /\ pnrs[x] \in Nat
          /\ mishap[x] \subseteq mishap'[x]
      BY <1>1 DEF Quiet
    <3> QED BY <1>2, <2>1, <3>1 DEF IndInv, BookingsFollowSteps
  <2>2. /\ q.step = "priced" => q.seen \in 1..pnrs'[r]
        /\ q.step # "persisted"
        /\ booked[r] > 0 => q.step \in {"failed", "dead"}
    BY <1>3 DEF Quiet
  <2> QED BY <1>2, <2>1, <2>2 DEF BookingsFollowSteps
<1>12. ArrivalsHaveNoKey'
  BY <1>2, <1>3 DEF IndInv, ArrivalsHaveNoKey, Running
<1>13. AnswersAreBookings'
  <2>1. ASSUME NEW k \in Key, entry[k].status = "done"
        PROVE  booked[entry[k].by] > 0 /\ request'[entry[k].by].key = k
    BY <1>2, <2>1, Owned DEF IndInv, AnswersAreBookings
  <2>2. ASSUME NEW x \in Request, request'[x].step = "served"
        PROVE  /\ request'[x].answer \in Request /\ booked[request'[x].answer] > 0
               /\ request'[x].key = request'[request'[x].answer].key
    <3>1. x # r
      BY <1>2, <1>3, <2>2 DEF Running
    <3> QED BY <1>2, <2>2, <3>1 DEF IndInv, AnswersAreBookings, SameKey
  <2> QED BY <1>2, <2>1, <2>2 DEF AnswersAreBookings, SameKey
<1>14. ReservedMeansWorking'
  <2> SUFFICES ASSUME NEW k \in Key, entry[k].status = "processing"
               PROVE  LET x == entry[k].by
                      IN  \/ IsRunning(x)' /\ request'[x].key = k
                          \/ request'[x].step \in {"dead", "unavailable"}
                          \/ "undeleted" \in mishap'[x]
    BY <1>2 DEF ReservedMeansWorking
  <2>1. entry[k].by \in Request /\ request[entry[k].by].key = k
    BY Owned
  <2>2. mishap[entry[k].by] \subseteq mishap'[entry[k].by]
    BY <2>1 DEF Quiet
  <2>3. CASE entry[k].by = r
    BY <1>2, <1>3, <2>1, <2>3 DEF Quiet, IsRunning, Running
  <2>4. CASE entry[k].by # r
    BY <1>2, <2>1, <2>2, <2>4 DEF IndInv, ReservedMeansWorking, IsRunning
  <2> QED BY <2>3, <2>4
<1> QED
  BY <1>7, <1>8, <1>9, <1>10, <1>11, <1>12, <1>13, <1>14 DEF IndInv

\* A request that arrives with key k: it finds k taken or reserves it, or does
\* not learn whether it did.
LEMMA ArrivalKeeps ==
  ASSUME IndInv, NEW r \in Request, NEW k \in Key,
         Reserve(r, k) \/ FindTaken(r, k) \/ ReserveFails(r, k)
  PROVE  IndInv'
<1>1. PICK step \in {"reserved", "taken", "unavailable"} :
        /\ request' = [request EXCEPT ![r] = [@ EXCEPT !.step = step, !.key = k]]
        /\ \/ entry' = entry /\ step # "reserved"
           \/ /\ Vacant(k) /\ entry' = [entry EXCEPT ![k] = Processing(r)]
              /\ step # "taken"
  BY DEF Reserve, FindTaken, ReserveFails
<1>2. request[r].step = "idle" /\ UNCHANGED <<pnrs, stray, booked, mishap>>
  BY DEF Reserve, FindTaken, ReserveFails
<1>3. /\ entry \in [Key -> EntryType] /\ request \in [Request -> RequestType]
      /\ \A x \in Request : request[x].step # "idle" => request[x].key \in Key
      /\ \A x \in Request : booked[x] > 0 => request[x].step # "idle"
      /\ booked \in [Request -> Nat] /\ request[r].key \notin Key
      /\ \A x \in Request : booked[x] <= pnrs[x]
  BY <1>2, Typed, HoldConstants DEF IndInv, BookingsFollowSteps, ArrivalsHaveNoKey
<1>4. /\ request' \in [Request -> RequestType]
      /\ request'[r].step = step /\ request'[r].key = k
      /\ \A x \in Request : x # r => request'[x] = request[x]
  <2>1. ASSUME NEW q \in RequestType
        PROVE  /\ [q EXCEPT !.step = step, !.key = k] \in RequestType
               /\ [q EXCEPT !.step = step, !.key = k].step = step
               /\ [q EXCEPT !.step = step, !.key = k].key = k
    BY DEF RequestType, Running, Ended
  <2>2. request[r] \in RequestType
    BY <1>3
  <2> QED BY <1>1, <1>3, <2>1, <2>2
<1>5. /\ Processing(r) \in EntryType
      /\ Processing(r).status = "processing" /\ Processing(r).by = r
  BY HoldConstants DEF Processing, EntryType
<1>6. /\ entry' \in [Key -> EntryType]
      /\ \A j \in Key : j # k => entry'[j] = entry[j]
      /\ \/ entry'[k] = entry[k] /\ step # "reserved"
         \/ /\ entry[k].status = "absent" /\ entry'[k] = Processing(r)
            /\ step # "taken"
  BY <1>1, <1>3, <1>5 DEF Vacant
<1>7. Remembers
  BY <1>2, <1>4 DEF Remembers
<1>8. \A j \in Key : (Outlived(j) => Outlived(j)') /\ (Excused(j) => Excused(j)')
  BY <1>7, MishapsStay DEF IndInv
<1>9. \A j \in Key : entry[j].status # "absent" =>
        /\ entry[j].by \in Request \ {r} /\ request[entry[j].by].key = j
        /\ request'[entry[j].by] = request[entry[j].by]
  BY <1>3, <1>4, Owned
<1>10. entry[k].status = "absent" => entry[k].by \notin Request
  BY HoldConstants DEF IndInv, EntriesHaveOwners
<1>11. TypeOK'
  <2>1. /\ pnrs' \in [Request -> Nat] /\ stray' \in [Request -> Nat]
        /\ booked' \in [Request -> Nat] /\ mishap' \in [Request -> SUBSET Mishaps]
        /\ \A x \in Request : booked'[x] <= pnrs'[x]
    BY <1>2, Typed
  <2>2. \A x \in Request : request'[x].step # "idle" => request'[x].key \in Key
    BY <1>3, <1>4
  <2> QED BY <1>4, <1>6, <2>1, <2>2 DEF TypeOK, EntryType, RequestType
<1>12. EntriesHaveOwners'
  <2> SUFFICES ASSUME NEW j \in Key
               PROVE  IF entry'[j].status = "absent" THEN entry'[j].by = NoRequest
                      ELSE entry'[j].by \in Request /\ request'[entry'[j].by].key = j
    BY DEF EntriesHaveOwners
  <2>1. CASE entry'[j] = entry[j]
    BY <1>9, <2>1 DEF IndInv, EntriesHaveOwners
  <2>2. CASE entry'[j] # entry[j]
    BY <1>4, <1>5, <1>6, <2>2
  <2> QED BY <2>1, <2>2
<1>13. RunningOwns'
  <2> SUFFICES ASSUME NEW x \in Request, request'[x].step \in Running
               PROVE  (entry[request[x].key].by = x \/ Outlived(request[x].key))'
    BY DEF RunningOwns, IsRunning
  <2>1. CASE x = r
    BY <1>4, <1>5, <1>6, <2>1 DEF Running
  <2>2. CASE x # r
    <3>1. /\ request'[x].key = request[x].key /\ request[x].key \in Key
          /\ entry[request[x].key].by = x \/ Outlived(request[x].key)
      BY <1>3, <1>4, <2>2 DEF IndInv, RunningOwns, IsRunning, Running
    <3> QED BY <1>6, <1>8, <1>10, <3>1
  <2> QED BY <2>1, <2>2
<1>14. BookedOwns'
  <2> SUFFICES ASSUME NEW x \in Request, booked[x] > 0
               PROVE  (entry[request[x].key].by = x \/ Excused(request[x].key))'
    BY <1>2 DEF BookedOwns
  <2>1. /\ request'[x].key = request[x].key /\ request[x].key \in Key
        /\ entry[request[x].key].by = x \/ Excused(request[x].key)
    BY <1>2, <1>3, <1>4 DEF IndInv, BookedOwns
  <2> QED BY <1>6, <1>8, <1>10, <2>1
<1>15. BookingsFollowSteps'
  BY <1>2, <1>3, <1>4 DEF IndInv, BookingsFollowSteps
<1>16. ArrivalsHaveNoKey'
  BY <1>4 DEF IndInv, ArrivalsHaveNoKey
<1>17. AnswersAreBookings'
  <2>1. ASSUME NEW j \in Key, entry'[j].status = "done"
        PROVE  booked[entry'[j].by] > 0 /\ request'[entry'[j].by].key = j
    BY <1>5, <1>6, <1>9, <2>1 DEF IndInv, AnswersAreBookings
  <2>2. ASSUME NEW x \in Request, request'[x].step = "served"
        PROVE  /\ request'[x].answer \in Request /\ booked[request'[x].answer] > 0
               /\ request'[x].key = request'[request'[x].answer].key
    <3>1. x # r /\ request[x].step = "served"
      BY <1>4, <2>2
    <3>2. /\ request[x].answer \in Request /\ booked[request[x].answer] > 0
          /\ request[x].key = request[request[x].answer].key
      BY <3>1 DEF IndInv, AnswersAreBookings, SameKey
    <3>3. request[x].answer # r
      BY <1>2, <1>3, <3>2
    <3> QED BY <1>4, <3>1, <3>2, <3>3
  <2> QED BY <1>2, <2>1, <2>2 DEF AnswersAreBookings, SameKey
<1>18. ReservedMeansWorking'
  <2> SUFFICES ASSUME NEW j \in Key, entry'[j].status = "processing"
               PROVE  LET x == entry'[j].by
                      IN  \/ request'[x].step \in Running /\ request'[x].key = j
                          \/ request'[x].step \in {"dead", "unavailable"}
                          \/ "undeleted" \in mishap[x]
    BY <1>2 DEF ReservedMeansWorking, IsRunning
  <2>1. CASE entry'[j] = entry[j]
    BY <1>9, <2>1 DEF IndInv, ReservedMeansWorking, IsRunning
  <2>2. CASE entry'[j] # entry[j]
    BY <1>4, <1>5, <1>6, <2>2 DEF Running
  <2> QED BY <2>1, <2>2
<1> QED
  BY <1>11, <1>12, <1>13, <1>14, <1>15, <1>16, <1>17, <1>18 DEF IndInv

\* A request whose key was taken ends with an answer or without one.
LEMMA ReadCachedKeeps ==
  ASSUME IndInv, NEW r \in Request, ReadCached(r)
  PROVE  IndInv'
<1> DEFINE e == entry[request[r].key]
<1>1. /\ entry \in [Key -> EntryType] /\ request \in [Request -> RequestType]
      /\ \A x \in Request : request[x].step # "idle" => request[x].key \in Key
      /\ booked \in [Request -> Nat]
      /\ \A x \in Request : booked[x] <= pnrs[x]
  BY Typed
<1>2. /\ request[r].step = "taken" /\ request[r].key \in Key
      /\ UNCHANGED <<entry, pnrs, stray, booked, mishap>>
  BY <1>1, Zenon DEF ReadCached
<1>3. /\ request' \in [Request -> RequestType]
      /\ request'[r].key = request[r].key
      /\ \A x \in Request : x # r => request'[x] = request[x]
      /\ \/ request'[r].step \in {"conflict", "unavailable"}
         \/ /\ request'[r].step = "served" /\ request'[r].answer = e.by
            /\ e.status = "done"
  <2>1. CASE e.status = "done" /\
             request' = [request EXCEPT ![r] = [@ EXCEPT !.step = "served", !.answer = e.by]]
    <3>1. ASSUME NEW q \in RequestType, NEW x \in Request
          PROVE  /\ [q EXCEPT !.step = "served", !.answer = x] \in RequestType
                 /\ [q EXCEPT !.step = "served", !.answer = x].step = "served"
                 /\ [q EXCEPT !.step = "served", !.answer = x].key = q.key
                 /\ [q EXCEPT !.step = "served", !.answer = x].answer = x
      BY DEF RequestType, Ended
    <3>2. request[r] \in RequestType /\ e.by \in Request
      BY <1>1, <1>2, <2>1, Owned
    <3> QED BY <1>1, <2>1, <3>1, <3>2
  <2>2. ASSUME NEW step \in {"conflict", "unavailable"}, Goes(r, step)
        PROVE  /\ request' \in [Request -> RequestType]
               /\ request'[r].key = request[r].key /\ request'[r].step = step
               /\ \A x \in Request : x # r => request'[x] = request[x]
    BY <1>1, <1>2, <2>2, Leftovers DEF Goes, Ended
  <2>3. \/ e.status = "done" /\
             request' = [request EXCEPT ![r] = [@ EXCEPT !.step = "served", !.answer = e.by]]
        \/ Goes(r, "conflict") \/ Goes(r, "unavailable")
    BY DEF ReadCached, Answers
  <2> QED BY <2>1, <2>2, <2>3
<1>4. /\ \A x \in Request : request'[x].key = request[x].key
      /\ \A x \in Request : IsRunning(x)' => IsRunning(x) /\ x # r
      /\ booked[r] = 0
  BY <1>1, <1>2, <1>3 DEF IsRunning, Running, IndInv, BookingsFollowSteps
<1>5. Remembers
  BY <1>2, <1>3 DEF Remembers
<1>6. \A j \in Key : (Outlived(j) => Outlived(j)') /\ (Excused(j) => Excused(j)')
  BY <1>5, MishapsStay DEF IndInv
<1>7. TypeOK'
  <2>1. /\ entry' \in [Key -> EntryType]
        /\ pnrs' \in [Request -> Nat] /\ stray' \in [Request -> Nat]
        /\ booked' \in [Request -> Nat] /\ mishap' \in [Request -> SUBSET Mishaps]
        /\ \A x \in Request : booked'[x] <= pnrs'[x]
    BY <1>2, Typed
  <2>2. \A x \in Request : request'[x].step # "idle" => request'[x].key \in Key
    BY <1>1, <1>2, <1>3
  <2> QED BY <1>3, <2>1, <2>2 DEF TypeOK, EntryType, RequestType
<1>8. EntriesHaveOwners'
  BY <1>2, <1>4 DEF IndInv, EntriesHaveOwners
<1>9. RunningOwns'
  <2>1. \A x \in Request : IsRunning(x) => request[x].key \in Key
    BY <1>1 DEF IsRunning, Running
  <2> QED BY <1>2, <1>4, <1>6, <2>1 DEF IndInv, RunningOwns
<1>10. BookedOwns'
  <2>1. \A x \in Request : booked[x] > 0 => request[x].key \in Key
    BY <1>1 DEF IndInv, BookingsFollowSteps
  <2> QED BY <1>2, <1>4, <1>6, <2>1 DEF IndInv, BookedOwns
<1>11. BookingsFollowSteps'
  BY <1>2, <1>3, <1>4 DEF IndInv, BookingsFollowSteps
<1>12. ArrivalsHaveNoKey'
  BY <1>3 DEF IndInv, ArrivalsHaveNoKey
<1>13. AnswersAreBookings'
  <2>1. ASSUME NEW k \in Key, entry[k].status = "done"
        PROVE  booked[entry[k].by] > 0 /\ request'[entry[k].by].key = k
    BY <1>4, <2>1, Owned DEF IndInv, AnswersAreBookings
  <2>2. ASSUME NEW x \in Request, request'[x].step = "served"
        PROVE  /\ request'[x].answer \in Request /\ booked[request'[x].answer] > 0
               /\ request'[x].key = request'[request'[x].answer].key
    <3>1. CASE x = r
      <4>1. request'[r].answer = e.by /\ e.status = "done"
        BY <1>3, <2>2, <3>1
      <4>2. e.by \in Request /\ request[e.by].key = request[r].key
        BY <1>2, <4>1, Owned
      <4>3. booked[e.by] > 0
        BY <1>2, <2>1, <4>1
      <4> QED BY <1>4, <3>1, <4>1, <4>2, <4>3
    <3>2. CASE x # r
      BY <1>3, <1>4, <2>2, <3>2 DEF IndInv, AnswersAreBookings, SameKey
    <3> QED BY <3>1, <3>2
  <2> QED BY <1>2, <2>1, <2>2 DEF AnswersAreBookings, SameKey
<1>14. ReservedMeansWorking'
  <2> SUFFICES ASSUME NEW k \in Key, entry[k].status = "processing"
               PROVE  LET x == entry[k].by
                      IN  \/ request'[x].step \in Running /\ request'[x].key = k
                          \/ request'[x].step \in {"dead", "unavailable"}
                          \/ "undeleted" \in mishap[x]
    BY <1>2 DEF ReservedMeansWorking, IsRunning
  <2>1. entry[k].by \in Request
    BY Owned
  <2> QED BY <1>2, <1>3, <2>1 DEF IndInv, ReservedMeansWorking, IsRunning, Running
<1> QED
  BY <1>7, <1>8, <1>9, <1>10, <1>11, <1>12, <1>13, <1>14 DEF IndInv

\* The booking is persisted: its request still owned the key, or that is excused.
LEMMA PersistKeeps ==
  ASSUME IndInv, NEW r \in Request, Persist(r)
  PROVE  IndInv'
<1>1. /\ entry \in [Key -> EntryType] /\ request \in [Request -> RequestType]
      /\ \A x \in Request : request[x].step # "idle" => request[x].key \in Key
      /\ booked \in [Request -> Nat] /\ pnrs \in [Request -> Nat]
      /\ \A x \in Request : booked[x] <= pnrs[x]
  BY Typed
<1>2. /\ request[r].step = "priced" /\ request[r].key \in Key
      /\ request[r].seen \in 1..pnrs[r]
      /\ UNCHANGED <<entry, pnrs, stray, mishap>>
  BY <1>1 DEF Persist, IndInv, BookingsFollowSteps
<1>3. /\ booked' \in [Request -> Nat] /\ booked'[r] = request[r].seen /\ booked'[r] > 0
      /\ \A x \in Request : x # r => booked'[x] = booked[x]
  BY <1>1, <1>2 DEF Persist
<1>4. /\ request' \in [Request -> RequestType] /\ request'[r].step = "persisted"
      /\ request'[r].key = request[r].key
      /\ \A x \in Request : x # r => request'[x] = request[x]
  BY <1>1, <1>2, Leftovers DEF Persist, Goes, Running
<1>5. /\ \A x \in Request : request'[x].key = request[x].key
      /\ \A x \in Request : IsRunning(x)' => IsRunning(x) /\ request[x].key \in Key
      /\ \A x \in Request : booked[x] > 0 => booked'[x] > 0 /\ request[x].key \in Key
  BY <1>1, <1>2, <1>3, <1>4 DEF IsRunning, Running, IndInv, BookingsFollowSteps
<1>6. Remembers
  BY <1>2, <1>4 DEF Remembers
<1>7. \A j \in Key : (Outlived(j) => Outlived(j)') /\ (Excused(j) => Excused(j)')
  BY <1>6, MishapsStay DEF IndInv
<1>8. TypeOK'
  <2>1. /\ entry' \in [Key -> EntryType]
        /\ pnrs' \in [Request -> Nat] /\ stray' \in [Request -> Nat]
        /\ mishap' \in [Request -> SUBSET Mishaps]
    BY <1>2, Typed
  <2>2. \A x \in Request : request'[x].step # "idle" => request'[x].key \in Key
    BY <1>1, <1>2, <1>4
  <2>3. \A x \in Request : booked'[x] <= pnrs'[x]
    BY <1>1, <1>2, <1>3
  <2> QED BY <1>3, <1>4, <2>1, <2>2, <2>3 DEF TypeOK, EntryType, RequestType
<1>9. EntriesHaveOwners'
  BY <1>2, <1>5 DEF IndInv, EntriesHaveOwners
<1>10. RunningOwns'
  BY <1>2, <1>5, <1>7 DEF IndInv, RunningOwns
<1>11. BookedOwns'
  <2>1. entry[request[r].key].by = r \/ Excused(request[r].key)
    <3>1. entry[request[r].key].by = r \/ Outlived(request[r].key)
      BY <1>2 DEF IndInv, RunningOwns, IsRunning, Running
    <3> QED BY <3>1, OutlivedIsExcuse
  <2>2. \A x \in Request : booked'[x] > 0 =>
          request[x].key \in Key /\ (entry[request[x].key].by = x \/ Excused(request[x].key))
    BY <1>2, <1>3, <1>5, <2>1 DEF IndInv, BookedOwns
  <2> QED BY <1>2, <1>5, <1>7, <2>2 DEF BookedOwns
<1>12. BookingsFollowSteps'
  BY <1>2, <1>3, <1>4 DEF IndInv, BookingsFollowSteps
<1>13. ArrivalsHaveNoKey'
  BY <1>4 DEF IndInv, ArrivalsHaveNoKey
<1>14. AnswersAreBookings'
  <2>1. ASSUME NEW k \in Key, entry[k].status = "done"
        PROVE  booked'[entry[k].by] > 0 /\ request'[entry[k].by].key = k
    BY <1>5, <2>1, Owned DEF IndInv, AnswersAreBookings
  <2>2. ASSUME NEW x \in Request, request'[x].step = "served"
        PROVE  /\ request'[x].answer \in Request /\ booked'[request'[x].answer] > 0
               /\ request'[x].key = request'[request'[x].answer].key
    BY <1>4, <1>5, <2>2 DEF IndInv, AnswersAreBookings, SameKey
  <2> QED BY <1>2, <2>1, <2>2 DEF AnswersAreBookings, SameKey
<1>15. ReservedMeansWorking'
  <2> SUFFICES ASSUME NEW k \in Key, entry[k].status = "processing"
               PROVE  LET x == entry[k].by
                      IN  \/ request'[x].step \in Running /\ request'[x].key = k
                          \/ request'[x].step \in {"dead", "unavailable"}
                          \/ "undeleted" \in mishap[x]
    BY <1>2 DEF ReservedMeansWorking, IsRunning
  <2>1. entry[k].by \in Request /\ request[entry[k].by].key = k
    BY Owned
  <2> QED BY <1>2, <1>4, <2>1 DEF IndInv, ReservedMeansWorking, IsRunning, Running
<1> QED
  BY <1>8, <1>9, <1>10, <1>11, <1>12, <1>13, <1>14, <1>15 DEF IndInv

\* The last word of r on its key: its answer, or the deletion.  Whoever owned
\* the entry loses it, which takes that r had outlived its own reservation.
LEMMA LastWordKeeps ==
  ASSUME IndInv, NEW r \in Request, Record(r) \/ RecordFails(r) \/ Clear(r)
  PROVE  IndInv'
<1> DEFINE k == request[r].key
<1>1. /\ entry \in [Key -> EntryType] /\ request \in [Request -> RequestType]
      /\ \A x \in Request : request[x].step # "idle" => request[x].key \in Key
      /\ booked \in [Request -> Nat] /\ mishap \in [Request -> SUBSET Mishaps]
      /\ \A x \in Request : booked[x] <= pnrs[x]
  BY Typed
<1>2. /\ request[r].step \in {"persisted", "failing"}
      /\ UNCHANGED <<pnrs, stray, booked>>
  BY Zenon DEF Record, Recordable, RecordFails, Clear
<1>3. /\ k \in Key /\ request[r] \in RequestType
      /\ request[r].step = "persisted" => booked[r] > 0
      /\ booked[r] > 0 /\ request[r].step = "failing" => "unrecorded" \in mishap[r]
  BY <1>1, <1>2 DEF IndInv, BookingsFollowSteps
<1>4. /\ Done(r) \in EntryType /\ Done(r).status = "done" /\ Done(r).by = r
      /\ Absent \in EntryType /\ Absent.status = "absent" /\ Absent.by = NoRequest
  BY HoldConstants DEF Done, Absent, EntryType
<1>5. /\ mishap' \in [Request -> SUBSET Mishaps]
      /\ \A x \in Request : mishap[x] \subseteq mishap'[x]
      /\ RecordFails(r) => "unrecorded" \in mishap'[r]
  <2>1. CASE RecordFails(r)
    BY <1>1, <2>1 DEF RecordFails, Suffers, Mishaps
  <2>2. CASE Record(r) \/ Clear(r)
    <3>1. mishap' = mishap
      BY <2>2, Zenon DEF Record, Clear
    <3>2. ~RecordFails(r) \/ "unrecorded" \in mishap'[r]
      BY <2>1, <1>1 DEF RecordFails, Suffers, Mishaps
    <3> QED BY <1>1, <3>1, <3>2
  <2> QED BY <2>1, <2>2
<1>6. /\ request' \in [Request -> RequestType] /\ request'[r].key = k
      /\ \A x \in Request : x # r => request'[x] = request[x]
      /\ \/ /\ request[r].step = "persisted" /\ request'[r].step = "served"
            /\ request'[r].answer = r
         \/ /\ request[r].step = "persisted" /\ request'[r].step = "failing"
            /\ "unrecorded" \in mishap'[r]
         \/ request[r].step = "failing" /\ request'[r].step = "failed"
  <2>1. CASE Record(r)
    <3>1. ASSUME NEW q \in RequestType
          PROVE  LET t == [q EXCEPT !.step = "served", !.seen = 0, !.answer = r]
                 IN  t \in RequestType /\ t.step = "served" /\ t.key = q.key /\ t.answer = r
      BY DEF RequestType, Ended
    <3>2. /\ request[r].step = "persisted"
          /\ request' = [request EXCEPT ![r] =
                           [request[r] EXCEPT !.step = "served", !.seen = 0, !.answer = r]]
      BY <2>1, Zenon DEF Record, Recordable
    <3> QED BY <1>1, <1>3, <3>1, <3>2
  <2>2. ASSUME NEW step \in {"failing", "failed"}, Goes(r, step)
        PROVE  /\ request' \in [Request -> RequestType]
               /\ request'[r].key = k /\ request'[r].step = step
               /\ \A x \in Request : x # r => request'[x] = request[x]
    BY <1>1, <1>3, <2>2, Leftovers DEF Goes, Running, Ended
  <2>3. CASE RecordFails(r)
    <3>1. request[r].step = "persisted" /\ Goes(r, "failing")
      BY <2>3 DEF RecordFails
    <3> QED BY <1>5, <2>2, <2>3, <3>1
  <2>4. CASE Clear(r)
    <3>1. request[r].step = "failing" /\ Goes(r, "failed")
      BY <2>4 DEF Clear
    <3> QED BY <2>2, <3>1
  <2> QED BY <2>1, <2>3, <2>4
<1>7. /\ entry' \in [Key -> EntryType]
      /\ \A j \in Key : j # k => entry'[j] = entry[j]
      /\ \/ entry'[k] = entry[k] /\ request'[r].step = "failing"
         \/ entry'[k] = Done(r) /\ request[r].step = "persisted"
         \/ entry'[k] = Absent /\ request'[r].step = "failed"
  <2>1. \/ entry' = entry /\ request'[r].step = "failing"
        \/ entry' = [entry EXCEPT ![k] = Done(r)] /\ request[r].step = "persisted"
        \/ entry' = [entry EXCEPT ![k] = Absent] /\ request'[r].step = "failed"
    <3>1. CASE Record(r)
      BY <3>1, Zenon DEF Record, Recordable
    <3>2. CASE RecordFails(r)
      <4>1. request[r].step = "persisted" /\ Goes(r, "failing")
            /\ entry' \in {entry, [entry EXCEPT ![k] = Done(r)]}
        BY <3>2 DEF RecordFails
      <4>2. request'[r].step = "failing"
        BY <1>1, <1>3, <4>1, Leftovers DEF Goes, Running
      <4> QED BY <4>1, <4>2
    <3>3. CASE Clear(r)
      <4>1. Goes(r, "failed") /\ entry' = [entry EXCEPT ![k] = Absent]
        BY <3>3 DEF Clear, Cleared
      <4>2. request'[r].step = "failed"
        BY <1>1, <1>3, <4>1, Leftovers DEF Goes, Ended
      <4> QED BY <4>1, <4>2
    <3> QED BY <3>1, <3>2, <3>3
  <2> QED BY <1>1, <1>3, <1>4, <2>1
<1>8. /\ \A x \in Request : request'[x].key = request[x].key
      /\ \A x \in Request : IsRunning(x)' => IsRunning(x) /\ request[x].key \in Key
      /\ \A x \in Request : booked[x] > 0 => request[x].key \in Key
  BY <1>1, <1>2, <1>3, <1>6 DEF IsRunning, Running, IndInv, BookingsFollowSteps
<1>9. Remembers
  BY <1>2, <1>5, <1>6 DEF Remembers
<1>10. \A j \in Key : (Outlived(j) => Outlived(j)') /\ (Excused(j) => Excused(j)')
  BY <1>9, MishapsStay DEF IndInv
<1>11. entry[k].by = r \/ Outlived(k)
  BY <1>2 DEF IndInv, RunningOwns, IsRunning, Running
<1>12. TypeOK'
  <2>1. /\ pnrs' \in [Request -> Nat] /\ stray' \in [Request -> Nat]
        /\ booked' \in [Request -> Nat]
        /\ \A x \in Request : booked'[x] <= pnrs'[x]
    BY <1>2, Typed
  <2>2. \A x \in Request : request'[x].step # "idle" => request'[x].key \in Key
    BY <1>1, <1>3, <1>6
  <2> QED BY <1>5, <1>6, <1>7, <2>1, <2>2 DEF TypeOK, EntryType, RequestType
<1>13. EntriesHaveOwners'
  <2> SUFFICES ASSUME NEW j \in Key
               PROVE  IF entry'[j].status = "absent" THEN entry'[j].by = NoRequest
                      ELSE entry'[j].by \in Request /\ request'[entry'[j].by].key = j
    BY DEF EntriesHaveOwners
  <2>1. CASE entry'[j] = entry[j]
    BY <1>8, <2>1 DEF IndInv, EntriesHaveOwners
  <2>2. CASE entry'[j] # entry[j]
    BY <1>4, <1>6, <1>7, <2>2
  <2> QED BY <2>1, <2>2
<1>14. RunningOwns'
  <2> SUFFICES ASSUME NEW x \in Request, IsRunning(x)'
               PROVE  (entry[request[x].key].by = x \/ Outlived(request[x].key))'
    BY DEF RunningOwns
  <2>1. /\ request'[x].key = request[x].key /\ request[x].key \in Key
        /\ entry[request[x].key].by = x \/ Outlived(request[x].key)
    BY <1>8 DEF IndInv, RunningOwns
  <2>2. CASE request[x].key # k
    BY <1>7, <1>10, <2>1, <2>2
  <2>3. CASE request[x].key = k /\ x # r
    BY <1>10, <1>11, <2>1, <2>3
  <2>4. CASE x = r
    <3>1. request'[r].step \in Running
      BY <2>4 DEF IsRunning
    <3>2. request'[r].step = "failing"
      BY <1>6, <3>1 DEF Running
    <3>3. entry'[k].by = entry[k].by \/ entry'[k].by = r
      BY <1>4, <1>7, <3>2
    <3> QED BY <1>3, <1>10, <1>11, <2>1, <2>4, <3>3
  <2> QED BY <2>2, <2>3, <2>4
<1>15. BookedOwns'
  <2> SUFFICES ASSUME NEW x \in Request, booked[x] > 0
               PROVE  (entry[request[x].key].by = x \/ Excused(request[x].key))'
    BY <1>2 DEF BookedOwns
  <2>1. /\ request'[x].key = request[x].key /\ request[x].key \in Key
        /\ entry[request[x].key].by = x \/ Excused(request[x].key)
    BY <1>8 DEF IndInv, BookedOwns
  <2>2. CASE request[x].key # k
    BY <1>7, <1>10, <2>1, <2>2
  <2>3. CASE request[x].key = k /\ x # r
    <3>1. Excused(k)
      BY <1>11, <2>1, <2>3, OutlivedIsExcuse
    <3> QED BY <1>3, <1>10, <2>1, <2>3, <3>1
  <2>4. CASE x = r /\ entry'[k] = Done(r)
    BY <1>4, <2>1, <2>4
  <2>5. CASE x = r /\ entry'[k] # Done(r)
    <3>1. "unrecorded" \in mishap'[r]
      BY <1>3, <1>4, <1>5, <1>6, <1>7, <2>5
    <3>2. Excused(k)'
      BY <1>6, <3>1 DEF Excused
    <3> QED BY <1>6, <2>1, <2>5, <3>2
  <2> QED BY <2>2, <2>3, <2>4, <2>5
<1>16. BookingsFollowSteps'
  BY <1>2, <1>3, <1>5, <1>6 DEF IndInv, BookingsFollowSteps
<1>17. ArrivalsHaveNoKey'
  BY <1>6 DEF IndInv, ArrivalsHaveNoKey
<1>18. AnswersAreBookings'
  <2>1. ASSUME NEW j \in Key, entry'[j].status = "done"
        PROVE  booked[entry'[j].by] > 0 /\ request'[entry'[j].by].key = j
    <3>1. CASE entry'[j] = entry[j]
      BY <1>8, <2>1, <3>1, Owned DEF IndInv, AnswersAreBookings
    <3>2. CASE entry'[j] # entry[j]
      BY <1>3, <1>4, <1>6, <1>7, <2>1, <3>2
    <3> QED BY <3>1, <3>2
  <2>2. ASSUME NEW x \in Request, request'[x].step = "served"
        PROVE  /\ request'[x].answer \in Request /\ booked[request'[x].answer] > 0
               /\ request'[x].key = request'[request'[x].answer].key
    <3>1. CASE x = r
      BY <1>3, <1>6, <2>2, <3>1
    <3>2. CASE x # r
      BY <1>6, <1>8, <2>2, <3>2 DEF IndInv, AnswersAreBookings, SameKey
    <3> QED BY <3>1, <3>2
  <2> QED BY <1>2, <2>1, <2>2 DEF AnswersAreBookings, SameKey
<1>19. ReservedMeansWorking'
  <2> SUFFICES ASSUME NEW j \in Key, entry'[j].status = "processing"
               PROVE  LET x == entry'[j].by
                      IN  \/ request'[x].step \in Running /\ request'[x].key = j
                          \/ request'[x].step \in {"dead", "unavailable"}
                          \/ "undeleted" \in mishap'[x]
    BY DEF ReservedMeansWorking, IsRunning
  <2>1. entry'[j] = entry[j]
    BY <1>4, <1>7
  <2>2. entry[j].by \in Request /\ request[entry[j].by].key = j
    BY <2>1, Owned
  <2>3. CASE entry[j].by # r
    BY <1>5, <1>6, <2>1, <2>2, <2>3 DEF IndInv, ReservedMeansWorking, IsRunning
  <2>4. CASE entry[j].by = r
    <3>1. entry'[k] = entry[k] /\ j = k
      BY <2>1, <2>2, <2>4
    <3>2. request'[r].step = "failing"
      BY <1>4, <1>7, <2>1, <3>1
    <3> QED BY <1>6, <2>1, <2>4, <3>1, <3>2 DEF Running
  <2> QED BY <2>3, <2>4
<1> QED
  BY <1>12, <1>13, <1>14, <1>15, <1>16, <1>17, <1>18, <1>19 DEF IndInv

\* A create-booking that its request gave up only adds a PNR.
LEMMA LateKeeps ==
  ASSUME IndInv, NEW r \in Request, GatewayBooksLate(r)
  PROVE  IndInv'
<1>1. /\ UNCHANGED <<entry, request, booked, mishap>>
      /\ pnrs' \in [Request -> Nat] /\ stray' \in [Request -> Nat]
      /\ \A x \in Request : pnrs[x] <= pnrs'[x] /\ pnrs[x] \in Nat
  BY Typed DEF GatewayBooksLate
<1>2. TypeOK'
  <2>1. \A x \in Request : booked'[x] <= pnrs'[x]
    BY <1>1, Typed
  <2> QED BY <1>1, <2>1 DEF IndInv, TypeOK
<1>3. EntriesHaveOwners' /\ ArrivalsHaveNoKey'
  BY <1>1 DEF IndInv, EntriesHaveOwners, ArrivalsHaveNoKey
<1>4. RunningOwns' /\ BookedOwns'
  BY <1>1 DEF IndInv, RunningOwns, BookedOwns, IsRunning, Outlived, Excused
<1>5. BookingsFollowSteps'
  <2>1. \A x \in Request : 1..pnrs[x] \subseteq 1..pnrs'[x]
    BY <1>1
  <2> QED BY <1>1, <2>1 DEF IndInv, BookingsFollowSteps
<1>6. AnswersAreBookings' /\ ReservedMeansWorking'
  BY <1>1 DEF IndInv, AnswersAreBookings, ReservedMeansWorking, SameKey, IsRunning
<1> QED
  BY <1>2, <1>3, <1>4, <1>5, <1>6 DEF IndInv

\* Expiry marks the owner of what it takes away.
LEMMA TickKeeps == IndInv /\ Tick => IndInv'
<1> SUFFICES ASSUME IndInv, Tick PROVE IndInv'
  OBVIOUS
<1>1. /\ entry \in [Key -> EntryType] /\ request \in [Request -> RequestType]
      /\ \A x \in Request : request[x].step # "idle" => request[x].key \in Key
      /\ booked \in [Request -> Nat] /\ mishap \in [Request -> SUBSET Mishaps]
  BY Typed
<1>2. UNCHANGED <<request, pnrs, stray, booked>>
  BY DEF Tick
<1>3. /\ Absent \in EntryType /\ Absent.status = "absent" /\ Absent.by = NoRequest
  BY HoldConstants DEF Absent, EntryType
<1>4. /\ entry' \in [Key -> EntryType]
      /\ \A k \in Key : \/ entry'[k] = Absent /\ k \in Expiring
                        \/ /\ entry'[k].status = entry[k].status
                           /\ entry'[k].by = entry[k].by
  <2>1. ASSUME NEW e \in EntryType, e.left > 0
        PROVE  LET d == [e EXCEPT !.left = @ - 1]
               IN  d \in EntryType /\ d.status = e.status /\ d.by = e.by
    <3>1. e.left - 1 \in 0..Ttl
      BY <2>1, HoldConstants DEF EntryType
    <3> QED BY <3>1 DEF EntryType
  <2>2. \A k \in Key :
          entry'[k] = IF k \in Expiring THEN Absent
                      ELSE IF entry[k].left > 0 THEN [entry[k] EXCEPT !.left = @ - 1]
                      ELSE entry[k]
    BY DEF Tick
  <2>3. entry' = [k \in Key |-> entry'[k]]
    BY DEF Tick
  <2>4. ASSUME NEW k \in Key
        PROVE  /\ entry'[k] \in EntryType
               /\ \/ entry'[k] = Absent /\ k \in Expiring
                  \/ entry'[k].status = entry[k].status /\ entry'[k].by = entry[k].by
    <3>1. entry[k] \in EntryType
      BY <1>1
    <3>2. CASE k \in Expiring
      BY <1>3, <2>2, <3>2
    <3>3. CASE k \notin Expiring /\ entry[k].left > 0
      <4>1. entry'[k] = [entry[k] EXCEPT !.left = @ - 1]
        BY <2>2, <3>3
      <4> QED BY <2>1, <3>1, <3>3, <4>1
    <3>4. CASE k \notin Expiring /\ ~(entry[k].left > 0)
      BY <2>2, <3>1, <3>4
    <3> QED BY <3>2, <3>3, <3>4
  <2> QED BY <2>3, <2>4
<1>5. /\ mishap' \in [Request -> SUBSET Mishaps]
      /\ \A x \in Request : mishap[x] \subseteq mishap'[x]
  BY <1>1 DEF Tick, Mishaps
<1>6. ASSUME NEW k \in Expiring, NEW x \in Request, entry[k].by = x
      PROVE  \/ IsRunning(x) /\ "outlived" \in mishap'[x]
             \/ ~IsRunning(x) /\ "aged" \in mishap'[x]
  BY <1>6 DEF Tick
<1>7. Remembers
  BY <1>2, <1>5 DEF Remembers
<1>8. \A j \in Key : (Outlived(j) => Outlived(j)') /\ (Excused(j) => Excused(j)')
  BY <1>7, MishapsStay DEF IndInv
<1>9. TypeOK'
  <2>1. /\ pnrs' \in [Request -> Nat] /\ stray' \in [Request -> Nat]
        /\ booked' \in [Request -> Nat] /\ \A x \in Request : booked'[x] <= pnrs'[x]
        /\ request' \in [Request -> RequestType]
        /\ \A x \in Request : request'[x].step # "idle" => request'[x].key \in Key
    BY <1>2, Typed
  <2> QED BY <1>4, <1>5, <2>1 DEF TypeOK, EntryType, RequestType
<1>10. EntriesHaveOwners'
  BY <1>2, <1>3, <1>4 DEF IndInv, EntriesHaveOwners
<1>11. RunningOwns'
  <2> SUFFICES ASSUME NEW x \in Request, IsRunning(x)'
               PROVE  (entry[request[x].key].by = x \/ Outlived(request[x].key))'
    BY DEF RunningOwns
  <2> DEFINE k == request[x].key
  <2>1. /\ request'[x].key = k /\ IsRunning(x) /\ k \in Key
        /\ entry[k].by = x \/ Outlived(k)
    BY <1>1, <1>2 DEF IndInv, RunningOwns, IsRunning, Running
  <2>2. CASE entry[k].by = x /\ k \in Expiring
    <3>1. "outlived" \in mishap'[x]
      BY <1>6, <2>1, <2>2
    <3>2. Outlived(k)'
      BY <1>2, <3>1 DEF Outlived
    <3> QED BY <1>2, <3>2
  <2>3. CASE entry[k].by = x /\ k \notin Expiring
    BY <1>4, <2>1, <2>3
  <2>4. CASE Outlived(k)
    BY <1>2, <1>8, <2>1, <2>4
  <2> QED BY <2>1, <2>2, <2>3, <2>4
<1>12. BookedOwns'
  <2> SUFFICES ASSUME NEW x \in Request, booked[x] > 0
               PROVE  (entry[request[x].key].by = x \/ Excused(request[x].key))'
    BY <1>2 DEF BookedOwns
  <2> DEFINE k == request[x].key
  <2>1. /\ request'[x].key = k /\ k \in Key
        /\ entry[k].by = x \/ Excused(k)
    BY <1>1, <1>2 DEF IndInv, BookedOwns, BookingsFollowSteps
  <2>2. CASE entry[k].by = x /\ k \in Expiring
    <3>1. "outlived" \in mishap'[x] \/ "aged" \in mishap'[x]
      BY <1>6, <2>1, <2>2
    <3>2. Excused(k)'
      BY <1>2, <3>1 DEF Excused
    <3> QED BY <1>2, <3>2
  <2>3. CASE entry[k].by = x /\ k \notin Expiring
    BY <1>4, <2>1, <2>3
  <2>4. CASE Excused(k)
    BY <1>2, <1>8, <2>1, <2>4
  <2> QED BY <2>1, <2>2, <2>3, <2>4
<1>13. BookingsFollowSteps'
  BY <1>2, <1>5 DEF IndInv, BookingsFollowSteps
<1>14. ArrivalsHaveNoKey'
  BY <1>2 DEF IndInv, ArrivalsHaveNoKey
<1>15. AnswersAreBookings'
  <2>1. ASSUME NEW k \in Key, entry'[k].status = "done"
        PROVE  booked[entry'[k].by] > 0 /\ request[entry'[k].by].key = k
    BY <1>3, <1>4, <2>1 DEF IndInv, AnswersAreBookings
  <2>2. ASSUME NEW x \in Request, request[x].step = "served"
        PROVE  /\ request[x].answer \in Request /\ booked[request[x].answer] > 0
               /\ request[x].key = request[request[x].answer].key
    BY <2>2 DEF IndInv, AnswersAreBookings, SameKey
  <2> QED BY <1>2, <2>1, <2>2 DEF AnswersAreBookings, SameKey
<1>16. ReservedMeansWorking'
  <2> SUFFICES ASSUME NEW k \in Key, entry'[k].status = "processing"
               PROVE  LET x == entry'[k].by
                      IN  \/ request[x].step \in Running /\ request[x].key = k
                          \/ request[x].step \in {"dead", "unavailable"}
                          \/ "undeleted" \in mishap'[x]
    BY <1>2 DEF ReservedMeansWorking, IsRunning
  <2>1. entry[k].status = "processing" /\ entry'[k].by = entry[k].by
    BY <1>3, <1>4
  <2>2. entry[k].by \in Request
    BY <2>1, Owned
  <2> QED BY <1>5, <2>1, <2>2 DEF IndInv, ReservedMeansWorking, IsRunning
<1> QED
  BY <1>9, <1>10, <1>11, <1>12, <1>13, <1>14, <1>15, <1>16 DEF IndInv

LEMMA IndStep == IndInv /\ [Next]_vars => IndInv'
<1> SUFFICES ASSUME IndInv, [Next]_vars PROVE IndInv'
  OBVIOUS
<1>1. CASE Tick
  BY <1>1, TickKeeps
<1>2. ASSUME NEW r \in Request, Arrive(r) PROVE IndInv'
  BY <1>2, ArrivalKeeps, Zenon DEF Arrive
<1>3. ASSUME NEW r \in Request, Handle(r) PROVE IndInv'
  <2>1. CASE \/ CreateBooking(r) \/ Made(r) \/ RefusedToken(r) \/ RefusedProtection(r)
             \/ HttpError(r) \/ Timeout(r) \/ Unread(r) \/ Reconcile(r) \/ Fail(r) \/ ClearFails(r)
    BY <2>1, QuietSteps, QuietKeeps, Zenon
  <2>2. CASE ReadCached(r)
    BY <2>2, ReadCachedKeeps
  <2>3. CASE Persist(r)
    BY <2>3, PersistKeeps
  <2>4. CASE Record(r) \/ RecordFails(r) \/ Clear(r)
    BY <2>4, LastWordKeeps
  <2> QED BY <1>3, <2>1, <2>2, <2>3, <2>4, Zenon DEF Handle
<1>4. ASSUME NEW r \in Request, Die(r) \/ GatewayBooks(r) PROVE IndInv'
  BY <1>4, QuietSteps, QuietKeeps, Zenon
<1>5. ASSUME NEW r \in Request, GatewayBooksLate(r) PROVE IndInv'
  BY <1>5, LateKeeps
<1>6. CASE UNCHANGED vars
  BY <1>6 DEF vars, IndInv, TypeOK, EntriesHaveOwners, RunningOwns, BookedOwns,
              BookingsFollowSteps, ArrivalsHaveNoKey, AnswersAreBookings,
              ReservedMeansWorking, IsRunning, SameKey, Outlived, Excused
<1> QED
  BY <1>1, <1>2, <1>3, <1>4, <1>5, <1>6, Zenon DEF Next
-----------------------------------------------------------------------------
(* PNRs that a booking misses.  A request whose create-bookings all ended   *)
(* with an answer it read has made one PNR at most: it is sent again only when the  *)
(* gateway refused it, and no create-booking of it is left behind.          *)

\* What a request that lost no answer may have at the gateway: q the request,
\* n the PNRs, s the create-bookings left behind.
Single(q, n, s) ==
  /\ s = 0 /\ n \in {0, 1}
  /\ q.step \in {"idle", "reserved"} => n = 0
  /\ q.step = "booking" /\ ~q.made => n = 0

LostAnswer(r) == "unanswered" \in mishap[r]

OnePnr ==
  \A r \in Request : LostAnswer(r) \/ Single(request[r], pnrs[r], stray[r])

\* What a step does to the requests it is not about.
Aside(r) ==
  \A y \in Request \ {r} :
    /\ request'[y] = request[y] /\ pnrs'[y] = pnrs[y] /\ stray'[y] = stray[y]
    /\ mishap[y] \subseteq mishap'[y]

LEMMA OnePnrStep == ASSUME IndInv, OnePnr, [Next]_vars PROVE OnePnr'
<1>1. /\ request \in [Request -> RequestType] /\ pnrs \in [Request -> Nat]
      /\ stray \in [Request -> Nat] /\ mishap \in [Request -> SUBSET Mishaps]
  BY Typed
<1>2. ASSUME NEW r \in Request, Aside(r), mishap[r] \subseteq mishap'[r],
             Single(request[r], pnrs[r], stray[r]) => Single(request'[r], pnrs'[r], stray'[r])
      PROVE  OnePnr'
  BY <1>2 DEF OnePnr, LostAnswer, Aside
<1>3. ASSUME NEW r \in Request, UNCHANGED <<pnrs, stray>>, NEW q,
             request' = [request EXCEPT ![r] = q],
             \A y \in Request : mishap[y] \subseteq mishap'[y],
             \/ q.step \notin {"idle", "reserved", "booking"}
             \/ request[r].step = "idle" /\ q.step = "reserved"
             \/ /\ request[r].step = "booking" => ~request[r].made
                /\ request[r].step \in {"reserved", "booking"} /\ q.step = "booking"
      PROVE  OnePnr'
  <2>1. request'[r] = q /\ \A y \in Request \ {r} : request'[y] = request[y]
    BY <1>1, <1>3
  <2> QED BY <1>2, <1>3, <2>1 DEF Aside, Single
\* The handler leaves its locals behind.
<1>4. ASSUME NEW r \in Request, NEW step, Goes(r, step), UNCHANGED <<pnrs, stray>>,
             step \in {"conflict", "unavailable", "made", "persisted", "failing", "failed", "dead"},
             mishap' = mishap \/ \E what \in Mishaps : Suffers(r, what)
      PROVE  OnePnr'
  <2> DEFINE q == [Arriving EXCEPT !.step = step, !.key = request[r].key]
  <2>1. q.step = step
    BY DEF Arriving
  <2>2. request' = [request EXCEPT ![r] = q]
    BY <1>4 DEF Goes
  <2>3. \A y \in Request : mishap[y] \subseteq mishap'[y]
    BY <1>1, <1>4 DEF Suffers
  <2> HIDE DEF q
  <2> QED BY <1>3, <1>4, <2>1, <2>2, <2>3
<1>5. ASSUME NEW r \in Request, Arrive(r) PROVE OnePnr'
  <2>1. PICK k \in Key : Reserve(r, k) \/ FindTaken(r, k) \/ ReserveFails(r, k)
    BY <1>5 DEF Arrive
  <2>2. PICK step \in {"reserved", "taken", "unavailable"} :
          request' = [request EXCEPT ![r] = [@ EXCEPT !.step = step, !.key = k]]
    BY <2>1 DEF Reserve, FindTaken, ReserveFails
  <2> DEFINE q == [request[r] EXCEPT !.step = step, !.key = k]
  <2>3. q.step = step
    BY <1>1 DEF RequestType
  <2>4. request' = [request EXCEPT ![r] = q]
    BY <2>2
  <2>5. request[r].step = "idle" /\ UNCHANGED <<pnrs, stray, mishap>>
    BY <2>1 DEF Reserve, FindTaken, ReserveFails
  <2> HIDE DEF q
  <2> QED BY <1>3, <2>3, <2>4, <2>5
<1>6. ASSUME NEW r \in Request, Made(r) \/ Persist(r) \/ Fail(r) PROVE OnePnr'
  BY <1>4, <1>6 DEF Made, Persist, Fail
<1>7. ASSUME NEW r \in Request, Clear(r) \/ Die(r) \/ HttpError(r) PROVE OnePnr'
  BY <1>4, <1>7 DEF Clear, Die, HttpError, RetriesHttpError
<1>8. ASSUME NEW r \in Request, RecordFails(r) \/ ClearFails(r) PROVE OnePnr'
  BY <1>4, <1>8 DEF RecordFails, ClearFails, Mishaps
<1>9. ASSUME NEW r \in Request, ReadCached(r) PROVE OnePnr'
  <2>1. UNCHANGED <<pnrs, stray, mishap>>
    BY <1>9, Zenon DEF ReadCached
  <2>2. CASE Goes(r, "conflict") \/ Goes(r, "unavailable")
    BY <1>4, <2>1, <2>2
  <2>3. CASE request' = [request EXCEPT ![r] =
                [@ EXCEPT !.step = "served", !.answer = entry[request[r].key].by]]
    <3> DEFINE q == [request[r] EXCEPT !.step = "served", !.answer = entry[request[r].key].by]
    <3>1. q.step = "served"
      BY <1>1 DEF RequestType
    <3>2. request' = [request EXCEPT ![r] = q]
      BY <2>3
    <3> HIDE DEF q
    <3> QED BY <1>3, <2>1, <3>1, <3>2
  <2> QED BY <1>9, <2>2, <2>3 DEF ReadCached
<1>10. ASSUME NEW r \in Request, Reconcile(r) PROVE OnePnr'
  <2>1. PICK n \in 1..pnrs[r] :
          request' = [request EXCEPT ![r] = [@ EXCEPT !.step = "priced", !.seen = n]]
    BY <1>10, Zenon DEF Reconcile
  <2> DEFINE q == [request[r] EXCEPT !.step = "priced", !.seen = n]
  <2>2. q.step = "priced" /\ UNCHANGED <<pnrs, stray, mishap>>
    BY <1>1, <1>10 DEF RequestType, Reconcile
  <2>3. request' = [request EXCEPT ![r] = q]
    BY <2>1
  <2> HIDE DEF q
  <2> QED BY <1>3, <2>2, <2>3
<1>11. ASSUME NEW r \in Request, Record(r) PROVE OnePnr'
  <2> DEFINE q == [request[r] EXCEPT !.step = "served", !.seen = 0, !.answer = r]
  <2>1. q.step = "served"
    BY <1>1 DEF RequestType
  <2>2. request' = [request EXCEPT ![r] = q] /\ UNCHANGED <<pnrs, stray, mishap>>
    BY <1>11 DEF Record
  <2> HIDE DEF q
  <2> QED BY <1>3, <2>1, <2>2
\* A create-booking is sent for the first time, or again after a refusal.
<1>12. ASSUME NEW r \in Request, CreateBooking(r) \/ RefusedToken(r) \/ RefusedProtection(r)
       PROVE  OnePnr'
  <2>1. \E q : /\ request' = [request EXCEPT ![r] = q] /\ q.step = "booking"
               /\ \/ request[r].step = "reserved"
                  \/ request[r].step = "booking" /\ ~request[r].made
               /\ UNCHANGED <<pnrs, stray, mishap>>
    <3>1. /\ Sent(request[r]).step = "booking"
          /\ [Sent(request[r]) EXCEPT !.retried = TRUE].step = "booking"
          /\ [Sent(request[r]) EXCEPT !.retried = FALSE, !.verified = TRUE].step = "booking"
      BY <1>1, RequestUpdates
    <3> QED BY <1>12, <3>1 DEF CreateBooking, RefusedToken, RefusedProtection
  <2> QED BY <1>3, <2>1
<1>13. ASSUME NEW r \in Request, GatewayBooks(r) PROVE OnePnr'
  <2>1. /\ request[r].step = "booking" /\ ~request[r].made
        /\ request'[r].step = "booking" /\ request'[r].made
        /\ pnrs'[r] = pnrs[r] + 1 /\ UNCHANGED <<stray, mishap>>
        /\ \A y \in Request \ {r} : request'[y] = request[y] /\ pnrs'[y] = pnrs[y]
    BY <1>1, <1>13 DEF GatewayBooks, RequestType
  <2> QED BY <1>1, <1>2, <2>1 DEF Aside, Single
\* Only a request that lost an answer has something left at the gateway.
<1>14. ASSUME NEW r \in Request, GatewayBooksLate(r) PROVE OnePnr'
  <2>1. /\ stray[r] > 0 /\ UNCHANGED <<request, mishap>>
        /\ \A y \in Request \ {r} : pnrs'[y] = pnrs[y] /\ stray'[y] = stray[y]
    BY <1>1, <1>14 DEF GatewayBooksLate
  <2>2. ~Single(request[r], pnrs[r], stray[r])
    BY <1>1, <2>1 DEF Single
  <2> QED BY <1>2, <2>1, <2>2 DEF Aside
<1>15. ASSUME NEW r \in Request, Timeout(r) \/ Unread(r) PROVE OnePnr'
  <2>1. LostAnswer(r)'
    BY <1>1, <1>15 DEF Timeout, Unread, Suffers, LostAnswer, Mishaps
  <2>2. \A y \in Request \ {r} : request'[y] = request[y]
    BY <1>1, <1>15 DEF Timeout, Unread, SendAgainOrFail, Goes
  <2>3. /\ UNCHANGED pnrs
        /\ \A y \in Request \ {r} : stray'[y] = stray[y] /\ mishap'[y] = mishap[y]
    BY <1>1, <1>15 DEF Timeout, Unread, LeftBehind, Suffers
  <2> QED BY <2>1, <2>2, <2>3 DEF OnePnr, LostAnswer
<1>16. CASE Tick
  <2>1. UNCHANGED <<request, pnrs, stray>> /\ \A y \in Request : mishap[y] \subseteq mishap'[y]
    BY <1>1, <1>16 DEF Tick
  <2> QED BY <2>1 DEF OnePnr, LostAnswer
<1>17. CASE UNCHANGED vars
  BY <1>17 DEF vars, OnePnr, LostAnswer
<1> QED
  BY <1>5, <1>6, <1>7, <1>8, <1>9, <1>10, <1>11, <1>12, <1>13, <1>14, <1>15, <1>16, <1>17,
     Zenon DEF Next, Handle
-----------------------------------------------------------------------------
(* The theorems                                                            *)

LEMMA Inductive == Spec => []IndInv
<1> QED BY InitOK, IndStep, PTL DEF Spec

\* The variables keep their types, and no booking names more PNRs than the
\* gateway made for its request.
THEOREM HoldTypeCorrect == Spec => []TypeOK
<1>1. IndInv => TypeOK
  BY DEF IndInv
<1> QED BY <1>1, Inductive, PTL

\* Two requests of one key hold seats at once only if a reservation of the key
\* ran out under its request (the key that hold of booking.controller.ts takes).
THEOREM HoldsDoNotOverlap == Spec => []OneAtATime
<1>1. IndInv => OneAtATime
  <2> SUFFICES ASSUME IndInv, NEW r \in Request, NEW x \in Request,
                      r # x, IsRunning(r), IsRunning(x), SameKey(r, x)
               PROVE  \E y \in Request : SameKey(r, y) /\ "outlived" \in mishap[y]
    BY DEF OneAtATime
  <2>1. /\ entry[request[r].key].by = r \/ Outlived(request[r].key)
        /\ entry[request[r].key].by = x \/ Outlived(request[r].key)
    BY DEF IndInv, RunningOwns, SameKey
  <2> QED BY <2>1 DEF Outlived, SameKey
<1> QED BY <1>1, Inductive, PTL

\* Two bookings under one key mean an entry of the key that ran out, or an
\* answer that could not be stored.
THEOREM BookedTwiceOnlyByMishap == Spec => []TwiceOnlyByMishap
<1>1. IndInv => TwiceOnlyByMishap
  <2> SUFFICES ASSUME IndInv, NEW r \in Request, NEW x \in Request,
                      r # x, booked[r] > 0, booked[x] > 0, SameKey(r, x)
               PROVE  \E y \in Request :
                        /\ SameKey(r, y)
                        /\ mishap[y] \cap {"outlived", "aged", "unrecorded"} # {}
    BY DEF TwiceOnlyByMishap
  <2>1. /\ entry[request[r].key].by = r \/ Excused(request[r].key)
        /\ entry[request[r].key].by = x \/ Excused(request[r].key)
    BY DEF IndInv, BookedOwns, SameKey
  <2>2. Excused(request[r].key)
    BY <2>1
  <2> QED BY <2>2 DEF Excused, SameKey
<1> QED BY <1>1, Inductive, PTL

\* Every answer, stored under a key or given to a request, names a booking that
\* was persisted under that key.
THEOREM AnswersNameBookings == Spec => []AnswersAreBookings
<1>1. IndInv => AnswersAreBookings
  BY DEF IndInv
<1> QED BY <1>1, Inductive, PTL

\* A reservation belongs to a request that works, or that died, did not learn
\* of it or failed to delete it.
THEOREM ReservationsAreHonest == Spec => []ReservedMeansWorking
<1>1. IndInv => ReservedMeansWorking
  BY DEF IndInv
<1> QED BY <1>1, Inductive, PTL

\* A booking misses a PNR of its request only after an answer to a create-booking
\* of that request was lost (sendEncryptedRequest gives up or throws, and request
\* sends it again): nothing the gateway answers readably, refusals and HTTP errors
\* included, makes a second PNR.
THEOREM MissingPnrsAreLostAnswers == Spec => []MissingPnrMeansLostAnswer
<1>1. Init => OnePnr
  BY DEF Init, OnePnr, Single, Arriving
<1>2. IndInv /\ OnePnr /\ [Next]_vars => OnePnr'
  BY OnePnrStep
<1>3. IndInv /\ OnePnr => MissingPnrMeansLostAnswer
  BY Typed DEF OnePnr, LostAnswer, Single, MissingPnrMeansLostAnswer
<1> QED BY <1>1, <1>2, <1>3, Inductive, PTL DEF Spec
=============================================================================
