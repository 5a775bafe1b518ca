-------------------------- MODULE MuadiSessionPool --------------------------
(***************************************************************************)
(* The pool of Muadi agent sessions: rows of the table MuadiSession that   *)
(* requests lock one at a time, with a circuit breaker per row.            *)
(*                                                                         *)
(* Nothing in the pool runs in a transaction: a request counts the free    *)
(* rows, picks one and locks it in three statements, and a failed release  *)
(* clears "busy" and opens the breaker in two.  Each statement is an       *)
(* action, and the statements of different clients (requests of the API    *)
(* process, jobs of the worker process) interleave freely.                 *)
(*                                                                         *)
(* Time is kept as the age of each row since its last update, which is all *)
(* reactivateStale compares; failures stop counting at MaxFailures, which  *)
(* is all release compares.                                                *)
(***************************************************************************)
EXTENDS Integers, FiniteSets

CONSTANTS
  Session,      \* rows of MuadiSession, each one identified by its label
  Account,      \* agent accounts at Muadi
  AccountOf,    \* AccountOf[s]: the account whose credentials row s holds
  LoginRow,     \* LoginRow[a]: the row labelled "muadi:<agent>:<user>" for a
  Seeded,       \* rows written by the seed script
  Client,       \* requests and jobs that may run at once
  Reserved,     \* HUNTER_RESERVED_REALTIME
  MaxFailures,  \* MUADI_SESSION_MAX_FAILURES
  Cooldown,     \* MUADI_SESSION_REACTIVATE_COOLDOWN_MINUTES
  MaxLost,      \* bound: requests that die, or lose the database, midway
  NoSession, Nobody, Gone

ASSUME PoolConstants ==
  /\ AccountOf \in [Session -> Account]
  /\ LoginRow \in [Account -> Session]
  /\ Seeded \subseteq Session
  /\ Reserved \in Nat /\ MaxFailures \in Nat \ {0} /\ Cooldown \in Nat \ {0}
  /\ MaxLost \in Nat
  /\ NoSession \notin Session
  /\ Nobody \notin Client /\ Gone \notin Client /\ Nobody # Gone

VARIABLES
  session,     \* session[s]: the columns of row s the pool depends on
  notLater,    \* <<s, t>>: both were used, and lastUsedAt of s <= that of t
  client,      \* client[c]: how far the request of c is, and with which row
  lost,        \* rows whose holder vanished before releasing them
  losses       \* requests that vanished so far

vars == <<session, notLater, client, lost, losses>>

Step == {"idle", "counted", "found", "acquired", "loggingIn", "ready", "tripping"}
Idle == [step |-> "idle", hunter |-> FALSE, target |-> NoSession]

Row == [exists : BOOLEAN, active : BOOLEAN, busy : BOOLEAN, token : BOOLEAN,
        failures : 0..MaxFailures, age : 0..Cooldown]

Holding(c) == client[c].step \in {"acquired", "loggingIn", "ready"}
Holds(c, s) == Holding(c) /\ client[c].target = s
-----------------------------------------------------------------------------
(* Rows                                                                    *)

Free == {s \in Session : session[s].exists /\ session[s].active /\ ~session[s].busy}

\* ORDER BY "lastUsedAt" ASC: PostgreSQL puts the rows never used last.
SortsBefore(s, t) == /\ <<s, s>> \in notLater
                     /\ <<t, t>> \notin notLater \/ (<<s, t>> \in notLater /\ s # t)

FirstFree == {s \in Free : \A t \in Free : ~SortsBefore(t, s)}

\* lastUsedAt = now for row s.
Stamped(s) == {p \in notLater : p[1] # s /\ p[2] # s}
              \cup {<<t, s>> : t \in {u \in Session : <<u, u>> \in notLater} \cup {s}}

OneMore(n) == IF n < MaxFailures THEN n + 1 ELSE n

FaultLockActive(s) == session[s].active
Lockable(s) == session[s].active /\ ~session[s].busy

MustTrip(n) == n >= MaxFailures

FaultFailureKeepsBusy(r, success) ==
  [r EXCEPT !.busy = ~success, !.age = 0,
            !.failures = IF success THEN 0 ELSE OneMore(r.failures)]
FaultFailureNotCounted(r, success) ==
  [r EXCEPT !.busy = FALSE, !.age = 0, !.failures = IF success THEN 0 ELSE r.failures]
Released(r, success) ==
  [r EXCEPT !.busy = FALSE, !.age = 0,
            !.failures = IF success THEN 0 ELSE OneMore(r.failures)]

FaultStaleIfCounted(s) ==
  /\ session[s].exists /\ ~session[s].active
  /\ session[s].age = Cooldown /\ session[s].failures = MaxFailures
Stale(s) == session[s].exists /\ ~session[s].active /\ session[s].age = Cooldown

AfterFind(s) == IF s = NoSession THEN "idle" ELSE "found"
-----------------------------------------------------------------------------
\* Rows from the seed script have never been used and hold no token.
Init ==
  /\ session = [s \in Session |->
       [exists |-> s \in Seeded, active |-> TRUE, busy |-> FALSE, token |-> FALSE,
        failures |-> 0, age |-> 0]]
  /\ notLater = {}
  /\ client = [c \in Client |-> Idle]
  /\ lost = {}
  /\ losses = 0

\* acquireForHunter counts the free rows, and gives up without headroom.
CountFree(c) ==
  /\ client[c].step = "idle"
  /\ Cardinality(Free) > Reserved
  /\ client' = [client EXCEPT ![c] = [step |-> "counted", hunter |-> TRUE, target |-> NoSession]]
  /\ UNCHANGED <<session, notLater, lost, losses>>

\* findFreeSession, for a real-time request or for a hunter that has counted.
FindFree(c) ==
  /\ client[c].step \in {"idle", "counted"}
  /\ \E s \in IF Free = {} THEN {NoSession} ELSE FirstFree :
       client' = [client EXCEPT ![c] =
         IF AfterFind(s) = "idle" THEN Idle
         ELSE [step |-> AfterFind(s), hunter |-> @.hunter, target |-> s]]
  /\ UNCHANGED <<session, notLater, lost, losses>>

\* lock: the conditional update, won only while the row is still free.
Lock(c) ==
  LET s == client[c].target IN
  /\ client[c].step = "found"
  /\ Lockable(s)
  /\ session' = [session EXCEPT ![s] = [@ EXCEPT !.busy = TRUE, !.age = 0]]
  /\ notLater' = Stamped(s)
  /\ client' = [client EXCEPT ![c] = [@ EXCEPT !.step = "acquired"]]
  /\ UNCHANGED <<lost, losses>>

\* lock lost the race: a hunter gets null, a real-time request an error.
LoseRace(c) ==
  /\ client[c].step = "found"
  /\ ~Lockable(client[c].target)
  /\ client' = [client EXCEPT ![c] = Idle]
  /\ UNCHANGED <<session, notLater, lost, losses>>
-----------------------------------------------------------------------------
(* While a request holds a row, the Muadi client writes to it              *)

\* ensureValidSession finds the token of the row fresh.
TokenFresh(c) ==
  /\ client[c].step = "acquired"
  /\ session[client[c].target].token
  /\ client' = [client EXCEPT ![c] = [@ EXCEPT !.step = "ready"]]
  /\ UNCHANGED <<session, notLater, lost, losses>>

\* A token refreshed (updateStoredTokens) or any answer of the gateway that
\* carries its clock (syncServerDiff).
Answered(c) ==
  LET s == client[c].target IN
  /\ client[c].step \in {"acquired", "ready"}
  /\ session[s].token
  /\ session' = [session EXCEPT ![s] = [@ EXCEPT !.age = 0]]
  /\ notLater' = Stamped(s)
  /\ client' = [client EXCEPT ![c] = [@ EXCEPT !.step = "ready"]]
  /\ UNCHANGED <<lost, losses>>

\* refreshTokens: every variant failed.  ensureValidSession then logs in; a
\* request that met a rejected token goes on with the answer it has.
RefreshFails(c) ==
  LET s == client[c].target IN
  /\ client[c].step \in {"acquired", "ready"}
  /\ session[s].token
  /\ session' = [session EXCEPT ![s] = [@ EXCEPT !.age = 0, !.failures = OneMore(session[s].failures)]]
  /\ \E next \in {"loggingIn"} \cup ({client[c].step} \ {"acquired"}) :
       client' = [client EXCEPT ![c] = [@ EXCEPT !.step = next]]
  /\ UNCHANGED <<notLater, lost, losses>>

\* login: the token goes to the row labelled after the account, created if
\* there is none, whichever row the request holds.
Login(c) ==
  LET s == LoginRow[AccountOf[client[c].target]] IN
  /\ \/ client[c].step = "loggingIn"
     \/ client[c].step = "acquired" /\ ~session[client[c].target].token
  /\ session' = [session EXCEPT ![s] =
       [@ EXCEPT !.exists = TRUE, !.active = TRUE, !.failures = 0, !.token = TRUE, !.age = 0]]
  /\ notLater' = Stamped(s)
  /\ client' = [client EXCEPT ![c] = [@ EXCEPT !.step = "ready"]]
  /\ UNCHANGED <<lost, losses>>

\* The request is served: no call passes buildHeaders without a token.
ReleaseSuccess(c) ==
  LET s == client[c].target IN
  /\ client[c].step = "ready"
  /\ session[s].token
  /\ session' = [session EXCEPT ![s] = Released(@, TRUE)]
  /\ client' = [client EXCEPT ![c] = Idle]
  /\ UNCHANGED <<notLater, lost, losses>>

\* The request threw: first statement of release(id, false).
ReleaseFailure(c) ==
  LET s == client[c].target
      after == Released(session[s], FALSE) IN
  /\ Holding(c)
  /\ session' = [session EXCEPT ![s] = after]
  /\ client' = [client EXCEPT ![c] =
       IF MustTrip(after.failures) THEN [@ EXCEPT !.step = "tripping"] ELSE Idle]
  /\ UNCHANGED <<notLater, lost, losses>>

\* Second statement of release(id, false): the breaker opens.
Trip(c) ==
  LET s == client[c].target IN
  /\ client[c].step = "tripping"
  /\ session' = [session EXCEPT ![s] = [@ EXCEPT !.active = FALSE, !.age = 0]]
  /\ client' = [client EXCEPT ![c] = Idle]
  /\ UNCHANGED <<notLater, lost, losses>>

\* The process dies, or the database is out of reach for the rest of the request.
Lose(c) ==
  /\ losses < MaxLost
  /\ losses' = losses + 1
  /\ client[c].step # "idle"
  /\ lost' = IF Holding(c) THEN lost \cup {client[c].target} ELSE lost
  /\ client' = [client EXCEPT ![c] = Idle]
  /\ UNCHANGED <<session, notLater>>
-----------------------------------------------------------------------------
\* The maintenance cron: one UPDATE of all the rows that have cooled down.
ReactivateStale ==
  /\ \E s \in Session : Stale(s)
  /\ session' = [s \in Session |->
       IF Stale(s) THEN [session[s] EXCEPT !.active = TRUE, !.failures = 0, !.age = 0]
       ELSE session[s]]
  /\ UNCHANGED <<notLater, client, lost, losses>>

Tick ==
  /\ session' = [s \in Session |->
       [session[s] EXCEPT !.age = IF session[s].age < Cooldown THEN @ + 1 ELSE @]]
  /\ UNCHANGED <<notLater, client, lost, losses>>

Use(c) == TokenFresh(c) \/ Answered(c) \/ RefreshFails(c) \/ Login(c)
End(c) == ReleaseSuccess(c) \/ ReleaseFailure(c) \/ Trip(c) \/ Lock(c) \/ LoseRace(c)

Next == \/ \E c \in Client : CountFree(c) \/ FindFree(c) \/ Use(c) \/ End(c) \/ Lose(c)
        \/ ReactivateStale
        \/ Tick

Spec == Init /\ [][Next]_vars

\* Requests end (each call to the gateway has a timeout), the clock goes on and
\* the cron runs every five minutes, its errors swallowed.
Fairness == /\ \A c \in Client : WF_vars(End(c)) /\ WF_vars(client[c].step = "counted" /\ FindFree(c))
            /\ WF_vars(ReactivateStale)
            /\ WF_vars(Tick)
FairSpec == Spec /\ Fairness
-----------------------------------------------------------------------------
(* Properties                                                              *)

TypeOK ==
  /\ session \in [Session -> Row]
  /\ notLater \subseteq Session \X Session
  /\ client \in [Client -> [step : Step, hunter : BOOLEAN, target : Session \cup {NoSession}]]
  /\ \A c \in Client :
       client[c].target = NoSession <=> client[c].step \in {"idle", "counted"}
  /\ lost \subseteq Session
  /\ losses \in 0..MaxLost

\* Two requests never use one agent session at the same time, however the
\* statements of acquireForRealtime, acquireForHunter and release interleave.
Exclusive ==
  \A c, d \in Client, s \in Session : Holds(c, s) /\ Holds(d, s) => c = d

\* A row is marked busy exactly while someone uses it; the exception is the row
\* whose holder vanished, which stays busy for good: nothing in the program
\* frees it, and nobody ever holds it again.
BusyIsAccounted ==
  \A s \in Session :
    /\ session[s].busy <=> (s \in lost \/ \E c \in Client : Holds(c, s))
    /\ s \in lost => \A c \in Client : ~Holds(c, s)

\* The pool is a lease service: a row passes from nobody to one holder and back.
Owner == [s \in Session |->
            IF \E c \in Client : Holds(c, s) THEN CHOOSE c \in Client : Holds(c, s)
            ELSE IF s \in lost THEN Gone ELSE Nobody]
Lease == INSTANCE SessionLease WITH owner <- Owner
LeaseSpec == Lease!Spec

\* reactivateStale, "so that the pool recovers by itself": every row of the pool
\* is on offer again and again, whatever failures, stale trips and logins come
\* in between, unless a holder vanished with it.
SessionsComeBack == \A s \in Seeded : []<>(s \in Free) \/ <>(s \in lost)

\* The breaker works for a row that cannot be used at all: one that never gets a
\* token but is handed out again and again is cut off again and again.
BreakerOpens ==
  \A s \in Seeded :
    ([]~session[s].token /\ []<>(\E c \in Client : Holds(c, s))) => []<>~session[s].active
-----------------------------------------------------------------------------
(* What the comments say                                                   *)

\* "always leaves >= HUNTER_RESERVED_REALTIME idle sessions for real-time": the
\* hunters never hold so many rows that fewer than that are left to the others.
HuntersLeaveHeadroom ==
  Cardinality({s \in Session : session[s].exists /\ session[s].active
                 /\ ~\E c \in Client : client[c].hunter /\ Holds(c, s)}) >= Reserved

\* "ensureValidSession logs in lazily at the next acquire": once it returns, the
\* row the request holds has a token.
LazyLoginGivesToken ==
  \A c \in Client : client[c].step = "ready" => session[client[c].target].token
=============================================================================
