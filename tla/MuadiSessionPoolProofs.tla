----------------------- MODULE MuadiSessionPoolProofs -----------------------
(***************************************************************************)
(* The session pool is a lease service for any number of rows, clients and *)
(* any configuration.  The inductive invariant is that "busy" is the exact *)
(* account of who uses a row: a row is busy when one client holds it or    *)
(* its holder vanished, never both.  Lock relies on it to conclude that a  *)
(* row it finds free has no holder, release to conclude that the row it    *)
(* frees has no other.                                                     *)
(***************************************************************************)
EXTENDS MuadiSessionPool, TLAPS

IndInv == TypeOK /\ Exclusive /\ BusyIsAccounted

\* A row after any of the updates of the pool is still a row.
LEMMA RowUpdates ==
  ASSUME NEW r \in Row
  PROVE  /\ [r EXCEPT !.busy = TRUE, !.age = 0] \in Row
         /\ [r EXCEPT !.age = 0] \in Row
         /\ [r EXCEPT !.age = 0, !.failures = OneMore(r.failures)] \in Row
         /\ [r EXCEPT !.exists = TRUE, !.active = TRUE, !.failures = 0,
                      !.token = TRUE, !.age = 0] \in Row
         /\ Released(r, TRUE) \in Row /\ Released(r, FALSE) \in Row
         /\ [r EXCEPT !.active = FALSE, !.age = 0] \in Row
         /\ [r EXCEPT !.active = TRUE, !.failures = 0, !.age = 0] \in Row
         /\ [r EXCEPT !.age = IF r.age < Cooldown THEN @ + 1 ELSE @] \in Row
<1>1. MaxFailures \in Nat /\ Cooldown \in Nat
  BY PoolConstants
<1>2. OneMore(r.failures) \in 0..MaxFailures
  BY <1>1 DEF Row, OneMore
<1>3. (IF r.age < Cooldown THEN r.age + 1 ELSE r.age) \in 0..Cooldown
  BY <1>1 DEF Row
<1>4. 0 \in 0..MaxFailures /\ 0 \in 0..Cooldown
  BY <1>1
<1>5. Released(r, TRUE) \in Row /\ Released(r, FALSE) \in Row
  <2>1. /\ Released(r, TRUE) = [r EXCEPT !.busy = FALSE, !.age = 0, !.failures = 0]
        /\ Released(r, FALSE) =
             [r EXCEPT !.busy = FALSE, !.age = 0, !.failures = OneMore(r.failures)]
    BY DEF Released
  <2> QED BY <1>2, <1>4, <2>1 DEF Row
<1>6. [r EXCEPT !.age = IF r.age < Cooldown THEN @ + 1 ELSE @] \in Row
  BY <1>3 DEF Row
<1>7. /\ [r EXCEPT !.busy = TRUE, !.age = 0] \in Row
      /\ [r EXCEPT !.age = 0] \in Row
      /\ [r EXCEPT !.active = FALSE, !.age = 0] \in Row
  BY <1>4 DEF Row
<1>8. /\ [r EXCEPT !.age = 0, !.failures = OneMore(r.failures)] \in Row
      /\ [r EXCEPT !.active = TRUE, !.failures = 0, !.age = 0] \in Row
  BY <1>2, <1>4 DEF Row
<1>9. [r EXCEPT !.exists = TRUE, !.active = TRUE, !.failures = 0,
                !.token = TRUE, !.age = 0] \in Row
  BY <1>4 DEF Row
<1> QED
  BY <1>5, <1>6, <1>7, <1>8, <1>9

LEMMA StampedTyped ==
  ASSUME TypeOK, NEW s \in Session
  PROVE  Stamped(s) \subseteq Session \X Session
<1>1. ASSUME NEW p \in Stamped(s) PROVE p \in Session \X Session
  <2>1. CASE p \in notLater
    BY <2>1 DEF TypeOK
  <2>2. CASE p \in {<<t, s>> : t \in {u \in Session : <<u, u>> \in notLater} \cup {s}}
    <3>1. PICK t \in {u \in Session : <<u, u>> \in notLater} \cup {s} : p = <<t, s>>
      BY <2>2
    <3>2. t \in Session
      BY <3>1
    <3> QED BY <3>1, <3>2
  <2> QED BY <1>1, <2>1, <2>2, Zenon DEF Stamped
<1> QED BY <1>1

\* A client that has found a row has it as its target.
LEMMA TargetTyped ==
  ASSUME TypeOK, NEW c \in Client, client[c].step \notin {"idle", "counted"}
  PROVE  client[c].target \in Session
BY DEF TypeOK

LEMMA InitOK == Init => IndInv
<1> SUFFICES ASSUME Init PROVE IndInv
  OBVIOUS
<1>1. TypeOK
  BY PoolConstants DEF Init, TypeOK, Row, Step, Idle
<1>2. Exclusive /\ BusyIsAccounted
  BY DEF Init, Exclusive, BusyIsAccounted, Holds, Holding, Idle
<1> QED
  BY <1>1, <1>2 DEF IndInv
-----------------------------------------------------------------------------
(* Typing, action by action                                                *)

LEMMA TypeStep == TypeOK /\ [Next]_vars => TypeOK'
<1> SUFFICES ASSUME TypeOK, [Next]_vars PROVE TypeOK'
  OBVIOUS
<1> USE DEF TypeOK
<1>1. ASSUME NEW c \in Client, CountFree(c) PROVE TypeOK'
  BY <1>1 DEF CountFree, Step
<1>2. ASSUME NEW c \in Client, FindFree(c) PROVE TypeOK'
  <2>1. PICK s \in IF Free = {} THEN {NoSession} ELSE FirstFree :
          client' = [client EXCEPT ![c] =
            IF AfterFind(s) = "idle" THEN Idle
            ELSE [step |-> AfterFind(s), hunter |-> @.hunter, target |-> s]]
    BY <1>2 DEF FindFree
  <2>2. s \in Session \cup {NoSession}
    BY <2>1 DEF FirstFree, Free
  <2>3. CASE s = NoSession
    BY <1>2, <2>1, <2>3 DEF FindFree, AfterFind, Idle, Step
  <2>4. CASE s # NoSession
    BY <1>2, <2>1, <2>2, <2>4 DEF FindFree, AfterFind, Step
  <2> QED BY <2>3, <2>4
<1>3. ASSUME NEW c \in Client, Lock(c) PROVE TypeOK'
  <2>1. client[c].target \in Session
    BY <1>3, TargetTyped DEF Lock
  <2> QED BY <1>3, <2>1, RowUpdates, StampedTyped DEF Lock, Step
<1>4. ASSUME NEW c \in Client, LoseRace(c) PROVE TypeOK'
  BY <1>4 DEF LoseRace, Idle, Step
<1>5. ASSUME NEW c \in Client, TokenFresh(c) PROVE TypeOK'
  BY <1>5 DEF TokenFresh, Step
<1>6. ASSUME NEW c \in Client, Answered(c) PROVE TypeOK'
  <2>1. client[c].target \in Session
    BY <1>6, TargetTyped DEF Answered
  <2> QED BY <1>6, <2>1, RowUpdates, StampedTyped DEF Answered, Step
<1>7. ASSUME NEW c \in Client, RefreshFails(c) PROVE TypeOK'
  <2>1. client[c].target \in Session
    BY <1>7, TargetTyped DEF RefreshFails
  <2>2. session' \in [Session -> Row]
    <3> DEFINE s == client[c].target
               after == [session[s] EXCEPT !.age = 0, !.failures = OneMore(session[s].failures)]
    <3>1. after \in Row
      BY <2>1, RowUpdates
    <3>2. session' = [session EXCEPT ![s] = after]
      BY <1>7 DEF RefreshFails
    <3> HIDE DEF after
    <3> QED BY <2>1, <3>1, <3>2
  <2>3. PICK next \in {"loggingIn", "ready"} :
          client' = [client EXCEPT ![c] = [@ EXCEPT !.step = next]]
    BY <1>7 DEF RefreshFails
  <2> QED BY <1>7, <2>1, <2>2, <2>3 DEF RefreshFails, Step
<1>8. ASSUME NEW c \in Client, Login(c) PROVE TypeOK'
  <2>1. client[c].target \in Session
    BY <1>8, TargetTyped DEF Login
  <2>2. LoginRow[AccountOf[client[c].target]] \in Session
    BY <2>1, PoolConstants
  <2> QED BY <1>8, <2>2, RowUpdates, StampedTyped DEF Login, Step
<1>9. ASSUME NEW c \in Client, ReleaseSuccess(c) PROVE TypeOK'
  <2>1. client[c].target \in Session
    BY <1>9, TargetTyped DEF ReleaseSuccess
  <2> QED BY <1>9, <2>1, RowUpdates DEF ReleaseSuccess, Idle, Step
<1>10. ASSUME NEW c \in Client, ReleaseFailure(c) PROVE TypeOK'
  <2>1. client[c].target \in Session
    BY <1>10, TargetTyped DEF ReleaseFailure, Holding
  <2>2. session' \in [Session -> Row]
    BY <1>10, <2>1, RowUpdates DEF ReleaseFailure
  <2>3. client' = [client EXCEPT ![c] = [@ EXCEPT !.step = "tripping"]]
        \/ client' = [client EXCEPT ![c] = Idle]
    BY <1>10 DEF ReleaseFailure
  <2>4. /\ client[c].step \notin {"idle", "counted"}
        /\ notLater' = notLater /\ lost' = lost /\ losses' = losses
    BY <1>10 DEF ReleaseFailure, Holding
  <2>5. client[c] \in [step : Step, hunter : BOOLEAN, target : Session \cup {NoSession}]
    OBVIOUS
  <2>6. CASE client' = [client EXCEPT ![c] = [@ EXCEPT !.step = "tripping"]]
    <3>1. [client[c] EXCEPT !.step = "tripping"]
            \in [step : Step, hunter : BOOLEAN, target : Session \cup {NoSession}]
      BY <2>5 DEF Step
    <3> QED BY <2>1, <2>2, <2>4, <2>6, <3>1, PoolConstants
  <2>7. CASE client' = [client EXCEPT ![c] = Idle]
    BY <2>2, <2>4, <2>7 DEF Idle, Step
  <2> QED BY <2>3, <2>6, <2>7
<1>11. ASSUME NEW c \in Client, Trip(c) PROVE TypeOK'
  <2>1. client[c].target \in Session
    BY <1>11, TargetTyped DEF Trip
  <2> QED BY <1>11, <2>1, RowUpdates DEF Trip, Idle, Step
<1>12. ASSUME NEW c \in Client, Lose(c) PROVE TypeOK'
  <2>1. client[c].target \in Session \/ ~Holding(c)
    BY TargetTyped DEF Holding
  <2>2. losses' \in 0..MaxLost
    BY <1>12, PoolConstants DEF Lose
  <2> QED BY <1>12, <2>1, <2>2 DEF Lose, Idle, Step
<1>13. CASE ReactivateStale
  BY <1>13, RowUpdates DEF ReactivateStale
<1>14. CASE Tick
  BY <1>14, RowUpdates DEF Tick
<1>15. CASE UNCHANGED vars
  BY <1>15 DEF vars
<1> QED
  BY <1>1, <1>2, <1>3, <1>4, <1>5, <1>6, <1>7, <1>8, <1>9, <1>10, <1>11, <1>12,
     <1>13, <1>14, <1>15 DEF Next, Use, End
-----------------------------------------------------------------------------
(* What a step does to the leases: nothing, or it takes, returns or loses  *)
(* exactly one.                                                            *)

HoldersKept(c) == \A d \in Client \ {c}, t \in Session : Holds(d, t)' <=> Holds(d, t)
BusyKept(s) == \A t \in Session \ {s} : session'[t].busy = session[t].busy

Quiet == /\ \A d \in Client, t \in Session : Holds(d, t)' <=> Holds(d, t)
         /\ \A t \in Session : session'[t].busy = session[t].busy
         /\ lost' = lost
Takes(c, s) == /\ ~session[s].busy /\ session'[s].busy
               /\ \A t \in Session : ~Holds(c, t) /\ (Holds(c, t)' <=> t = s)
               /\ HoldersKept(c) /\ BusyKept(s) /\ lost' = lost
Returns(c, s) == /\ Holds(c, s) /\ ~session'[s].busy
                 /\ \A t \in Session : ~Holds(c, t)'
                 /\ HoldersKept(c) /\ BusyKept(s) /\ lost' = lost
Loses(c, s) == /\ Holds(c, s)
               /\ \A t \in Session : ~Holds(c, t)'
               /\ HoldersKept(c) /\ lost' = lost \cup {s}
               /\ \A t \in Session : session'[t].busy = session[t].busy

Moves(c) == \E s \in Session : Takes(c, s) \/ Returns(c, s) \/ Loses(c, s)

LEMMA Effects ==
  ASSUME TypeOK, [Next]_vars
  PROVE  Quiet \/ \E c \in Client : Moves(c)
<1> USE DEF Quiet, HoldersKept, BusyKept, Holds, Holding
<1>0. session \in [Session -> Row] /\ \A s \in Session : session[s] \in Row
  BY DEF TypeOK
<1>1. ASSUME NEW c \in Client, CountFree(c) PROVE Quiet
  BY <1>1 DEF CountFree, TypeOK
<1>2. ASSUME NEW c \in Client, FindFree(c) PROVE Quiet
  <2>1. PICK s : client' = [client EXCEPT ![c] =
                   IF AfterFind(s) = "idle" THEN Idle
                   ELSE [step |-> AfterFind(s), hunter |-> @.hunter, target |-> s]]
    BY <1>2 DEF FindFree
  <2>2. client'[c].step \in {"idle", "found"}
    BY <2>1 DEF TypeOK, AfterFind, Idle
  <2>3. \A d \in Client : d # c => client'[d] = client[d]
    BY <2>1 DEF TypeOK
  <2> QED BY <1>2, <2>2, <2>3 DEF FindFree
<1>3. ASSUME NEW c \in Client, Lock(c) PROVE Moves(c)
  <2>1. PICK s \in Session : s = client[c].target
    BY <1>3, TargetTyped DEF Lock
  <2>2. client' = [client EXCEPT ![c] = [@ EXCEPT !.step = "acquired"]]
        /\ client[c].step = "found" /\ lost' = lost
    BY <1>3 DEF Lock
  <2>3. /\ ~session[s].busy /\ session'[s].busy
        /\ BusyKept(s)
    BY <1>0, <1>3, <2>1 DEF Lock, Lockable, Row
  <2>4. Takes(c, s)
    BY <2>1, <2>2, <2>3 DEF Takes, TypeOK
  <2> QED BY <2>1, <2>4 DEF Moves
<1>4. ASSUME NEW c \in Client, LoseRace(c) PROVE Quiet
  BY <1>4 DEF LoseRace, Idle, TypeOK
<1>5. ASSUME NEW c \in Client, TokenFresh(c) PROVE Quiet
  BY <1>5 DEF TokenFresh, TypeOK
<1>6. ASSUME NEW c \in Client, Answered(c) PROVE Quiet
  BY <1>0, <1>6 DEF Answered, TypeOK, Row
<1>7. ASSUME NEW c \in Client, RefreshFails(c) PROVE Quiet
  <2>1. PICK next \in {"loggingIn", "ready"} :
          client' = [client EXCEPT ![c] = [@ EXCEPT !.step = next]]
    BY <1>7 DEF RefreshFails
  <2>2. \A t \in Session : session'[t].busy = session[t].busy
    BY <1>0, <1>7 DEF RefreshFails, Row
  <2> QED BY <1>7, <2>1, <2>2 DEF RefreshFails, TypeOK
<1>8. ASSUME NEW c \in Client, Login(c) PROVE Quiet
  <2>1. \A t \in Session : session'[t].busy = session[t].busy
    BY <1>0, <1>8 DEF Login, Row
  <2> QED BY <1>8, <2>1 DEF Login, TypeOK
<1>9. ASSUME NEW c \in Client, ReleaseSuccess(c) PROVE Moves(c)
  <2>1. PICK s \in Session : s = client[c].target
    BY <1>9, TargetTyped DEF ReleaseSuccess
  <2>2. Returns(c, s)
    BY <1>0, <1>9, <2>1 DEF ReleaseSuccess, Released, Returns, Idle, TypeOK, Row
  <2> QED BY <2>1, <2>2 DEF Moves
<1>10. ASSUME NEW c \in Client, ReleaseFailure(c) PROVE Moves(c)
  <2>1. PICK s \in Session : s = client[c].target
    BY <1>10, TargetTyped DEF ReleaseFailure
  <2>2. client'[c].step \in {"idle", "tripping"}
    BY <1>10 DEF ReleaseFailure, Idle, TypeOK
  <2>3. \A d \in Client : d # c => client'[d] = client[d]
    BY <1>10 DEF ReleaseFailure, TypeOK
  <2>4. ~session'[s].busy /\ BusyKept(s)
    BY <1>0, <1>10, <2>1 DEF ReleaseFailure, Released, Row
  <2>5. Returns(c, s)
    BY <1>10, <2>1, <2>2, <2>3, <2>4 DEF ReleaseFailure, Returns
  <2> QED BY <2>1, <2>5 DEF Moves
<1>11. ASSUME NEW c \in Client, Trip(c) PROVE Quiet
  BY <1>0, <1>11 DEF Trip, Idle, TypeOK, Row
<1>12. ASSUME NEW c \in Client, Lose(c) PROVE Quiet \/ Moves(c)
  <2>1. CASE Holding(c)
    <3>1. PICK s \in Session : s = client[c].target
      BY <2>1, TargetTyped
    <3>2. Loses(c, s)
      BY <1>12, <2>1, <3>1 DEF Lose, Loses, Idle, TypeOK
    <3> QED BY <3>1, <3>2 DEF Moves
  <2>2. CASE ~Holding(c)
    BY <1>12, <2>2 DEF Lose, Idle, TypeOK
  <2> QED BY <2>1, <2>2
<1>13. CASE ReactivateStale
  BY <1>0, <1>13 DEF ReactivateStale, Row
<1>14. CASE Tick
  BY <1>0, <1>14 DEF Tick, Row
<1>15. CASE UNCHANGED vars
  BY <1>15 DEF vars
<1> HIDE DEF Quiet, HoldersKept, BusyKept, Holds, Holding
<1> QED
  BY <1>1, <1>2, <1>3, <1>4, <1>5, <1>6, <1>7, <1>8, <1>9, <1>10, <1>11, <1>12,
     <1>13, <1>14, <1>15 DEF Next, Use, End
-----------------------------------------------------------------------------
(* The invariant                                                           *)

LEMMA Preserved == IndInv /\ [Next]_vars => IndInv'
<1> SUFFICES ASSUME IndInv, [Next]_vars PROVE IndInv'
  OBVIOUS
<1>1. TypeOK /\ Exclusive /\ BusyIsAccounted
  BY DEF IndInv
<1>2. TypeOK'
  BY <1>1, TypeStep
<1>3. Exclusive' /\ BusyIsAccounted'
  <2>1. CASE Quiet
    BY <1>1, <2>1 DEF Quiet, Exclusive, BusyIsAccounted
  <2>2. ASSUME NEW c \in Client, NEW s \in Session, Takes(c, s)
        PROVE  Exclusive' /\ BusyIsAccounted'
    <3>1. s \notin lost /\ \A d \in Client : ~Holds(d, s)
      BY <1>1, <2>2 DEF Takes, BusyIsAccounted
    <3>2. Exclusive'
      BY <1>1, <2>2, <3>1 DEF Takes, HoldersKept, Exclusive
    <3>3. BusyIsAccounted'
      BY <1>1, <2>2, <3>1 DEF Takes, HoldersKept, BusyKept, BusyIsAccounted
    <3> QED BY <3>2, <3>3
  <2>3. ASSUME NEW c \in Client, NEW s \in Session, Returns(c, s)
        PROVE  Exclusive' /\ BusyIsAccounted'
    <3>1. s \notin lost /\ \A d \in Client, t \in Session :
             (Holds(d, s) => d = c) /\ (Holds(c, t) => t = s)
      BY <1>1, <2>3 DEF Returns, BusyIsAccounted, Exclusive, Holds
    <3>2. Exclusive'
      BY <1>1, <2>3 DEF Returns, HoldersKept, Exclusive
    <3>3. BusyIsAccounted'
      BY <1>1, <2>3, <3>1 DEF Returns, HoldersKept, BusyKept, BusyIsAccounted
    <3> QED BY <3>2, <3>3
  <2>4. ASSUME NEW c \in Client, NEW s \in Session, Loses(c, s)
        PROVE  Exclusive' /\ BusyIsAccounted'
    <3>1. \A d \in Client, t \in Session : (Holds(d, s) => d = c) /\ (Holds(c, t) => t = s)
      BY <1>1, <2>4 DEF Loses, Exclusive, Holds
    <3>2. Exclusive'
      BY <1>1, <2>4 DEF Loses, HoldersKept, Exclusive
    <3>3. BusyIsAccounted'
      BY <1>1, <2>4, <3>1 DEF Loses, HoldersKept, BusyIsAccounted
    <3> QED BY <3>2, <3>3
  <2> QED
    BY <1>1, <2>1, <2>2, <2>3, <2>4, Effects DEF Moves
<1> QED
  BY <1>2, <1>3 DEF IndInv

LEMMA Inductive == Spec => []IndInv
<1> QED
  BY InitOK, Preserved, PTL DEF Spec

\* Every reachable state of the pool is well typed, for any configuration.
THEOREM PoolTypeCorrect == Spec => []TypeOK
<1>1. IndInv => TypeOK
  BY DEF IndInv
<1> QED
  BY <1>1, Inductive, PTL

\* No interleaving of the unsynchronised statements of acquire and release
\* lends an agent session to two requests.
THEOREM SessionsAreExclusive == Spec => []Exclusive
<1>1. IndInv => Exclusive
  BY DEF IndInv
<1> QED
  BY <1>1, Inductive, PTL

\* A row is busy exactly while it is used or was abandoned, so a row leaks only
\* with its holder and a leaked row is never lent again.
THEOREM BusyMeansUsed == Spec => []BusyIsAccounted
<1>1. IndInv => BusyIsAccounted
  BY DEF IndInv
<1> QED
  BY <1>1, Inductive, PTL
-----------------------------------------------------------------------------
(* The refinement                                                          *)

\* Under Exclusive the CHOOSE of the mapping is the one holder.
OwnerAccounts ==
  /\ \A c \in Client, s \in Session : Holds(c, s) => Owner[s] = c
  /\ \A s \in Session : (\A c \in Client : ~Holds(c, s)) =>
       Owner[s] = IF s \in lost THEN Gone ELSE Nobody

LEMMA OwnerIs == Exclusive => OwnerAccounts
<1> SUFFICES ASSUME Exclusive PROVE OwnerAccounts
  OBVIOUS
<1>1. ASSUME NEW c \in Client, NEW s \in Session, Holds(c, s) PROVE Owner[s] = c
  <2>1. (CHOOSE d \in Client : Holds(d, s)) \in Client
        /\ Holds(CHOOSE d \in Client : Holds(d, s), s)
    BY <1>1
  <2>2. Owner[s] = CHOOSE d \in Client : Holds(d, s)
    BY <1>1 DEF Owner
  <2> QED BY <1>1, <2>1, <2>2 DEF Exclusive
<1>2. ASSUME NEW s \in Session, \A c \in Client : ~Holds(c, s)
      PROVE  Owner[s] = IF s \in lost THEN Gone ELSE Nobody
  BY <1>2 DEF Owner
<1> QED BY <1>1, <1>2 DEF OwnerAccounts

LEMMA OwnerIsNext == Exclusive' => OwnerAccounts'
<1> QED BY OwnerIs, PTL

LEMMA LeaseInit == Init => Lease!Init
<1> SUFFICES ASSUME Init PROVE Owner = [s \in Session |-> Nobody]
  BY DEF Lease!Init
<1>1. \A s \in Session : s \notin lost /\ \A c \in Client : ~Holds(c, s)
  BY DEF Init, Holds, Holding, Idle
<1> QED
  BY <1>1 DEF Owner

LEMMA LeaseStep == IndInv /\ IndInv' /\ [Next]_vars => [Lease!Next]_Owner
<1> SUFFICES ASSUME IndInv, IndInv', [Next]_vars PROVE [Lease!Next]_Owner
  OBVIOUS
<1>1. /\ TypeOK /\ Exclusive /\ BusyIsAccounted /\ Exclusive'
      /\ Owner = [s \in Session |-> Owner[s]] /\ Owner' = [s \in Session |-> Owner'[s]]
  BY DEF IndInv, Owner
<1>2. /\ \A c \in Client, s \in Session : Holds(c, s) => Owner[s] = c
      /\ \A s \in Session : (\A c \in Client : ~Holds(c, s)) =>
           Owner[s] = IF s \in lost THEN Gone ELSE Nobody
  BY <1>1, OwnerIs DEF OwnerAccounts
<1>3. /\ \A c \in Client, s \in Session : Holds(c, s)' => Owner'[s] = c
      /\ \A s \in Session : (\A c \in Client : ~Holds(c, s)') =>
           Owner'[s] = IF s \in lost' THEN Gone ELSE Nobody
  BY <1>1, OwnerIsNext DEF OwnerAccounts
<1>4. ASSUME NEW s \in Session,
             \A c \in Client : Holds(c, s)' <=> Holds(c, s),
             s \in lost' <=> s \in lost
      PROVE  Owner'[s] = Owner[s]
  <2>1. CASE \E c \in Client : Holds(c, s)
    BY <1>2, <1>3, <1>4, <2>1
  <2>2. CASE \A c \in Client : ~Holds(c, s)
    BY <1>2, <1>3, <1>4, <2>2
  <2> QED BY <2>1, <2>2
<1>5. CASE Quiet
  <2>1. \A s \in Session : Owner'[s] = Owner[s]
    BY <1>4, <1>5 DEF Quiet
  <2> QED BY <1>1, <2>1
<1>6. ASSUME NEW c \in Client, NEW s \in Session, Takes(c, s) PROVE Lease!Acquire(c, s)
  <2>1. s \notin lost /\ \A d \in Client : ~Holds(d, s)
    BY <1>1, <1>6 DEF Takes, BusyIsAccounted
  <2>2. Owner[s] = Nobody /\ Owner'[s] = c
    BY <1>2, <1>3, <1>6, <2>1 DEF Takes
  <2>3. \A t \in Session \ {s} : Owner'[t] = Owner[t]
    BY <1>4, <1>6 DEF Takes, HoldersKept
  <2> QED BY <1>1, <2>2, <2>3 DEF Lease!Acquire
<1>7. ASSUME NEW c \in Client, NEW s \in Session, Returns(c, s) PROVE Lease!Release(c, s)
  <2>1. s \notin lost /\ \A d \in Client, t \in Session :
           (Holds(d, s) => d = c) /\ (Holds(c, t) => t = s)
    BY <1>1, <1>7 DEF Returns, BusyIsAccounted, Exclusive, Holds
  <2>2. Owner[s] = c /\ Owner'[s] = Nobody
    BY <1>2, <1>3, <1>7, <2>1 DEF Returns, HoldersKept
  <2>3. \A t \in Session \ {s} : Owner'[t] = Owner[t]
    BY <1>4, <1>7, <2>1 DEF Returns, HoldersKept
  <2> QED BY <1>1, <2>2, <2>3 DEF Lease!Release
<1>8. ASSUME NEW c \in Client, NEW s \in Session, Loses(c, s) PROVE Lease!Vanish(c, s)
  <2>1. \A d \in Client, t \in Session : (Holds(d, s) => d = c) /\ (Holds(c, t) => t = s)
    BY <1>1, <1>8 DEF Loses, Exclusive, Holds
  <2>2. Owner[s] = c /\ Owner'[s] = Gone
    BY <1>2, <1>3, <1>8, <2>1 DEF Loses, HoldersKept
  <2>3. \A t \in Session \ {s} : Owner'[t] = Owner[t]
    BY <1>4, <1>8, <2>1 DEF Loses, HoldersKept
  <2> QED BY <1>1, <2>2, <2>3 DEF Lease!Vanish
<1>9. ASSUME NEW c \in Client, Moves(c) PROVE Lease!Next
  <2>1. PICK s \in Session : Takes(c, s) \/ Returns(c, s) \/ Loses(c, s)
    BY <1>9 DEF Moves
  <2> QED BY <1>6, <1>7, <1>8, <2>1, Zenon DEF Lease!Next
<1> QED
  BY <1>1, <1>5, <1>9, Effects

\* The pool implements the lease service: a row passes from nobody to one
\* holder, and from its holder back to nobody or out of the pool, and no step
\* of the pool moves two leases.
THEOREM LeaseRefined == Spec => LeaseSpec
<1> QED
  BY LeaseInit, LeaseStep, Inductive, PTL DEF Spec, LeaseSpec, Lease!Spec
=============================================================================
