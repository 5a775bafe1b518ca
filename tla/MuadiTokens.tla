---------------------------- MODULE MuadiTokens ----------------------------
(***************************************************************************)
(* The tokens of one agent session (muadi-client.service.ts): the row in   *)
(* the database, the copy every process keeps in sessionCache until it     *)
(* renews it itself, and the pair the gateway accepts.  A search asks all  *)
(* airlines at once, so calls overlap within a process too, and each of    *)
(* them may find the tokens stale, refresh them, or log in again.          *)
(*                                                                         *)
(* A token pair is one number; the gateway accepts the pair it issued last *)
(* (an assumption about the gateway), access tokens expire.  The session's *)
(* label is the one login stores under.                                    *)
(***************************************************************************)
EXTENDS Integers, FiniteSets

CONSTANTS
    ApiProcess, Caller,
    Token,        \* Token pairs; at least one more than the model can refer to.
    MaxLost,      \* Bound on failing writes and restarts.
    NoToken

ASSUME TokensAssumption == Token # {} /\ NoToken \notin Token /\ MaxLost \in Nat

VARIABLES
    stored,    \* The row's pair.
    cached,    \* sessionCache of each process; NoToken when it has no entry.
    valid,     \* The pair the gateway accepts.
    expired,   \* Pairs whose access token is within 60 s of its end.
    calls,     \* Each caller: [step, had, got, retried].
    overtaken, \* Processes whose copy another caller's renewal, or a lost one, has outdated.
    lost,
    of         \* The process of each caller.

tokenVars == <<stored, cached, valid, expired, calls, overtaken, lost, of>>

CallIdle == [step |-> "idle", had |-> NoToken, got |-> NoToken, retried |-> FALSE]

TokensInit ==
    /\ valid = CHOOSE t \in Token : TRUE
    /\ expired = {}
    /\ stored = valid
    /\ cached = [p \in ApiProcess |-> NoToken]
    /\ calls = [c \in Caller |-> CallIdle]
    /\ overtaken = {} /\ lost = 0 /\ of \in [Caller -> ApiProcess]

-----------------------------------------------------------------------------
InUse == {stored, valid} \cup {cached[p] : p \in ApiProcess}
         \cup {calls[c].had : c \in Caller} \cup {calls[c].got : c \in Caller}
Unused == Token \ InUse

At(c, step) == calls[c].step = step
CallGoes(c, step) == calls' = [calls EXCEPT ![c] = [@ EXCEPT !.step = step]]

\* loadSessionState: the copy if there is one, whatever the row says by now.
Loaded(p) == IF cached[p] # NoToken THEN cached[p] ELSE stored
Load(p) == cached' = [cached EXCEPT ![p] = Loaded(p)]

Fresh(t) == t \notin expired

\* ensureValidSession, on the way to a request.
Ensure(c) ==
    LET t == Loaded(of[c]) IN
    /\ At(c, "idle")
    /\ Load(of[c])
    /\ calls' = [calls EXCEPT ![c] = IF Fresh(t) THEN [CallIdle EXCEPT !.step = "send"] ELSE [CallIdle EXCEPT !.step = "refresh", !.had = t]]
    /\ UNCHANGED <<stored, valid, expired, overtaken, lost, of>>

\* The gateway issues a pair: every other process, and this one until it has stored the
\* pair, now holds an old one.
Issue(c, step) ==
    /\ Unused # {}
    /\ valid' = CHOOSE t \in Unused : TRUE
    /\ expired' = (expired \cap InUse) \ {valid'}
    /\ calls' = [calls EXCEPT ![c] = [@ EXCEPT !.got = valid', !.step = step]]
    /\ overtaken' = overtaken \cup {p \in ApiProcess : p # of[c] \/ \E d \in Caller \ {c} : of[d] = p /\ ~At(d, "idle")}

\* refreshTokens: the pair this call loaded; the gateway knows only the valid one.
Refresh(c) ==
    /\ At(c, "refresh")
    /\ calls[c].had = valid
    /\ Issue(c, "storeRefreshed")
    /\ UNCHANGED <<stored, cached, lost, of>>

\* All four variants are refused, or fail on the way: before a request the client logs
\* in, after a refused one the caller gets the refusal.
RefreshRefused(c) ==
    /\ At(c, "refresh")
    /\ IF calls[c].retried THEN calls' = [calls EXCEPT ![c] = CallIdle] ELSE CallGoes(c, "login")
    /\ UNCHANGED <<stored, cached, valid, expired, overtaken, lost, of>>

Login(c) ==
    /\ At(c, "login")
    /\ Issue(c, "storeLogin")
    /\ UNCHANGED <<stored, cached, lost, of>>

FaultRowOnly(p, t) == cached
\* The row and this process's copy, together; other processes keep theirs.
Renewed(p, t) == [cached EXCEPT ![p] = t]

StoreTokens(c) ==
    /\ At(c, "storeRefreshed") \/ At(c, "storeLogin")
    /\ stored' = calls[c].got
    /\ cached' = Renewed(of[c], calls[c].got)
    /\ calls' = [calls EXCEPT ![c] = [CallIdle EXCEPT !.step = "send", !.retried = calls[c].retried]]
    /\ overtaken' = IF calls[c].got = valid THEN overtaken \ {of[c]} ELSE ApiProcess
    /\ UNCHANGED <<valid, expired, lost, of>>

\* The update of the row throws, and the pair is lost: the refresh counts as refused, a
\* login fails the call.
StoreFails(c) ==
    /\ lost < MaxLost /\ lost' = lost + 1
    /\ At(c, "storeRefreshed") \/ At(c, "storeLogin")
    /\ IF At(c, "storeRefreshed") THEN calls' = [calls EXCEPT ![c] = [@ EXCEPT !.step = "refresh", !.got = NoToken]]
                                  ELSE calls' = [calls EXCEPT ![c] = CallIdle]
    /\ overtaken' = overtaken \cup {of[c]}
    /\ UNCHANGED <<stored, cached, valid, expired, of>>

Accepted(c) == Loaded(of[c]) = valid /\ Fresh(valid)

\* 401, code 12 or 18, or a message about the token: how the gateway says so.
RefusedForToken(c) == ~Accepted(c)

\* The headers take the pair of this moment.  Accepted: the call is over.
SendAccepted(c) ==
    /\ At(c, "send")
    /\ Load(of[c])
    /\ Accepted(c)
    /\ calls' = [calls EXCEPT ![c] = CallIdle]
    /\ UNCHANGED <<stored, valid, expired, overtaken, lost, of>>

\* Refused for its token: one refresh and one repetition.
SendRefused(c) ==
    /\ At(c, "send")
    /\ Load(of[c])
    /\ RefusedForToken(c)
    /\ calls' = [calls EXCEPT ![c] = IF @.retried THEN CallIdle
                                     ELSE [@ EXCEPT !.step = "refresh", !.retried = TRUE,
                                                    !.had = Loaded(of[c]), !.got = NoToken]]
    /\ UNCHANGED <<stored, valid, expired, overtaken, lost, of>>

\* Another failure: of the request, after as many repetitions as there are attempts; of
\* the login; of the count of a refused refresh.
CallFails(c) ==
    /\ calls[c].step \in {"send", "refresh", "login"}
    /\ calls' = [calls EXCEPT ![c] = CallIdle]
    /\ UNCHANGED <<stored, cached, valid, expired, overtaken, lost, of>>

\* A process restarts: its copies are gone, and whatever its calls had not stored.
Restart(p) ==
    /\ lost < MaxLost /\ lost' = lost + 1
    /\ cached' = [cached EXCEPT ![p] = NoToken]
    /\ calls' = [c \in Caller |-> IF of[c] = p THEN CallIdle ELSE calls[c]]
    /\ overtaken' = IF stored = valid THEN overtaken \ {p} ELSE overtaken \cup {p}
    /\ UNCHANGED <<stored, valid, expired, of>>

TokenExpires ==
    /\ \E t \in InUse \ (expired \cup {NoToken}) : expired' = expired \cup {t}
    /\ UNCHANGED <<stored, cached, valid, calls, overtaken, lost, of>>

TokensNext ==
    \/ \E c \in Caller :
          \/ Ensure(c) \/ Refresh(c) \/ RefreshRefused(c) \/ Login(c) \/ StoreTokens(c) \/ StoreFails(c)
          \/ SendAccepted(c) \/ SendRefused(c) \/ CallFails(c)
    \/ \E p \in ApiProcess : Restart(p)
    \/ TokenExpires

TokensSpec == TokensInit /\ [][TokensNext]_tokenVars

-----------------------------------------------------------------------------
(* Properties. *)

\* A process that is between calls holds a pair the gateway no longer accepts only if
\* another caller's renewal crossed its own, or a renewed pair was lost: what a process
\* renews it also uses (updateStoredTokens, login).
StaleMeansOvertaken ==
    \A p \in ApiProcess :
        /\ cached[p] # NoToken /\ cached[p] # valid
        /\ \A c \in Caller : of[c] = p => At(c, "idle")
        => p \in overtaken
=============================================================================
