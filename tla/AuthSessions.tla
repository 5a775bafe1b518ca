---------------------------- MODULE AuthSessions ----------------------------
(***************************************************************************)
(* The sign-in of one account: its refresh tokens in the database, the     *)
(* requests that create, rotate and revoke them, and the browser tabs that *)
(* keep them.  Tabs of one browser share its localStorage (a store).       *)
(***************************************************************************)
EXTENDS Naturals, FiniteSets

CONSTANTS Tokens,     \* rows of RefreshToken
          Tabs,       \* tabs of browsers
          Stores,     \* localStorages
          StoreOf,    \* the store of a tab
          Calls,      \* API calls a tab may have in flight
          Handlers,   \* requests to /auth/refresh and /auth/google
          MaxTrouble, \* bound on blocks, expiries, lost connections, closed tabs
          NoToken, NoTab

ASSUME AuthConstants ==
    /\ StoreOf \in [Tabs -> Stores]
    /\ NoToken \notin Tokens
    /\ NoTab \notin Tabs
    /\ MaxTrouble \in Nat

VARIABLES
    blocked,   \* User.blocked
    token,     \* RefreshToken rows, with the chain each belongs to
    handler,   \* what an auth request has read
    store,     \* localStorage 'openfly-refresh'
    tab,       \* the status of a tab's auth store
    call,      \* API calls: the bootstrap's, and others once they got a 401
    trouble,   \* how much of MaxTrouble has happened
    signedIn,  \* history: the user signed in here and did not sign out
    mishap     \* history: something went wrong around this store

vars == <<blocked, token, handler, store, tab, call, trouble, signedIn, mishap>>
client == <<store, tab, call, signedIn>>

TokenRow == [state : {"unused", "live", "revoked", "expired"},
             chain : Tokens \cup {NoToken}]
HandlerState == [pc : {"idle", "verify", "upsert", "revoke", "create", "answer"},
                 kind : {"refresh", "signin"},
                 tab : Tabs \cup {NoTab},
                 tok : Tokens \cup {NoToken},   \* the token it was given
                 new : Tokens \cup {NoToken}]   \* the token it made
TabState == {"closed", "loading", "anon", "authed"}
CallState == [pc : {"idle", "sent", "waiting", "resent"},
              tab : Tabs \cup {NoTab},
              boot : BOOLEAN]    \* it is the bootstrap's

IdleHandler == [pc |-> "idle", kind |-> "refresh", tab |-> NoTab,
                tok |-> NoToken, new |-> NoToken]
IdleCall == [pc |-> "idle", tab |-> NoTab, boot |-> FALSE]

AuthTypeOK ==
    /\ blocked \in BOOLEAN
    /\ token \in [Tokens -> TokenRow]
    /\ handler \in [Handlers -> HandlerState]
    /\ store \in [Stores -> Tokens \cup {NoToken}]
    /\ tab \in [Tabs -> TabState]
    /\ call \in [Calls -> CallState]
    /\ trouble \in Nat
    /\ signedIn \in [Stores -> BOOLEAN]
    /\ mishap \in [Stores -> BOOLEAN]

-----------------------------------------------------------------------------
Running(h) == handler[h].pc # "idle"
Of(s) == {h \in Handlers : Running(h) /\ handler[h].tab # NoTab
                                      /\ StoreOf[handler[h].tab] = s}
Live(t) == token[t].state = "live"

FaultNoSingleFlight(t) == FALSE
\* refreshInFlight of a tab is the one refresh it awaits.
Refreshing(t) == \E h \in Handlers : /\ Running(h)
                                     /\ handler[h].kind = "refresh"
                                     /\ handler[h].tab = t

Trouble == trouble < MaxTrouble /\ trouble' = trouble + 1
Wrong(s) == mishap' = [mishap EXCEPT ![s] = TRUE]
WrongIf(s, p) == mishap' = [mishap EXCEPT ![s] = @ \/ p]

\* A request of tab t starts.  With a sign-in or another tab's request on the same store
\* that is a mishap; two refreshes of one tab the code promises never to start.
Clash(t, kind) == \E g \in Of(StoreOf[t]) :
                      handler[g].tab # t \/ "signin" \in {kind, handler[g].kind}
Start(h, t, kind, tok) ==
    /\ ~Running(h)
    /\ handler' = [handler EXCEPT ![h] =
          [pc |-> "verify", kind |-> kind, tab |-> t, tok |-> tok, new |-> NoToken]]
    /\ WrongIf(StoreOf[t], Clash(t, kind))

-----------------------------------------------------------------------------
(* The server.                                                             *)

Advance(h, pc) == handler' = [handler EXCEPT ![h] = [@ EXCEPT !.pc = pc]]
Refuse(h) == handler' = [handler EXCEPT ![h] = [@ EXCEPT !.pc = "answer", !.new = NoToken]]

\* verify(): the row must be live when it is read.
Verify(h) ==
    /\ handler[h].pc = "verify" /\ handler[h].kind = "refresh"
    /\ IF Live(handler[h].tok) THEN Advance(h, "revoke") ELSE Refuse(h)
    /\ UNCHANGED <<blocked, token, client, mishap, trouble>>

FaultRotatesAgain(h) == TRUE
\* updateMany where revokedAt is null: only one of several rotations gets it.
StillLive(h) == token[handler[h].tok].state \in {"live", "expired"}
Revoke(h) ==
    /\ handler[h].pc = "revoke"
    /\ IF StillLive(h)
       THEN /\ token' = [token EXCEPT ![handler[h].tok] = [@ EXCEPT !.state = "revoked"]]
            /\ Advance(h, "create")
       ELSE Refuse(h) /\ UNCHANGED token
    /\ UNCHANGED <<blocked, client, mishap, trouble>>

\* Google vouches for the ID token, or does not, or cannot be asked.
VerifyIdToken(h) ==
    /\ handler[h].pc = "verify" /\ handler[h].kind = "signin"
    /\ Advance(h, "upsert") \/ Refuse(h)
    /\ UNCHANGED <<blocked, token, client, mishap, trouble>>

\* The upsert reads whether the account is blocked, unless it fails.
UpsertUser(h) ==
    /\ handler[h].pc = "upsert"
    /\ \/ ~blocked /\ Advance(h, "create")
       \/ Refuse(h)
    /\ UNCHANGED <<blocked, token, client, mishap, trouble>>

\* A rotation continues the chain of its token, a sign-in starts one.
ChainOf(h, new) == IF handler[h].kind = "refresh" THEN token[handler[h].tok].chain ELSE new
Create(h, new) ==
    /\ handler[h].pc = "create"
    /\ token[new].state = "unused"
    /\ token' = [token EXCEPT ![new] = [state |-> "live", chain |-> ChainOf(h, new)]]
    /\ handler' = [handler EXCEPT ![h] = [@ EXCEPT !.pc = "answer", !.new = new]]
    /\ UNCHANGED <<blocked, client, mishap, trouble>>

\* The insert fails after the old token was revoked.
CreateFails(h) ==
    /\ handler[h].pc = "create"
    /\ Refuse(h)
    /\ IF handler[h].tab = NoTab THEN UNCHANGED mishap
       ELSE WrongIf(StoreOf[handler[h].tab], handler[h].kind = "refresh")
    /\ UNCHANGED <<blocked, token, client, trouble>>

\* One transaction: the user is blocked, all live tokens are revoked.
Revoked(row) == IF row.state \in {"live", "expired"} THEN [row EXCEPT !.state = "revoked"] ELSE row
Block ==
    /\ blocked' = TRUE
    /\ token' = [t \in Tokens |-> Revoked(token[t])]
    /\ mishap' = [s \in Stores |-> TRUE]
    /\ Trouble
    /\ UNCHANGED <<handler, client>>

Unblock ==
    /\ blocked' = FALSE
    /\ UNCHANGED <<token, handler, client, mishap, trouble>>

\* Thirty days pass without a refresh.
Expire(t) ==
    /\ Live(t)
    /\ token' = [token EXCEPT ![t] = [@ EXCEPT !.state = "expired"]]
    /\ mishap' = [s \in Stores |-> mishap[s] \/ store[s] = t
                     \/ \E h \in Of(s) : handler[h].new = t]
    /\ Trouble
    /\ UNCHANGED <<blocked, handler, client>>

-----------------------------------------------------------------------------
(* The browser.                                                            *)

Asking(t, pc, boot) == [pc |-> pc, tab |-> t, boot |-> boot]
Become(t, status) == tab' = [tab EXCEPT ![t] = status]
Keep(s, tok) == store' = [store EXCEPT ![s] = tok]

\* A bootstrap that fails, for whatever reason, clears the session.
Failed(t, boots) ==
    IF boots THEN Become(t, "anon") /\ Keep(StoreOf[t], NoToken)
    ELSE UNCHANGED <<tab, store>>

\* App load: bootstrap() asks for /me if a refresh token is stored.
OpenTab(t, c) ==
    /\ tab[t] = "closed" /\ call[c].pc = "idle"
    /\ IF store[StoreOf[t]] = NoToken
       THEN Become(t, "anon") /\ UNCHANGED call
       ELSE /\ Become(t, "loading")
            /\ call' = [call EXCEPT ![c] = Asking(t, "sent", TRUE)]
    /\ UNCHANGED <<blocked, token, handler, store, signedIn, mishap, trouble>>

\* A closed or reloaded tab forgets its calls, not what the server does for it.
Orphaned(t) == [h \in Handlers |->
    IF handler[h].tab = t THEN [handler[h] EXCEPT !.tab = NoTab] ELSE handler[h]]
CloseTab(t) ==
    /\ tab[t] # "closed"
    /\ Become(t, "closed")
    /\ call' = [c \in Calls |-> IF call[c].tab = t THEN IdleCall ELSE call[c]]
    /\ handler' = Orphaned(t)
    /\ WrongIf(StoreOf[t], Refreshing(t))
    /\ Trouble
    /\ UNCHANGED <<blocked, token, store, signedIn>>

\* The bootstrap's second try: JwtStrategy looks the user up on every request.
Serve(c) ==
    /\ call[c].pc = "resent" /\ ~blocked
    /\ Become(call[c].tab, "authed")
    /\ call' = [call EXCEPT ![c] = IdleCall]
    /\ UNCHANGED <<blocked, token, handler, store, signedIn, mishap, trouble>>

\* 403 for a blocked user, an error of the server, or no connection.
CallFails(c) ==
    /\ call[c].pc \in {"sent", "resent"}
    /\ Failed(call[c].tab, TRUE)
    /\ call' = [call EXCEPT ![c] = IdleCall]
    /\ Wrong(StoreOf[call[c].tab])
    /\ UNCHANGED <<blocked, token, handler, signedIn, trouble>>

\* 401, to the bootstrap, which has no access token yet, or to any call of an open tab whose
\* token is missing or old; a call that gets another answer changes nothing here.
Got401(c, t) ==
    \/ call[c].pc = "sent" /\ call[c].tab = t
    \/ call[c].pc = "idle" /\ tab[t] # "closed"

\* tryRefresh() joins the refresh in flight, or starts one, or finds no refresh token.
Unauthorized(c, t, h) ==
    LET boot == call[c].pc = "sent"
        waits == call' = [call EXCEPT ![c] = Asking(t, "waiting", boot)] IN
    /\ Got401(c, t)
    /\ \/ /\ Refreshing(t) /\ waits
          /\ UNCHANGED <<handler, store, tab, mishap>>
       \/ /\ ~Refreshing(t) /\ store[StoreOf[t]] # NoToken /\ waits
          /\ Start(h, t, "refresh", store[StoreOf[t]])
          /\ UNCHANGED <<store, tab>>
       \/ /\ ~Refreshing(t) /\ store[StoreOf[t]] = NoToken
          /\ Failed(t, boot)
          /\ call' = [call EXCEPT ![c] = IdleCall]
          /\ UNCHANGED <<handler, mishap>>
    /\ UNCHANGED <<blocked, token, signedIn, trouble>>

\* Google's button can be pressed again while a sign-in is under way.
SignIn(t, h) ==
    /\ tab[t] # "closed"
    /\ Start(h, t, "signin", NoToken)
    /\ UNCHANGED <<blocked, token, client, trouble>>

SignOut(t) ==
    /\ tab[t] = "authed"
    /\ Become(t, "anon") /\ Keep(StoreOf[t], NoToken)
    /\ signedIn' = [signedIn EXCEPT ![StoreOf[t]] = FALSE]
    /\ WrongIf(StoreOf[t], Of(StoreOf[t]) # {})
    /\ UNCHANGED <<blocked, token, handler, call, trouble>>

\* The calls that wait for the refresh of tab t, when it is over.
Waiting(t) == {c \in Calls : call[c].pc = "waiting" /\ call[c].tab = t}
Boots(t) == \E c \in Waiting(t) : call[c].boot
Resend(t) == call' = [c \in Calls |->
    IF c \notin Waiting(t) THEN call[c]
    ELSE IF call[c].boot THEN Asking(t, "resent", TRUE) ELSE IdleCall]
FaultKeepsWaiting(t) == UNCHANGED call
GiveUp(t) == call' = [c \in Calls |-> IF c \in Waiting(t) THEN IdleCall ELSE call[c]]
Done(h) == handler' = [handler EXCEPT ![h] = IdleHandler]

\* signInGoogle() and doRefresh(), when the answer carries tokens.
FinishSignIn(t) ==
    /\ Become(t, "authed")
    /\ signedIn' = [signedIn EXCEPT ![StoreOf[t]] = TRUE]
    /\ UNCHANGED call
FinishRefresh(t) == Resend(t) /\ UNCHANGED <<tab, signedIn>>

AnswerOk(h) ==
    LET t == handler[h].tab IN
    /\ handler[h].pc = "answer" /\ t # NoTab /\ handler[h].new # NoToken
    /\ Keep(StoreOf[t], handler[h].new)
    /\ IF handler[h].kind = "signin" THEN FinishSignIn(t) ELSE FinishRefresh(t)
    /\ Done(h)
    /\ UNCHANGED <<blocked, token, mishap, trouble>>

\* A refused refresh clears the session, whatever is stored by now.
AnswerRefused(h) ==
    LET t == handler[h].tab IN
    /\ handler[h].pc = "answer" /\ t # NoTab /\ handler[h].new = NoToken
    /\ IF handler[h].kind = "signin"
       THEN UNCHANGED <<store, tab, call>>
       ELSE /\ Keep(StoreOf[t], NoToken)
            /\ IF Boots(t) THEN Become(t, "anon") ELSE UNCHANGED tab
            /\ GiveUp(t)
    /\ Done(h)
    /\ UNCHANGED <<blocked, token, signedIn, mishap, trouble>>

\* The connection breaks: fetch() rejects, the server may go on.
LoseConnection(h) ==
    LET t == handler[h].tab IN
    /\ Running(h) /\ t # NoTab
    /\ handler' = [handler EXCEPT ![h] = [@ EXCEPT !.tab = NoTab]]
    /\ IF handler[h].kind = "signin"
       THEN UNCHANGED <<store, tab, call, mishap>>
       ELSE /\ Failed(t, Boots(t))
            /\ GiveUp(t)
            /\ Wrong(StoreOf[t])
    /\ Trouble
    /\ UNCHANGED <<blocked, token, signedIn>>

\* Nobody waits for the answer, or the server died with the request.
Forget(h) ==
    /\ Running(h) /\ handler[h].tab = NoTab
    /\ Done(h)
    /\ UNCHANGED <<blocked, token, client, mishap, trouble>>

-----------------------------------------------------------------------------
AuthInit ==
    /\ blocked = FALSE
    /\ token = [t \in Tokens |-> [state |-> "unused", chain |-> NoToken]]
    /\ handler = [h \in Handlers |-> IdleHandler]
    /\ store = [s \in Stores |-> NoToken]
    /\ tab = [t \in Tabs |-> "closed"]
    /\ call = [c \in Calls |-> IdleCall]
    /\ trouble = 0
    /\ signedIn = [s \in Stores |-> FALSE]
    /\ mishap = [s \in Stores |-> FALSE]

Work(h) ==
    \/ Verify(h) \/ Revoke(h) \/ VerifyIdToken(h) \/ UpsertUser(h)
    \/ (\E new \in Tokens : Create(h, new)) \/ CreateFails(h)
    \/ AnswerOk(h) \/ AnswerRefused(h) \/ Forget(h)
CallStep(c) == Serve(c) \/ CallFails(c)
Refused401(c) == \E t \in Tabs, h \in Handlers : Unauthorized(c, t, h)

AuthNext ==
    \/ \E h \in Handlers : Work(h) \/ LoseConnection(h)
    \/ \E c \in Calls : CallStep(c) \/ Refused401(c)
    \/ \E t \in Tabs : \/ CloseTab(t) \/ SignOut(t)
                       \/ \E c \in Calls : OpenTab(t, c)
                       \/ \E h \in Handlers : SignIn(t, h)
    \/ Block \/ Unblock
    \/ \E t \in Tokens : Expire(t)

AuthSpec == AuthInit /\ [][AuthNext]_vars

\* Requests are answered or fail; nobody has to sign in or to open a tab.
AuthFairness ==
    /\ \A h \in Handlers : WF_vars(Work(h))
    /\ \A c \in Calls : WF_vars(CallStep(c))

AuthFairSpec == AuthSpec /\ AuthFairness

-----------------------------------------------------------------------------
(* Properties.                                                             *)

Creating(f) == {h \in Handlers : /\ handler[h].pc = "create"
                                 /\ handler[h].kind = "refresh"
                                 /\ token[handler[h].tok].chain = f}
\* A rotation that has passed verify() does not look at the expiry again.
Usable(t) == \/ Live(t)
             \/ /\ token[t].state = "expired"
                /\ \E h \in Handlers : handler[h].pc = "revoke" /\ handler[h].tok = t
LiveIn(f) == {t \in Tokens : Usable(t) /\ token[t].chain = f}

\* A refresh token is single-use: of the overlapping rotations of a sign-in, from any
\* number of tabs, only one may go on to make the next token, so that a sign-in never
\* has two live tokens (refresh-token.service.ts, rotate).
OneLiveEnd ==
    \A f \in Tokens :
        /\ \A t, u \in LiveIn(f) : t = u
        /\ \A g, h \in Creating(f) : g = h
        /\ LiveIn(f) = {} \/ Creating(f) = {}

\* The state of a chain, named by its first token.
ChainState(f) ==
    IF token[f].state = "unused" \/ token[f].chain # f THEN "none"
    ELSE IF LiveIn(f) # {} THEN "live"
    ELSE IF Creating(f) # {} THEN "rotating" ELSE "dead"

Chain == INSTANCE SessionChain WITH Chains <- Tokens,
                                    chain <- [f \in Tokens |-> ChainState(f)]

\* A sign-in that was revoked, expired or lost its rotation never comes back to life, and
\* rotation hands its one live end over (auth.service.ts, refresh-token.service.ts).
ChainSpec == Chain!ChainSpec

\* The browser stays signed in, and stays signed out, unless something went wrong around it:
\* a block, an expiry, a lost or failed answer, two auth requests of one browser at a time
\* (client.ts, tryRefresh, promises that concurrent 401s do not log the user out).
StoreIsHonest ==
    \A s \in Stores : ~mishap[s] => (signedIn[s] <=> store[s] # NoToken)

\* No screen waits for ever: a call that got a 401 ends whatever becomes of the refresh it
\* joined (client.ts, apiFetch and refreshInFlight).
EveryCallEnds == \A c \in Calls : call[c].pc # "idle" ~> call[c].pc = "idle"
=============================================================================
