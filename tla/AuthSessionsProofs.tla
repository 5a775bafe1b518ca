------------------------- MODULE AuthSessionsProofs -------------------------
(***************************************************************************)
(* Proofs about AuthSessions: a sign-in never has two live refresh tokens, *)
(* whatever overlaps, its chain of tokens implements SessionChain, and a   *)
(* browser around which nothing went wrong keeps a token exactly while its *)
(* user is signed in.                                                      *)
(*                                                                         *)
(* Two kinds of steps matter: the update that revokes the token a rotation *)
(* was given, and the insert of the next one.  Every other step is calm:   *)
(* it makes no token usable and lets no rotation go on to an insert.       *)
(***************************************************************************)
EXTENDS AuthSessions, TLAPS

Pcs == {"idle", "verify", "upsert", "revoke", "create", "answer"}
Used(t) == token[t].state # "unused"

\* What an auth request knows about the tokens it holds.
HandlerFits(h) ==
    LET q == handler[h] IN
    /\ q.kind = "refresh" /\ q.pc \in {"verify", "revoke", "create"} =>
         q.tok \in Tokens /\ Used(q.tok)
    /\ q.kind = "refresh" /\ q.pc = "create" => token[q.tok].state = "revoked"
    /\ q.pc = "revoke" => q.kind = "refresh"
    /\ q.pc = "upsert" => q.kind = "signin"
    /\ q.new # NoToken => Used(q.new)

\* A used token belongs to a chain, which is named by its first token.
TokenFits(t) ==
    Used(t) => /\ token[t].chain \in Tokens
               /\ Used(token[t].chain)
               /\ token[token[t].chain].chain = token[t].chain

AuthInv ==
    /\ AuthTypeOK
    /\ \A h \in Handlers : HandlerFits(h)
    /\ \A t \in Tokens : TokenFits(t)
    /\ \A s \in Stores : store[s] # NoToken => Used(store[s])
    /\ OneLiveEnd

-----------------------------------------------------------------------------
(* Records.                                                                *)

\* An auth request that goes on to pc keeps what it holds.
LEMMA HandlerGoes ==
    ASSUME NEW q \in HandlerState, NEW pc \in Pcs
    PROVE  /\ [q EXCEPT !.pc = pc] \in HandlerState
           /\ [q EXCEPT !.pc = pc].pc = pc
           /\ [q EXCEPT !.pc = pc].kind = q.kind
           /\ [q EXCEPT !.pc = pc].tok = q.tok
           /\ [q EXCEPT !.pc = pc].new = q.new
    BY DEF HandlerState, Pcs

\* One that is refused, or has made a token, goes on to its answer.
LEMMA HandlerAnswers ==
    ASSUME NEW q \in HandlerState, NEW new \in Tokens \cup {NoToken}
    PROVE  /\ [q EXCEPT !.pc = "answer", !.new = new] \in HandlerState
           /\ [q EXCEPT !.pc = "answer", !.new = new].pc = "answer"
           /\ [q EXCEPT !.pc = "answer", !.new = new].kind = q.kind
           /\ [q EXCEPT !.pc = "answer", !.new = new].tok = q.tok
           /\ [q EXCEPT !.pc = "answer", !.new = new].new = new
    BY DEF HandlerState

\* One whose tab is gone keeps everything else.
LEMMA HandlerOrphaned ==
    ASSUME NEW q \in HandlerState
    PROVE  /\ [q EXCEPT !.tab = NoTab] \in HandlerState
           /\ [q EXCEPT !.tab = NoTab].pc = q.pc
           /\ [q EXCEPT !.tab = NoTab].kind = q.kind
           /\ [q EXCEPT !.tab = NoTab].tok = q.tok
           /\ [q EXCEPT !.tab = NoTab].new = q.new
    BY DEF HandlerState

\* A token that is revoked or expires keeps its chain.
LEMMA TokenMoves ==
    ASSUME NEW row \in TokenRow, NEW state \in {"revoked", "expired"}
    PROVE  /\ [row EXCEPT !.state = state] \in TokenRow
           /\ [row EXCEPT !.state = state].state = state
           /\ [row EXCEPT !.state = state].chain = row.chain
    BY DEF TokenRow

-----------------------------------------------------------------------------
(* Types.                                                                  *)

LEMMA IdleTyped == IdleHandler \in HandlerState /\ IdleCall \in CallState
    BY DEF IdleHandler, IdleCall, HandlerState, CallState

\* What a step of the server writes has its type.
LEMMA ServerTyped ==
    ASSUME AuthTypeOK, NEW h \in Handlers,
           \/ Verify(h) \/ Revoke(h) \/ VerifyIdToken(h) \/ UpsertUser(h)
           \/ (\E new \in Tokens : Create(h, new)) \/ CreateFails(h) \/ Forget(h),
           \A g \in Handlers : HandlerFits(g)
    PROVE  AuthTypeOK'
<1> USE AuthConstants DEF AuthTypeOK
<1>1. /\ \A pc \in Pcs : Advance(h, pc) => handler' \in [Handlers -> HandlerState]
      /\ Refuse(h) => handler' \in [Handlers -> HandlerState]
      /\ Done(h) => handler' \in [Handlers -> HandlerState]
  <2>1. ASSUME NEW pc \in Pcs, Advance(h, pc) PROVE handler' \in [Handlers -> HandlerState]
    BY <2>1, HandlerGoes DEF Advance
  <2>2. ASSUME Refuse(h) PROVE handler' \in [Handlers -> HandlerState]
    BY <2>2, HandlerAnswers DEF Refuse
  <2>3. ASSUME Done(h) PROVE handler' \in [Handlers -> HandlerState]
    BY <2>3, IdleTyped DEF Done
  <2> QED BY <2>1, <2>2, <2>3
<1>2. CASE Verify(h)
  <2>1. handler' \in [Handlers -> HandlerState]
    BY <1>1, <1>2 DEF Verify, Pcs
  <2> QED BY <1>2, <2>1 DEF Verify, client
<1>3. CASE Revoke(h)
  <2>1. handler' \in [Handlers -> HandlerState]
    BY <1>1, <1>3 DEF Revoke, Pcs
  <2>2. handler[h].tok \in Tokens
    BY <1>3 DEF Revoke, HandlerFits
  <2>3. token' \in [Tokens -> TokenRow]
    <3> DEFINE row == [token[handler[h].tok] EXCEPT !.state = "revoked"]
    <3>1. row \in TokenRow
      BY <2>2, TokenMoves
    <3>2. token' = token \/ token' = [token EXCEPT ![handler[h].tok] = row]
      BY <1>3 DEF Revoke
    <3> HIDE DEF row
    <3> QED BY <3>1, <3>2
  <2> QED BY <1>3, <2>1, <2>3 DEF Revoke, client
<1>4. CASE VerifyIdToken(h)
  BY <1>1, <1>4 DEF VerifyIdToken, client, Pcs
<1>5. CASE UpsertUser(h)
  BY <1>1, <1>5 DEF UpsertUser, client, Pcs
<1>6. ASSUME NEW new \in Tokens, Create(h, new) PROVE AuthTypeOK'
  <2>1. handler' \in [Handlers -> HandlerState]
    BY <1>6, HandlerAnswers DEF Create
  <2>2. ChainOf(h, new) \in Tokens \cup {NoToken}
    BY <1>6 DEF ChainOf, Create, HandlerFits, TokenRow
  <2>3. [state |-> "live", chain |-> ChainOf(h, new)] \in TokenRow
    BY <2>2 DEF TokenRow
  <2>4. token' \in [Tokens -> TokenRow]
    BY <1>6, <2>3 DEF Create
  <2> QED BY <1>6, <2>1, <2>4 DEF Create, client
<1>7. CASE CreateFails(h)
  <2>1. handler' \in [Handlers -> HandlerState]
    BY <1>1, <1>7 DEF CreateFails
  <2>2. mishap' \in [Stores -> BOOLEAN]
    <3>1. CASE handler[h].tab = NoTab
      BY <1>7, <3>1 DEF CreateFails
    <3>2. CASE handler[h].tab # NoTab
      BY <1>7, <3>2 DEF CreateFails, WrongIf
    <3> QED BY <3>1, <3>2
  <2> QED BY <1>7, <2>1, <2>2 DEF CreateFails, client
<1>8. CASE Forget(h)
  BY <1>1, <1>8 DEF Forget, client
<1> QED BY <1>2, <1>3, <1>4, <1>5, <1>6, <1>7, <1>8

\* What the helpers of the browser's actions write has its type.
LEMMA WritesTyped ==
    ASSUME AuthTypeOK, NEW t, NEW s
    PROVE  /\ \A status \in TabState : Become(t, status) => tab' \in [Tabs -> TabState]
           /\ \A tok \in Tokens \cup {NoToken} :
                 Keep(s, tok) => store' \in [Stores -> Tokens \cup {NoToken}]
           /\ \A p \in BOOLEAN : WrongIf(s, p) => mishap' \in [Stores -> BOOLEAN]
           /\ Wrong(s) => mishap' \in [Stores -> BOOLEAN]
           /\ Trouble => trouble' \in Nat
           /\ \A boots \in BOOLEAN : Failed(t, boots) =>
                 tab' \in [Tabs -> TabState] /\ store' \in [Stores -> Tokens \cup {NoToken}]
<1> USE DEF AuthTypeOK
<1>1. ASSUME NEW status \in TabState, Become(t, status) PROVE tab' \in [Tabs -> TabState]
  BY <1>1 DEF Become
<1>2. ASSUME NEW tok \in Tokens \cup {NoToken}, Keep(s, tok)
      PROVE  store' \in [Stores -> Tokens \cup {NoToken}]
  BY <1>2 DEF Keep
<1>3. ASSUME NEW p \in BOOLEAN, WrongIf(s, p) PROVE mishap' \in [Stores -> BOOLEAN]
  BY <1>3 DEF WrongIf
<1>4. ASSUME Wrong(s) PROVE mishap' \in [Stores -> BOOLEAN]
  BY <1>4 DEF Wrong
<1>5. Trouble => trouble' \in Nat
  BY DEF Trouble
<1>6. ASSUME NEW boots \in BOOLEAN, Failed(t, boots)
      PROVE  tab' \in [Tabs -> TabState] /\ store' \in [Stores -> Tokens \cup {NoToken}]
  BY <1>6 DEF Failed, Become, Keep, TabState
<1> QED BY <1>1, <1>2, <1>3, <1>4, <1>5, <1>6

LEMMA CallsTyped ==
    ASSUME AuthTypeOK, NEW t \in Tabs, NEW c, NEW boot \in BOOLEAN
    PROVE  /\ \A pc \in {"sent", "waiting", "resent"} :
                 call' = [call EXCEPT ![c] = Asking(t, pc, boot)] => call' \in [Calls -> CallState]
           /\ call' = [call EXCEPT ![c] = IdleCall] => call' \in [Calls -> CallState]
           /\ Resend(t) => call' \in [Calls -> CallState]
           /\ GiveUp(t) => call' \in [Calls -> CallState]
<1> USE IdleTyped DEF AuthTypeOK
<1>1. \A pc \in {"sent", "waiting", "resent"}, b \in BOOLEAN : Asking(t, pc, b) \in CallState
  BY DEF Asking, CallState
<1>2. ASSUME NEW pc \in {"sent", "waiting", "resent"},
             call' = [call EXCEPT ![c] = Asking(t, pc, boot)]
      PROVE  call' \in [Calls -> CallState]
  BY <1>1, <1>2
<1>3. ASSUME call' = [call EXCEPT ![c] = IdleCall] PROVE call' \in [Calls -> CallState]
  BY <1>3
<1>4. ASSUME Resend(t) PROVE call' \in [Calls -> CallState]
  BY <1>1, <1>4 DEF Resend
<1>5. ASSUME GiveUp(t) PROVE call' \in [Calls -> CallState]
  BY <1>5 DEF GiveUp
<1> QED BY <1>2, <1>3, <1>4, <1>5

\* A request that starts, and one that is over.
LEMMA HandlersTyped ==
    ASSUME AuthTypeOK, NEW h \in Handlers
    PROVE  /\ \A t \in Tabs, kind \in {"refresh", "signin"}, tok \in Tokens \cup {NoToken} :
                 Start(h, t, kind, tok) => /\ handler' \in [Handlers -> HandlerState]
                                           /\ mishap' \in [Stores -> BOOLEAN]
           /\ Done(h) => handler' \in [Handlers -> HandlerState]
           /\ \A t \in Tabs : handler' = Orphaned(t) => handler' \in [Handlers -> HandlerState]
<1> USE AuthConstants, IdleTyped DEF AuthTypeOK
<1>1. ASSUME NEW t \in Tabs, NEW kind \in {"refresh", "signin"},
             NEW tok \in Tokens \cup {NoToken}, Start(h, t, kind, tok)
      PROVE  handler' \in [Handlers -> HandlerState] /\ mishap' \in [Stores -> BOOLEAN]
  <2>1. [pc |-> "verify", kind |-> kind, tab |-> t, tok |-> tok, new |-> NoToken] \in HandlerState
    BY DEF HandlerState
  <2> QED BY <1>1, <2>1 DEF Start, WrongIf
<1>2. ASSUME Done(h) PROVE handler' \in [Handlers -> HandlerState]
  BY <1>2 DEF Done
<1>3. ASSUME NEW t \in Tabs, handler' = Orphaned(t) PROVE handler' \in [Handlers -> HandlerState]
  BY <1>3, HandlerOrphaned DEF Orphaned
<1> QED BY <1>1, <1>2, <1>3

\* What a step of the browser, or of the user's account, writes has its type.
LEMMA BrowserTyped ==
    ASSUME AuthTypeOK,
           \A h \in Handlers : HandlerFits(h),
           \/ \E h \in Handlers : AnswerOk(h) \/ AnswerRefused(h) \/ LoseConnection(h)
           \/ \E c \in Calls : CallStep(c) \/ Refused401(c)
           \/ \E t \in Tabs : \/ CloseTab(t) \/ SignOut(t)
                              \/ \E c \in Calls : OpenTab(t, c)
                              \/ \E h \in Handlers : SignIn(t, h)
           \/ Block \/ Unblock \/ \E t \in Tokens : Expire(t)
    PROVE  AuthTypeOK'
<1> USE DEF AuthTypeOK
<1>1. ASSUME NEW h \in Handlers, AnswerOk(h) PROVE AuthTypeOK'
  <2> DEFINE t == handler[h].tab
  <2>1. t \in Tabs /\ handler[h].new \in Tokens
    BY <1>1 DEF AnswerOk, HandlerState
  <2>2. handler' \in [Handlers -> HandlerState]
    BY <1>1, HandlersTyped DEF AnswerOk
  <2>3. store' \in [Stores -> Tokens \cup {NoToken}]
    BY <1>1, <2>1, WritesTyped DEF AnswerOk
  <2>4. CASE handler[h].kind = "signin"
    <3>1. tab' \in [Tabs -> TabState]
      BY <1>1, <2>4, WritesTyped DEF AnswerOk, FinishSignIn, TabState
    <3>2. signedIn' \in [Stores -> BOOLEAN] /\ call' = call
      BY <1>1, <2>4 DEF AnswerOk, FinishSignIn
    <3> QED BY <1>1, <2>2, <2>3, <3>1, <3>2 DEF AnswerOk
  <2>5. CASE handler[h].kind # "signin"
    <3>1. call' \in [Calls -> CallState]
      BY <1>1, <2>1, <2>5, CallsTyped DEF AnswerOk, FinishRefresh
    <3> QED BY <1>1, <2>2, <2>3, <2>5, <3>1 DEF AnswerOk, FinishRefresh
  <2> QED BY <2>4, <2>5
<1>2. ASSUME NEW h \in Handlers, AnswerRefused(h) PROVE AuthTypeOK'
  <2> DEFINE t == handler[h].tab
  <2>1. t \in Tabs
    BY <1>2 DEF AnswerRefused, HandlerState
  <2>2. handler' \in [Handlers -> HandlerState]
    BY <1>2, HandlersTyped DEF AnswerRefused
  <2>3. CASE handler[h].kind = "signin"
    BY <1>2, <2>2, <2>3 DEF AnswerRefused
  <2>4. CASE handler[h].kind # "signin"
    <3>1. store' \in [Stores -> Tokens \cup {NoToken}]
      BY <1>2, <2>4, WritesTyped DEF AnswerRefused
    <3>2. tab' \in [Tabs -> TabState]
      BY <1>2, <2>4, WritesTyped DEF AnswerRefused, TabState
    <3>3. call' \in [Calls -> CallState]
      BY <1>2, <2>1, <2>4, CallsTyped DEF AnswerRefused
    <3> QED BY <1>2, <2>2, <3>1, <3>2, <3>3 DEF AnswerRefused
  <2> QED BY <2>3, <2>4
<1>3. ASSUME NEW h \in Handlers, LoseConnection(h) PROVE AuthTypeOK'
  <2> DEFINE t == handler[h].tab
             q == [handler[h] EXCEPT !.tab = NoTab]
  <2>1. t \in Tabs
    BY <1>3 DEF LoseConnection, HandlerState
  <2>2. handler' \in [Handlers -> HandlerState]
    <3>1. q \in HandlerState
      BY HandlerOrphaned
    <3>2. handler' = [handler EXCEPT ![h] = q]
      BY <1>3 DEF LoseConnection
    <3> HIDE DEF q
    <3> QED BY <3>1, <3>2
  <2>3. trouble' \in Nat
    BY <1>3, WritesTyped DEF LoseConnection
  <2>4. CASE handler[h].kind = "signin"
    BY <1>3, <2>2, <2>3, <2>4 DEF LoseConnection
  <2>5. CASE handler[h].kind # "signin"
    <3>1. Boots(t) \in BOOLEAN
      BY DEF Boots
    <3>2. tab' \in [Tabs -> TabState] /\ store' \in [Stores -> Tokens \cup {NoToken}]
      BY <1>3, <2>5, <3>1, WritesTyped DEF LoseConnection
    <3>3. call' \in [Calls -> CallState] /\ mishap' \in [Stores -> BOOLEAN]
      BY <1>3, <2>1, <2>5, CallsTyped, WritesTyped DEF LoseConnection
    <3> QED BY <1>3, <2>2, <2>3, <3>2, <3>3 DEF LoseConnection
  <2> QED BY <2>4, <2>5
<1>4. ASSUME NEW c \in Calls, Serve(c) PROVE AuthTypeOK'
  <2>1. tab' \in [Tabs -> TabState]
    BY <1>4, WritesTyped DEF Serve, TabState
  <2>2. call' \in [Calls -> CallState]
    BY <1>4, IdleTyped DEF Serve
  <2> QED BY <1>4, <2>1, <2>2 DEF Serve
<1>5. ASSUME NEW c \in Calls, CallFails(c) PROVE AuthTypeOK'
  <2>1. tab' \in [Tabs -> TabState] /\ store' \in [Stores -> Tokens \cup {NoToken}]
    BY <1>5, WritesTyped DEF CallFails
  <2>2. call' \in [Calls -> CallState]
    BY <1>5, IdleTyped DEF CallFails
  <2>3. mishap' \in [Stores -> BOOLEAN]
    BY <1>5, WritesTyped DEF CallFails
  <2> QED BY <1>5, <2>1, <2>2, <2>3 DEF CallFails
<1>6. ASSUME NEW c \in Calls, NEW t \in Tabs, NEW h \in Handlers, Unauthorized(c, t, h)
      PROVE  AuthTypeOK'
  <2> DEFINE boot == call[c].pc = "sent"
  <2>1. /\ UNCHANGED <<blocked, token, signedIn, trouble>>
        /\ \/ /\ call' = [call EXCEPT ![c] = Asking(t, "waiting", boot)]
              /\ UNCHANGED <<handler, store, tab, mishap>>
           \/ /\ store[StoreOf[t]] # NoToken
              /\ call' = [call EXCEPT ![c] = Asking(t, "waiting", boot)]
              /\ Start(h, t, "refresh", store[StoreOf[t]])
              /\ UNCHANGED <<store, tab>>
           \/ /\ Failed(t, boot)
              /\ call' = [call EXCEPT ![c] = IdleCall]
              /\ UNCHANGED <<handler, mishap>>
    BY <1>6, Zenon DEF Unauthorized
  <2>2. boot \in BOOLEAN /\ store[StoreOf[t]] \in Tokens \cup {NoToken}
    BY AuthConstants
  <2> HIDE DEF boot
  <2>3. CASE /\ call' = [call EXCEPT ![c] = Asking(t, "waiting", boot)]
             /\ UNCHANGED <<handler, store, tab, mishap>>
    BY <2>1, <2>2, <2>3, CallsTyped
  <2>4. CASE /\ call' = [call EXCEPT ![c] = Asking(t, "waiting", boot)]
             /\ Start(h, t, "refresh", store[StoreOf[t]])
             /\ UNCHANGED <<store, tab>>
    <3>1. call' \in [Calls -> CallState]
      BY <2>2, <2>4, CallsTyped
    <3>2. handler' \in [Handlers -> HandlerState] /\ mishap' \in [Stores -> BOOLEAN]
      BY <2>2, <2>4, HandlersTyped
    <3> QED BY <2>1, <2>4, <3>1, <3>2
  <2>5. CASE /\ Failed(t, boot)
             /\ call' = [call EXCEPT ![c] = IdleCall]
             /\ UNCHANGED <<handler, mishap>>
    <3>1. call' \in [Calls -> CallState]
      BY <2>2, <2>5, CallsTyped
    <3>2. tab' \in [Tabs -> TabState] /\ store' \in [Stores -> Tokens \cup {NoToken}]
      BY <2>2, <2>5, WritesTyped
    <3> QED BY <2>1, <2>5, <3>1, <3>2
  <2> QED BY <2>1, <2>3, <2>4, <2>5
<1>7. ASSUME NEW t \in Tabs, CloseTab(t) PROVE AuthTypeOK'
  <2>1. tab' \in [Tabs -> TabState] /\ trouble' \in Nat
    BY <1>7, WritesTyped DEF CloseTab, TabState
  <2>2. call' \in [Calls -> CallState]
    BY <1>7, IdleTyped DEF CloseTab
  <2>3. handler' \in [Handlers -> HandlerState]
    BY <1>7, HandlerOrphaned DEF CloseTab, Orphaned
  <2>4. mishap' \in [Stores -> BOOLEAN]
    BY <1>7 DEF CloseTab, WrongIf
  <2> QED BY <1>7, <2>1, <2>2, <2>3, <2>4 DEF CloseTab
<1>8. ASSUME NEW t \in Tabs, SignOut(t) PROVE AuthTypeOK'
  <2>1. tab' \in [Tabs -> TabState] /\ store' \in [Stores -> Tokens \cup {NoToken}]
    BY <1>8, WritesTyped DEF SignOut, TabState
  <2>2. mishap' \in [Stores -> BOOLEAN] /\ signedIn' \in [Stores -> BOOLEAN]
    BY <1>8 DEF SignOut, WrongIf
  <2> QED BY <1>8, <2>1, <2>2 DEF SignOut
<1>9. ASSUME NEW t \in Tabs, NEW c \in Calls, OpenTab(t, c) PROVE AuthTypeOK'
  <2>1. tab' \in [Tabs -> TabState]
    BY <1>9, WritesTyped DEF OpenTab, TabState
  <2>2. call' \in [Calls -> CallState]
    BY <1>9, CallsTyped DEF OpenTab
  <2> QED BY <1>9, <2>1, <2>2 DEF OpenTab
<1>10. ASSUME NEW t \in Tabs, NEW h \in Handlers, SignIn(t, h) PROVE AuthTypeOK'
  <2>1. handler' \in [Handlers -> HandlerState] /\ mishap' \in [Stores -> BOOLEAN]
    BY <1>10, HandlersTyped DEF SignIn
  <2> QED BY <1>10, <2>1 DEF SignIn, client
<1>11. CASE Block
  <2>1. token' \in [Tokens -> TokenRow]
    BY <1>11, TokenMoves DEF Block, Revoked
  <2>2. trouble' \in Nat
    BY <1>11, WritesTyped DEF Block
  <2> QED BY <1>11, <2>1, <2>2 DEF Block, client
<1>12. CASE Unblock
  BY <1>12 DEF Unblock, client
<1>13. ASSUME NEW t \in Tokens, Expire(t) PROVE AuthTypeOK'
  <2> DEFINE row == [token[t] EXCEPT !.state = "expired"]
  <2>1. row \in TokenRow
    BY TokenMoves
  <2>2. token' = [token EXCEPT ![t] = row]
    BY <1>13 DEF Expire
  <2>3. mishap' \in [Stores -> BOOLEAN]
    BY <1>13 DEF Expire
  <2>4. trouble' \in Nat
    BY <1>13, WritesTyped DEF Expire
  <2> HIDE DEF row
  <2>5. token' \in [Tokens -> TokenRow]
    BY <2>1, <2>2
  <2> QED BY <1>13, <2>3, <2>4, <2>5 DEF Expire, client
<1> QED
  BY <1>1, <1>2, <1>3, <1>4, <1>5, <1>6, <1>7, <1>8, <1>9, <1>10, <1>11, <1>12, <1>13
     DEF CallStep, Refused401

-----------------------------------------------------------------------------
(* Calm steps.                                                             *)

SameHandler(h) ==
    /\ handler'[h].pc = handler[h].pc
    /\ handler'[h].kind = handler[h].kind
    /\ handler'[h].tok = handler[h].tok
    /\ handler'[h].new = handler[h].new

\* A request stays where it is, or goes on without making a rotation ready to insert.
CalmHandler(h) ==
    \/ SameHandler(h)
    \/ /\ HandlerFits(h)'
       /\ handler'[h].pc = "create" => handler'[h].kind = "signin"
       /\ handler'[h].pc = "revoke" => Live(handler'[h].tok)

\* A token keeps its chain and gets no closer to life.
CalmToken(t) ==
    /\ token'[t].chain = token[t].chain
    /\ Used(t)' <=> Used(t)
    /\ token[t].state = "revoked" => token'[t].state = "revoked"
    /\ token'[t].state = "live" => Live(t)
    /\ token'[t].state = "expired" => token[t].state \in {"live", "expired"}

CalmStore(s) ==
    store'[s] = store[s] \/ store'[s] = NoToken \/ Used(store'[s])

Calm ==
    /\ \A h \in Handlers : CalmHandler(h)
    /\ \A t \in Tokens : CalmToken(t)
    /\ \A s \in Stores : CalmStore(s)

\* A calm step keeps the invariant, and no chain gains an end.
LEMMA CalmKeeps ==
    ASSUME AuthInv, AuthTypeOK', Calm
    PROVE  /\ AuthInv'
           /\ \A f \in Tokens : LiveIn(f)' \subseteq LiveIn(f) /\ Creating(f)' \subseteq Creating(f)
<1>1. ASSUME NEW h \in Handlers PROVE HandlerFits(h)'
  <2>1. CASE SameHandler(h)
    BY <2>1 DEF SameHandler, AuthInv, HandlerFits, Calm, CalmToken, AuthTypeOK, HandlerState, Used
  <2>2. CASE HandlerFits(h)'
    BY <2>2
  <2> QED BY <2>1, <2>2 DEF Calm, CalmHandler
<1>2. ASSUME NEW t \in Tokens PROVE TokenFits(t)'
  <2>1. Used(t)' => Used(t) /\ token'[t].chain = token[t].chain
    BY DEF Calm, CalmToken
  <2>2. ASSUME Used(t)
        PROVE  /\ token[t].chain \in Tokens
               /\ Used(token[t].chain)
               /\ token[token[t].chain].chain = token[t].chain
    BY <2>2 DEF AuthInv, TokenFits
  <2>3. ASSUME NEW f \in Tokens, Used(f)
        PROVE  token'[f].state # "unused" /\ token'[f].chain = token[f].chain
    BY <2>3 DEF Calm, CalmToken, Used
  <2> QED BY <2>1, <2>2, <2>3 DEF TokenFits, Used
<1>3. ASSUME NEW s \in Stores, store'[s] # NoToken PROVE Used(store[s])'
  <2>1. store'[s] \in Tokens
    BY <1>3 DEF AuthTypeOK
  <2>2. token[store'[s]].state # "unused"
    BY <1>3 DEF AuthInv, Calm, CalmStore, Used
  <2> QED BY <2>1, <2>2 DEF Calm, CalmToken, Used
<1>4. ASSUME NEW f \in Tokens, NEW t \in Tokens, t \in LiveIn(f)' PROVE t \in LiveIn(f)
  <2>1. token[t].chain = f /\ CalmToken(t) /\ Usable(t)'
    BY <1>4 DEF LiveIn, Calm, CalmToken
  <2>2. CASE token'[t].state = "live"
    BY <2>1, <2>2 DEF LiveIn, CalmToken, Usable
  <2>3. CASE token'[t].state = "expired"
    <3>1. PICK h \in Handlers : handler'[h].pc = "revoke" /\ handler'[h].tok = t
      BY <2>1, <2>3 DEF Usable, Live
    <3>2. Usable(t)
      BY <2>1, <2>3, <3>1 DEF Calm, CalmHandler, CalmToken, SameHandler, Usable, Live
    <3> QED BY <2>1, <3>2 DEF LiveIn
  <2> QED BY <2>1, <2>2, <2>3 DEF Usable, Live
<1>5. ASSUME NEW f \in Tokens, NEW h \in Handlers, h \in Creating(f)' PROVE h \in Creating(f)
  <2>1. handler'[h].pc = "create" /\ handler'[h].kind = "refresh"
        /\ token'[handler'[h].tok].chain = f
    BY <1>5 DEF Creating
  <2>2. SameHandler(h)
    BY <2>1 DEF Calm, CalmHandler
  <2>3. handler[h].tok \in Tokens
    BY <2>1, <2>2 DEF SameHandler, AuthInv, HandlerFits
  <2> QED BY <2>1, <2>2, <2>3 DEF SameHandler, Creating, Calm, CalmToken
<1>6. \A f \in Tokens : LiveIn(f)' \subseteq LiveIn(f) /\ Creating(f)' \subseteq Creating(f)
  BY <1>4, <1>5 DEF LiveIn, Creating
<1>7. OneLiveEnd'
  BY <1>6 DEF AuthInv, OneLiveEnd
<1> QED BY <1>1, <1>2, <1>3, <1>6, <1>7 DEF AuthInv

\* Only request h moves.
OnlyMoves(h) == \A g \in Handlers \ {h} : handler'[g] = handler[g]

LEMMA Advances ==
    ASSUME AuthTypeOK, NEW h \in Handlers, NEW pc \in Pcs, Advance(h, pc)
    PROVE  /\ handler'[h].pc = pc
           /\ handler'[h].kind = handler[h].kind
           /\ handler'[h].tok = handler[h].tok
           /\ handler'[h].new = handler[h].new
           /\ OnlyMoves(h)
<1> DEFINE q == [handler[h] EXCEPT !.pc = pc]
<1>1. handler[h] \in HandlerState
  BY DEF AuthTypeOK
<1>2. q.pc = pc /\ q.kind = handler[h].kind /\ q.tok = handler[h].tok /\ q.new = handler[h].new
  BY <1>1, HandlerGoes
<1>3. handler' = [handler EXCEPT ![h] = q]
  BY DEF Advance
<1> HIDE DEF q
<1> QED BY <1>2, <1>3 DEF AuthTypeOK, OnlyMoves

LEMMA Answers ==
    ASSUME AuthTypeOK, NEW h \in Handlers, NEW new \in Tokens \cup {NoToken},
           handler' = [handler EXCEPT ![h] = [@ EXCEPT !.pc = "answer", !.new = new]]
    PROVE  /\ handler'[h].pc = "answer"
           /\ handler'[h].kind = handler[h].kind
           /\ handler'[h].new = new
           /\ OnlyMoves(h)
<1> DEFINE q == [handler[h] EXCEPT !.pc = "answer", !.new = new]
<1>1. handler[h] \in HandlerState
  BY DEF AuthTypeOK
<1>2. q.pc = "answer" /\ q.kind = handler[h].kind /\ q.new = new
  BY <1>1, HandlerAnswers
<1>3. handler' = [handler EXCEPT ![h] = q]
  OBVIOUS
<1> HIDE DEF q
<1> QED BY <1>2, <1>3 DEF AuthTypeOK, OnlyMoves

\* What a step writes decides that it is calm: which request moved, and how.
LEMMA CalmTokens == ASSUME UNCHANGED token PROVE \A t \in Tokens : CalmToken(t)
    BY DEF CalmToken, Used, Live

LEMMA CalmAlone ==
    ASSUME NEW h \in Handlers, OnlyMoves(h), CalmHandler(h)
    PROVE  \A g \in Handlers : CalmHandler(g)
    BY DEF OnlyMoves, CalmHandler, SameHandler

\* The steps of a request that are calm.
LEMMA ServerCalm ==
    ASSUME AuthInv, NEW h \in Handlers,
           \/ Verify(h) \/ VerifyIdToken(h) \/ UpsertUser(h) \/ CreateFails(h) \/ Forget(h)
           \/ Revoke(h) /\ ~StillLive(h)
    PROVE  Calm
<1>1. AuthTypeOK /\ HandlerFits(h)
  BY DEF AuthInv
<1>2. UNCHANGED <<token, store>>
  BY DEF Verify, VerifyIdToken, UpsertUser, CreateFails, Forget, Revoke, client
<1>3. \/ handler[h].kind = "refresh" /\ handler[h].pc = "verify" /\ Live(handler[h].tok)
         /\ Advance(h, "revoke")
      \/ handler[h].kind = "signin" /\ (Advance(h, "upsert") \/ Advance(h, "create"))
      \/ Refuse(h)
      \/ Done(h)
  BY <1>1 DEF Verify, VerifyIdToken, UpsertUser, CreateFails, Forget, Revoke, HandlerFits,
              AuthTypeOK, HandlerState
<1>4. OnlyMoves(h) /\ CalmHandler(h)
  <2>1. CASE /\ handler[h].kind = "refresh" /\ handler[h].pc = "verify"
             /\ Live(handler[h].tok) /\ Advance(h, "revoke")
    <3>1. /\ handler'[h].pc = "revoke" /\ handler'[h].kind = "refresh"
          /\ handler'[h].tok = handler[h].tok /\ handler'[h].new = handler[h].new
          /\ OnlyMoves(h)
      BY <1>1, <2>1, Advances DEF Pcs
    <3>2. HandlerFits(h)'
      BY <1>1, <1>2, <2>1, <3>1 DEF HandlerFits, Used
    <3> QED BY <2>1, <3>1, <3>2 DEF CalmHandler
  <2>2. CASE handler[h].kind = "signin" /\ Advance(h, "upsert")
    <3>1. /\ handler'[h].pc = "upsert" /\ handler'[h].kind = "signin"
          /\ handler'[h].new = handler[h].new /\ OnlyMoves(h)
      BY <1>1, <2>2, Advances DEF Pcs
    <3>2. HandlerFits(h)'
      BY <1>1, <1>2, <3>1 DEF HandlerFits, Used
    <3> QED BY <3>1, <3>2 DEF CalmHandler
  <2>3. CASE handler[h].kind = "signin" /\ Advance(h, "create")
    <3>1. /\ handler'[h].pc = "create" /\ handler'[h].kind = "signin"
          /\ handler'[h].new = handler[h].new /\ OnlyMoves(h)
      BY <1>1, <2>3, Advances DEF Pcs
    <3>2. HandlerFits(h)'
      BY <1>1, <1>2, <3>1 DEF HandlerFits, Used
    <3> QED BY <3>1, <3>2 DEF CalmHandler
  <2>4. CASE Refuse(h)
    <3>1. handler'[h].pc = "answer" /\ handler'[h].new = NoToken /\ OnlyMoves(h)
      BY <1>1, <2>4, Answers DEF Refuse
    <3>2. HandlerFits(h)'
      BY <3>1 DEF HandlerFits
    <3> QED BY <3>1, <3>2 DEF CalmHandler
  <2>5. CASE Done(h)
    <3>1. handler'[h] = IdleHandler /\ OnlyMoves(h)
      BY <1>1, <2>5 DEF Done, AuthTypeOK, OnlyMoves
    <3>2. HandlerFits(h)'
      BY <3>1 DEF HandlerFits, IdleHandler
    <3> QED BY <3>1, <3>2 DEF CalmHandler, IdleHandler
  <2> QED BY <1>3, <2>1, <2>2, <2>3, <2>4, <2>5
<1>5. \A s \in Stores : CalmStore(s)
  BY <1>2 DEF CalmStore
<1> QED BY <1>2, <1>4, <1>5, CalmTokens, CalmAlone DEF Calm

\* A request of a tab starts with the token that is stored, if it refreshes.
LEMMA StartCalm ==
    ASSUME AuthInv, NEW h \in Handlers, NEW t \in Tabs, NEW kind \in {"refresh", "signin"},
           NEW tok, Start(h, t, kind, tok),
           kind = "refresh" => tok \in Tokens /\ Used(tok),
           UNCHANGED <<token, store>>
    PROVE  Calm
<1>1. handler'[h] = [pc |-> "verify", kind |-> kind, tab |-> t, tok |-> tok, new |-> NoToken]
      /\ OnlyMoves(h)
  BY DEF AuthInv, AuthTypeOK, Start, OnlyMoves
<1>2. HandlerFits(h)'
  BY <1>1 DEF HandlerFits, Used
<1>3. \A s \in Stores : CalmStore(s)
  BY DEF CalmStore
<1> QED BY <1>1, <1>2, <1>3, CalmTokens, CalmAlone DEF Calm, CalmHandler

\* Everything the browser, or the user's account, does is calm.
LEMMA BrowserCalm ==
    ASSUME AuthInv,
           \/ \E h \in Handlers : AnswerOk(h) \/ AnswerRefused(h) \/ LoseConnection(h)
           \/ \E c \in Calls : CallStep(c) \/ Refused401(c)
           \/ \E t \in Tabs : \/ CloseTab(t) \/ SignOut(t)
                              \/ \E c \in Calls : OpenTab(t, c)
                              \/ \E h \in Handlers : SignIn(t, h)
           \/ Block \/ Unblock \/ \E t \in Tokens : Expire(t)
    PROVE  Calm
<1>1. AuthTypeOK
  BY DEF AuthInv
<1>2. ASSUME UNCHANGED handler PROVE \A h \in Handlers : CalmHandler(h)
  BY <1>2 DEF CalmHandler, SameHandler
<1>3. ASSUME NEW h \in Handlers, Done(h) PROVE \A g \in Handlers : CalmHandler(g)
  <2>1. handler'[h] = IdleHandler /\ OnlyMoves(h)
    BY <1>1, <1>3 DEF Done, AuthTypeOK, OnlyMoves
  <2>2. HandlerFits(h)'
    BY <2>1 DEF HandlerFits, IdleHandler
  <2> QED BY <2>1, <2>2, CalmAlone DEF CalmHandler, IdleHandler
<1>4. ASSUME NEW s, NEW tok, Keep(s, tok), tok = NoToken \/ Used(tok)
      PROVE  \A r \in Stores : CalmStore(r)
  BY <1>1, <1>4 DEF Keep, CalmStore, AuthTypeOK
<1>5. ASSUME UNCHANGED store PROVE \A s \in Stores : CalmStore(s)
  BY <1>5 DEF CalmStore
<1>6. ASSUME NEW t, NEW boots, Failed(t, boots) PROVE \A s \in Stores : CalmStore(s)
  BY <1>4, <1>5, <1>6 DEF Failed
<1>7. ASSUME NEW h \in Handlers, AnswerOk(h) PROVE Calm
  <2>1. Used(handler[h].new)
    BY <1>7 DEF AuthInv, HandlerFits, AnswerOk
  <2>2. Keep(StoreOf[handler[h].tab], handler[h].new) /\ Done(h) /\ UNCHANGED token
    BY <1>7 DEF AnswerOk
  <2> QED BY <1>3, <1>4, <2>1, <2>2, CalmTokens DEF Calm
<1>8. ASSUME NEW h \in Handlers, AnswerRefused(h) PROVE Calm
  <2>1. (Keep(StoreOf[handler[h].tab], NoToken) \/ UNCHANGED store) /\ Done(h) /\ UNCHANGED token
    BY <1>8 DEF AnswerRefused
  <2> QED BY <1>3, <1>4, <1>5, <2>1, CalmTokens DEF Calm
<1>9. ASSUME NEW h \in Handlers, LoseConnection(h) PROVE Calm
  <2> DEFINE q == [handler[h] EXCEPT !.tab = NoTab]
  <2>1. (Failed(handler[h].tab, Boots(handler[h].tab)) \/ UNCHANGED store) /\ UNCHANGED token
        /\ handler' = [handler EXCEPT ![h] = q]
    BY <1>9 DEF LoseConnection
  <2>2. /\ q.pc = handler[h].pc /\ q.kind = handler[h].kind
        /\ q.tok = handler[h].tok /\ q.new = handler[h].new
    BY <1>1, HandlerOrphaned DEF AuthTypeOK
  <2> HIDE DEF q
  <2>3. SameHandler(h) /\ OnlyMoves(h)
    BY <1>1, <2>1, <2>2 DEF AuthTypeOK, SameHandler, OnlyMoves
  <2> QED BY <1>5, <1>6, <2>1, <2>3, CalmTokens, CalmAlone DEF Calm, CalmHandler
<1>10. ASSUME NEW c \in Calls, CallStep(c) PROVE Calm
  <2>1. CASE Serve(c)
    BY <1>2, <1>5, <2>1, CalmTokens DEF Serve, Calm
  <2>2. CASE CallFails(c)
    BY <1>2, <1>6, <2>2, CalmTokens DEF CallFails, Calm
  <2> QED BY <1>10, <2>1, <2>2 DEF CallStep
<1>11. ASSUME NEW c \in Calls, NEW t \in Tabs, NEW h \in Handlers, Unauthorized(c, t, h) PROVE Calm
  <2>1. /\ UNCHANGED token
        /\ \/ UNCHANGED <<handler, store>>
           \/ /\ store[StoreOf[t]] # NoToken
              /\ Start(h, t, "refresh", store[StoreOf[t]])
              /\ UNCHANGED store
           \/ Failed(t, call[c].pc = "sent") /\ UNCHANGED handler
    BY <1>11, Zenon DEF Unauthorized
  <2>2. CASE UNCHANGED <<handler, store>>
    BY <1>2, <1>5, <2>1, <2>2, CalmTokens DEF Calm
  <2>3. CASE /\ store[StoreOf[t]] # NoToken
             /\ Start(h, t, "refresh", store[StoreOf[t]])
             /\ UNCHANGED store
    <3>1. StoreOf[t] \in Stores
      BY AuthConstants
    <3>2. store[StoreOf[t]] \in Tokens /\ Used(store[StoreOf[t]])
      BY <1>1, <2>3, <3>1 DEF AuthInv, AuthTypeOK
    <3> QED BY <2>1, <2>3, <3>2, StartCalm
  <2>4. CASE Failed(t, call[c].pc = "sent") /\ UNCHANGED handler
    BY <1>2, <1>6, <2>1, <2>4, CalmTokens DEF Calm
  <2> QED BY <2>1, <2>2, <2>3, <2>4
<1>12. ASSUME NEW t \in Tabs, CloseTab(t) PROVE Calm
  <2>1. \A h \in Handlers : SameHandler(h)
    BY <1>1, <1>12, HandlerOrphaned DEF CloseTab, Orphaned, SameHandler, AuthTypeOK
  <2> QED BY <1>5, <1>12, <2>1, CalmTokens DEF CloseTab, Calm, CalmHandler
<1>13. ASSUME NEW t \in Tabs, SignOut(t) PROVE Calm
  BY <1>2, <1>4, <1>13, CalmTokens DEF SignOut, Calm
<1>14. ASSUME NEW t \in Tabs, NEW c \in Calls, OpenTab(t, c) PROVE Calm
  BY <1>2, <1>5, <1>14, CalmTokens DEF OpenTab, Calm
<1>15. ASSUME NEW t \in Tabs, NEW h \in Handlers, SignIn(t, h) PROVE Calm
  BY <1>15, StartCalm DEF SignIn, client
<1>16. CASE Block
  <2>1. \A t \in Tokens : CalmToken(t)
    BY <1>1, <1>16, TokenMoves DEF Block, Revoked, CalmToken, Used, AuthTypeOK, TokenRow
  <2> QED BY <1>2, <1>5, <1>16, <2>1 DEF Block, client, Calm
<1>17. CASE Unblock
  BY <1>2, <1>5, <1>17, CalmTokens DEF Unblock, client, Calm
<1>18. ASSUME NEW t \in Tokens, Expire(t) PROVE Calm
  <2> DEFINE row == [token[t] EXCEPT !.state = "expired"]
  <2>1. row.state = "expired" /\ row.chain = token[t].chain
    BY <1>1, TokenMoves DEF AuthTypeOK
  <2>2. token' = [token EXCEPT ![t] = row] /\ Live(t)
    BY <1>18 DEF Expire
  <2> HIDE DEF row
  <2>3. \A u \in Tokens : CalmToken(u)
    BY <1>1, <2>1, <2>2 DEF AuthTypeOK, CalmToken, Used, Live
  <2> QED BY <1>2, <1>5, <1>18, <2>3 DEF Expire, client, Calm
<1> QED
  BY <1>7, <1>8, <1>9, <1>10, <1>11, <1>12, <1>13, <1>14, <1>15, <1>16, <1>17, <1>18
     DEF Refused401

-----------------------------------------------------------------------------
(* The two steps that hand a chain over.                                   *)

\* f is the first token of a chain.
Rooted(f) == Used(f) /\ token[f].chain = f

\* A step touches no chain but f.
OnlyChain(f) ==
    \A g \in Tokens \ {f} : /\ LiveIn(g)' = LiveIn(g)
                            /\ Creating(g)' = Creating(g)
                            /\ Rooted(g)' <=> Rooted(g)

\* The token of a rotation that won dies, and the rotation may insert.
Retires(f) ==
    /\ Rooted(f) /\ Rooted(f)'
    /\ LiveIn(f) # {} /\ LiveIn(f)' = {}
    /\ Creating(f)' # {}
    /\ OnlyChain(f)

\* A token is made, for a chain that has no end.
Renews(f) ==
    /\ LiveIn(f) = {} /\ (Rooted(f) => Creating(f) # {})
    /\ Rooted(f)' /\ LiveIn(f)' # {} /\ Creating(f)' = {}
    /\ OnlyChain(f)

LEMMA RevokeRetires ==
    ASSUME AuthInv, AuthTypeOK', NEW h \in Handlers, Revoke(h), StillLive(h)
    PROVE  AuthInv' /\ \E f \in Tokens : Retires(f)
<1>1. AuthTypeOK /\ OneLiveEnd /\ \A g \in Handlers : HandlerFits(g)
  BY DEF AuthInv
<1> PICK k \in Tokens : k = handler[h].tok
  BY <1>1 DEF Revoke, HandlerFits
<1>2. handler[h].pc = "revoke" /\ handler[h].kind = "refresh" /\ Used(k)
  BY <1>1 DEF Revoke, HandlerFits
<1> PICK f \in Tokens : f = token[k].chain
  BY <1>2 DEF AuthInv, TokenFits
<1> DEFINE row == [token[k] EXCEPT !.state = "revoked"]
<1>3. Rooted(f)
  BY <1>2 DEF AuthInv, TokenFits, Rooted
<1>4. row.state = "revoked" /\ row.chain = f
  BY <1>1, <1>2, TokenMoves DEF AuthTypeOK
<1>5. token' = [token EXCEPT ![k] = row] /\ Advance(h, "create") /\ UNCHANGED store
  BY DEF Revoke, client
<1>6. k \in LiveIn(f)
  BY <1>2 DEF LiveIn, Usable, Live, StillLive
<1>7. Creating(f) = {} /\ \A t \in LiveIn(f) : t = k
  BY <1>1, <1>3, <1>6 DEF OneLiveEnd
<1> HIDE DEF row
<1>8. /\ token'[k].state = "revoked" /\ token'[k].chain = f
      /\ \A t \in Tokens \ {k} : token'[t] = token[t]
  BY <1>1, <1>2, <1>4, <1>5 DEF AuthTypeOK
<1>9. /\ handler'[h].pc = "create" /\ handler'[h].kind = "refresh"
      /\ handler'[h].tok = k /\ handler'[h].new = handler[h].new
      /\ OnlyMoves(h)
  BY <1>1, <1>2, <1>5, Advances DEF Pcs
<1>10. \A t \in Tokens : token'[t].chain = token[t].chain /\ (Used(t)' <=> Used(t))
  BY <1>2, <1>8 DEF Used
<1>11. ASSUME NEW g \in Handlers PROVE HandlerFits(g)'
  <2>1. CASE g = h
    <3>1. handler[h].new # NoToken => handler[h].new \in Tokens /\ Used(handler[h].new)
      BY <1>1 DEF HandlerFits, AuthTypeOK, HandlerState
    <3> QED BY <1>2, <1>8, <1>9, <1>10, <2>1, <3>1 DEF HandlerFits, Used
  <2>2. CASE g # h
    <3>1. handler'[g] = handler[g]
      BY <1>9, <2>2 DEF OnlyMoves
    <3>2. handler[g].new # NoToken => handler[g].new \in Tokens
      BY <1>1 DEF AuthTypeOK, HandlerState
    <3>3. \A t \in Tokens : token[t].state = "revoked" => token'[t].state = "revoked"
      BY <1>8
    <3>4. HandlerFits(g)
      BY <1>1
    <3> QED BY <1>10, <3>1, <3>2, <3>3, <3>4 DEF HandlerFits, Used
  <2> QED BY <2>1, <2>2
<1>12. ASSUME NEW t \in Tokens PROVE TokenFits(t)'
  <2>1. TokenFits(t)
    BY DEF AuthInv
  <2> QED BY <1>10, <2>1 DEF TokenFits, Used
<1>13. ASSUME NEW s \in Stores, store'[s] # NoToken PROVE Used(store[s])'
  <2>1. store[s] \in Tokens /\ Used(store[s])
    BY <1>1, <1>5, <1>13 DEF AuthInv, AuthTypeOK
  <2> QED BY <1>5, <1>10, <2>1 DEF Used
<1>14. ASSUME NEW g \in Tokens PROVE LiveIn(g)' = LiveIn(g) \ {k}
  <2>1. ASSUME NEW t \in Tokens PROVE t \in LiveIn(g)' <=> t \in LiveIn(g) /\ t # k
    <3>1. CASE t = k
      BY <1>8, <3>1 DEF LiveIn, Usable, Live
    <3>2. CASE t # k
      <4>1. token'[t] = token[t]
        BY <1>8, <3>2
      <4>2. ASSUME NEW m \in Handlers
            PROVE  handler'[m].pc = "revoke" /\ handler'[m].tok = t
                     <=> handler[m].pc = "revoke" /\ handler[m].tok = t
        <5>1. CASE m = h
          BY <1>9, <3>2, <5>1
        <5>2. CASE m # h
          BY <1>9, <5>2 DEF OnlyMoves
        <5> QED BY <5>1, <5>2
      <4> QED BY <3>2, <4>1, <4>2 DEF LiveIn, Usable, Live
    <3> QED BY <3>1, <3>2
  <2> QED BY <2>1 DEF LiveIn
<1>15. ASSUME NEW g \in Tokens
       PROVE  Creating(g)' = IF g = f THEN Creating(g) \cup {h} ELSE Creating(g)
  <2>1. ASSUME NEW m \in Handlers
        PROVE  m \in Creating(g)' <=> m \in Creating(g) \/ (m = h /\ g = f)
    <3>1. CASE m = h
      BY <1>2, <1>8, <1>9, <3>1 DEF Creating
    <3>2. CASE m # h
      <4>1. handler'[m] = handler[m]
        BY <1>9, <3>2 DEF OnlyMoves
      <4>2. handler[m].pc = "create" /\ handler[m].kind = "refresh" => handler[m].tok \in Tokens
        BY <1>1 DEF HandlerFits
      <4> QED BY <1>10, <3>2, <4>1, <4>2 DEF Creating
    <3> QED BY <3>1, <3>2
  <2> QED BY <2>1 DEF Creating
<1>16. \A g \in Tokens \ {f} : k \notin LiveIn(g)
  BY DEF LiveIn
<1>17. OneLiveEnd'
  <2>1. ASSUME NEW g \in Tokens
        PROVE  /\ \A t, u \in LiveIn(g)' : t = u
               /\ \A m, n \in Creating(g)' : m = n
               /\ LiveIn(g)' = {} \/ Creating(g)' = {}
    <3>1. CASE g = f
      BY <1>3, <1>7, <1>14, <1>15, <3>1
    <3>2. CASE g # f
      BY <1>1, <1>14, <1>15, <3>2 DEF OneLiveEnd
    <3> QED BY <3>1, <3>2
  <2> QED BY <2>1 DEF OneLiveEnd
<1>18. Retires(f)
  <2>1. \A g \in Tokens : Rooted(g)' <=> Rooted(g)
    BY <1>10 DEF Rooted
  <2>2. ASSUME NEW g \in Tokens \ {f}
        PROVE  LiveIn(g)' = LiveIn(g) /\ Creating(g)' = Creating(g)
    <3>1. LiveIn(g)' = LiveIn(g) \ {k} /\ k \notin LiveIn(g)
      BY <1>14, <1>16
    <3>2. Creating(g)' = Creating(g)
      BY <1>15
    <3> QED BY <3>1, <3>2
  <2>3. LiveIn(f)' = {} /\ h \in Creating(f)'
    <3>1. LiveIn(f)' = LiveIn(f) \ {k}
      BY <1>14
    <3>2. Creating(f)' = Creating(f) \cup {h}
      BY <1>15
    <3> QED BY <1>7, <3>1, <3>2
  <2> QED BY <1>3, <1>6, <2>1, <2>2, <2>3 DEF Retires, OnlyChain
<1> QED BY <1>3, <1>11, <1>12, <1>13, <1>17, <1>18 DEF AuthInv

LEMMA CreateRenews ==
    ASSUME AuthInv, AuthTypeOK', NEW h \in Handlers, NEW new \in Tokens, Create(h, new)
    PROVE  AuthInv' /\ \E f \in Tokens : Renews(f)
<1>1. AuthTypeOK /\ OneLiveEnd /\ \A g \in Handlers : HandlerFits(g)
  BY DEF AuthInv
<1>2. handler[h].pc = "create" /\ ~Used(new) /\ UNCHANGED store
  BY DEF Create, client, Used
<1> PICK f \in Tokens : f = ChainOf(h, new)
  BY <1>1, <1>2 DEF ChainOf, AuthInv, HandlerFits, TokenFits
<1>3. /\ token'[new].state = "live" /\ token'[new].chain = f
      /\ \A t \in Tokens \ {new} : token'[t] = token[t]
  <2>1. token' = [token EXCEPT ![new] = [state |-> "live", chain |-> f]]
    BY DEF Create
  <2> QED BY <1>1, <2>1 DEF AuthTypeOK
<1>4. handler'[h].pc = "answer" /\ handler'[h].new = new /\ OnlyMoves(h)
  BY <1>1, Answers DEF Create
\* Nothing that is known refers to the token before it is made.
<1>5. ASSUME NEW t \in Tokens, Used(t)
      PROVE  /\ t # new /\ token'[t] = token[t] /\ token[t].chain \in Tokens
             /\ token[t].chain # new /\ Used(token[t].chain)
             /\ token[token[t].chain].chain = token[t].chain
  BY <1>2, <1>3, <1>5 DEF AuthInv, TokenFits
<1>6. \A g \in Tokens : \A t \in LiveIn(g) : t \in Tokens /\ Used(t)
  BY DEF LiveIn, Usable, Live, Used
<1>7. \A g \in Tokens : \A m \in Creating(g) : handler[m].tok \in Tokens /\ Used(handler[m].tok)
  BY <1>1 DEF Creating, HandlerFits
<1>8. LiveIn(new) = {} /\ Creating(new) = {}
  BY <1>5, <1>6, <1>7 DEF LiveIn, Creating
<1>9. /\ LiveIn(f) = {} /\ \A m \in Creating(f) : m = h
      /\ Rooted(f) => h \in Creating(f)
      /\ f # new => Rooted(f)
  <2>1. CASE handler[h].kind = "refresh"
    <3>1. handler[h].tok \in Tokens /\ Used(handler[h].tok) /\ f = token[handler[h].tok].chain
      BY <1>1, <1>2, <2>1 DEF HandlerFits, ChainOf
    <3>2. Rooted(f) /\ h \in Creating(f)
      BY <1>2, <1>5, <2>1, <3>1 DEF Creating, Rooted
    <3> QED BY <1>1, <3>2 DEF OneLiveEnd
  <2>2. CASE handler[h].kind # "refresh"
    <3>1. f = new
      BY <2>2 DEF ChainOf
    <3> QED BY <1>2, <1>8, <3>1 DEF Rooted
  <2> QED BY <2>1, <2>2
<1>10. ASSUME NEW g \in Handlers PROVE HandlerFits(g)'
  <2>1. CASE g = h
    BY <1>3, <1>4, <2>1 DEF HandlerFits, Used
  <2>2. CASE g # h
    <3>1. handler'[g] = handler[g]
      BY <1>4, <2>2 DEF OnlyMoves
    <3>2. handler[g].new # NoToken => handler[g].new \in Tokens
      BY <1>1 DEF AuthTypeOK, HandlerState
    <3>3. \A t \in Tokens : Used(t) => token'[t] = token[t] /\ Used(t)'
      BY <1>5 DEF Used
    <3>4. HandlerFits(g)
      BY <1>1
    <3> QED BY <3>1, <3>2, <3>3, <3>4 DEF HandlerFits, Used
  <2> QED BY <2>1, <2>2
<1>11. ASSUME NEW t \in Tokens PROVE TokenFits(t)'
  <2>1. CASE t = new
    <3>1. CASE f = new
      BY <1>3, <2>1, <3>1 DEF TokenFits, Used
    <3>2. CASE f # new
      BY <1>3, <1>9, <2>1, <3>2 DEF TokenFits, Used, Rooted
    <3> QED BY <3>1, <3>2
  <2>2. CASE t # new
    <3>1. token'[t] = token[t]
      BY <1>3, <2>2
    <3>2. CASE Used(t)
      <4>1. token'[token[t].chain] = token[token[t].chain]
        BY <1>3, <1>5, <3>2
      <4> QED BY <1>5, <3>1, <3>2, <4>1 DEF TokenFits, Used
    <3>3. CASE ~Used(t)
      BY <3>1, <3>3 DEF TokenFits, Used
    <3> QED BY <3>2, <3>3
  <2> QED BY <2>1, <2>2
<1>12. ASSUME NEW s \in Stores, store'[s] # NoToken PROVE Used(store[s])'
  <2>1. store[s] \in Tokens /\ Used(store[s])
    BY <1>1, <1>2, <1>12 DEF AuthInv, AuthTypeOK
  <2> QED BY <1>2, <1>5, <2>1 DEF Used
<1>13. ASSUME NEW g \in Tokens
       PROVE  LiveIn(g)' = IF g = f THEN LiveIn(g) \cup {new} ELSE LiveIn(g)
  <2>1. ASSUME NEW t \in Tokens
        PROVE  t \in LiveIn(g)' <=> t \in LiveIn(g) \/ (t = new /\ g = f)
    <3>1. CASE t = new
      <4>1. t \notin LiveIn(g)
        BY <1>2, <1>6, <3>1
      <4> QED BY <1>3, <3>1, <4>1 DEF LiveIn, Usable, Live
    <3>2. CASE t # new
      <4>1. token'[t] = token[t]
        BY <1>3, <3>2
      <4>2. ASSUME NEW m \in Handlers
            PROVE  handler'[m].pc = "revoke" /\ handler'[m].tok = t
                     <=> handler[m].pc = "revoke" /\ handler[m].tok = t
        <5>1. CASE m = h
          BY <1>2, <1>4, <5>1
        <5>2. CASE m # h
          BY <1>4, <5>2 DEF OnlyMoves
        <5> QED BY <5>1, <5>2
      <4> QED BY <3>2, <4>1, <4>2 DEF LiveIn, Usable, Live
    <3> QED BY <3>1, <3>2
  <2> QED BY <2>1 DEF LiveIn
<1>14. ASSUME NEW g \in Tokens PROVE Creating(g)' = Creating(g) \ {h}
  <2>1. ASSUME NEW m \in Handlers PROVE m \in Creating(g)' <=> m \in Creating(g) /\ m # h
    <3>1. CASE m = h
      BY <1>4, <3>1 DEF Creating
    <3>2. CASE m # h
      <4>1. handler'[m] = handler[m]
        BY <1>4, <3>2 DEF OnlyMoves
      <4>2. handler[m].pc = "create" /\ handler[m].kind = "refresh"
              => token'[handler[m].tok] = token[handler[m].tok]
        BY <1>1, <1>5 DEF HandlerFits
      <4> QED BY <3>2, <4>1, <4>2 DEF Creating
    <3> QED BY <3>1, <3>2
  <2> QED BY <2>1 DEF Creating
<1>15. \A g \in Tokens \ {f} : h \notin Creating(g)
  BY DEF Creating, ChainOf, Create
<1>16. OneLiveEnd'
  <2>1. ASSUME NEW g \in Tokens
        PROVE  /\ \A t, u \in LiveIn(g)' : t = u
               /\ \A m, n \in Creating(g)' : m = n
               /\ LiveIn(g)' = {} \/ Creating(g)' = {}
    <3>1. CASE g = f
      BY <1>9, <1>13, <1>14, <3>1
    <3>2. CASE g # f
      BY <1>1, <1>13, <1>14, <3>2 DEF OneLiveEnd
    <3> QED BY <3>1, <3>2
  <2> QED BY <2>1 DEF OneLiveEnd
<1>17. Rooted(f)' /\ \A g \in Tokens \ {f} : Rooted(g)' <=> Rooted(g)
  <2>1. Rooted(f)'
    BY <1>3, <1>5, <1>9 DEF Rooted, Used
  <2>2. ASSUME NEW g \in Tokens \ {f} PROVE Rooted(g)' <=> Rooted(g)
    <3>1. CASE g = new
      BY <1>2, <1>3, <3>1 DEF Rooted, Used
    <3>2. CASE g # new
      BY <1>3, <3>2 DEF Rooted, Used
    <3> QED BY <3>1, <3>2
  <2> QED BY <2>1, <2>2
<1>18. Renews(f)
  <2>1. LiveIn(f)' = {new} /\ Creating(f)' = {}
    BY <1>9, <1>13, <1>14
  <2>2. OnlyChain(f)
    BY <1>13, <1>14, <1>15, <1>17 DEF OnlyChain
  <2> QED BY <1>9, <1>17, <2>1, <2>2 DEF Renews
<1> QED BY <1>9, <1>10, <1>11, <1>12, <1>16, <1>18 DEF AuthInv

-----------------------------------------------------------------------------
(* The invariant.                                                          *)

\* No chain gains an end, and none starts.
Shrinks ==
    \A f \in Tokens : /\ LiveIn(f)' \subseteq LiveIn(f)
                      /\ Creating(f)' \subseteq Creating(f)
                      /\ Rooted(f)' <=> Rooted(f)

LEMMA InitOK == AuthInit => AuthInv
<1> SUFFICES ASSUME AuthInit PROVE AuthInv
  OBVIOUS
<1>1. [state |-> "unused", chain |-> NoToken] \in TokenRow
  BY DEF TokenRow
<1>2. AuthTypeOK
  BY <1>1, IdleTyped DEF AuthInit, AuthTypeOK, TabState
<1>3. /\ \A h \in Handlers : handler[h] = IdleHandler
      /\ \A t \in Tokens : token[t].state = "unused"
      /\ \A s \in Stores : store[s] = NoToken
  BY DEF AuthInit
<1>4. \A h \in Handlers : HandlerFits(h)
  BY <1>3 DEF HandlerFits, IdleHandler
<1>5. \A t \in Tokens : TokenFits(t)
  BY <1>3 DEF TokenFits, Used
<1>6. \A f \in Tokens : LiveIn(f) = {} /\ Creating(f) = {}
  BY <1>3 DEF LiveIn, Usable, Live, Creating, IdleHandler
<1> QED BY <1>2, <1>3, <1>4, <1>5, <1>6 DEF AuthInv, OneLiveEnd

LEMMA CalmShrinks == ASSUME AuthInv, AuthTypeOK', Calm PROVE AuthInv' /\ Shrinks
<1>1. \A f \in Tokens : Rooted(f)' <=> Rooted(f)
  BY DEF Calm, CalmToken, Rooted
<1> QED BY <1>1, CalmKeeps DEF Shrinks

\* Every step keeps the invariant, and moves one chain at most unless it ends some.
LEMMA Step ==
    ASSUME AuthInv, [AuthNext]_vars
    PROVE  AuthInv' /\ (Shrinks \/ \E f \in Tokens : Retires(f) \/ Renews(f))
<1>1. CASE UNCHANGED vars
  <2>1. AuthTypeOK'
    BY <1>1 DEF AuthInv, AuthTypeOK, vars
  <2>2. Calm
    BY <1>1, CalmTokens DEF vars, Calm, CalmHandler, SameHandler, CalmStore
  <2> QED BY <2>1, <2>2, CalmShrinks
<1>2. ASSUME NEW h \in Handlers,
             \/ Verify(h) \/ Revoke(h) \/ VerifyIdToken(h) \/ UpsertUser(h)
             \/ (\E new \in Tokens : Create(h, new)) \/ CreateFails(h) \/ Forget(h)
      PROVE  AuthInv' /\ (Shrinks \/ \E f \in Tokens : Retires(f) \/ Renews(f))
  <2>1. AuthTypeOK'
    BY <1>2, ServerTyped DEF AuthInv
  <2>2. CASE Revoke(h) /\ StillLive(h)
    BY <2>1, <2>2, RevokeRetires
  <2>3. ASSUME NEW new \in Tokens, Create(h, new)
        PROVE  AuthInv' /\ \E f \in Tokens : Renews(f)
    BY <2>1, <2>3, CreateRenews
  <2>4. CASE \/ Verify(h) \/ VerifyIdToken(h) \/ UpsertUser(h) \/ CreateFails(h) \/ Forget(h)
             \/ Revoke(h) /\ ~StillLive(h)
    BY <2>1, <2>4, ServerCalm, CalmShrinks
  <2> QED BY <1>2, <2>2, <2>3, <2>4
<1>3. CASE \/ \E h \in Handlers : AnswerOk(h) \/ AnswerRefused(h) \/ LoseConnection(h)
           \/ \E c \in Calls : CallStep(c) \/ Refused401(c)
           \/ \E t \in Tabs : \/ CloseTab(t) \/ SignOut(t)
                              \/ \E c \in Calls : OpenTab(t, c)
                              \/ \E h \in Handlers : SignIn(t, h)
           \/ Block \/ Unblock \/ \E t \in Tokens : Expire(t)
  <2>1. AuthTypeOK'
    BY <1>3, BrowserTyped DEF AuthInv
  <2>2. Calm
    BY <1>3, BrowserCalm
  <2> QED BY <2>1, <2>2, CalmShrinks
<1> QED BY <1>1, <1>2, <1>3, Zenon DEF AuthNext, Work

LEMMA Inductive == AuthSpec => []AuthInv
<1>1. AuthInv /\ [AuthNext]_vars => AuthInv'
  BY Step
<1> QED BY <1>1, InitOK, PTL DEF AuthSpec

\* Every reachable state of the sign-in of an account is well typed, for any number of tabs,
\* browsers and requests.
THEOREM AuthTypeCorrect == AuthSpec => []AuthTypeOK
<1>1. AuthInv => AuthTypeOK
  BY DEF AuthInv
<1> QED BY <1>1, Inductive, PTL

\* A refresh token is single-use, whatever overlaps: a sign-in never has two live tokens, nor
\* two rotations that may insert one, nor both (refresh-token.service.ts, rotate).
THEOREM RefreshTokensAreSingleUse == AuthSpec => []OneLiveEnd
<1>1. AuthInv => OneLiveEnd
  BY DEF AuthInv
<1> QED BY <1>1, Inductive, PTL

-----------------------------------------------------------------------------
(* The refinement.                                                         *)

chains == [f \in Tokens |-> ChainState(f)]

LEMMA StateOfChain ==
    ASSUME NEW f \in Tokens
    PROVE  /\ ~Rooted(f) => ChainState(f) = "none"
           /\ Rooted(f) /\ LiveIn(f) # {} => ChainState(f) = "live"
           /\ Rooted(f) /\ LiveIn(f) = {} /\ Creating(f) # {} => ChainState(f) = "rotating"
           /\ Rooted(f) /\ LiveIn(f) = {} /\ Creating(f) = {} => ChainState(f) = "dead"
    BY DEF ChainState, Rooted, Used

LEMMA StateOfChainNext ==
    \A f \in Tokens :
        /\ ~Rooted(f)' => ChainState(f)' = "none"
        /\ Rooted(f)' /\ LiveIn(f)' # {} => ChainState(f)' = "live"
        /\ Rooted(f)' /\ LiveIn(f)' = {} /\ Creating(f)' # {} => ChainState(f)' = "rotating"
        /\ Rooted(f)' /\ LiveIn(f)' = {} /\ Creating(f)' = {} => ChainState(f)' = "dead"
    BY DEF ChainState, Rooted, Used

LEMMA ChainStarts == AuthInit => Chain!ChainInit
<1> SUFFICES ASSUME AuthInit PROVE \A f \in Tokens : ChainState(f) = "none"
  BY DEF Chain!ChainInit
<1> QED BY DEF AuthInit, ChainState

\* The chains that lose their end all at once end.
LEMMA ShrinkingEnds == ASSUME AuthInv, Shrinks PROVE Chain!EndSome
<1> DEFINE S == {f \in Tokens : chains[f] \in {"live", "rotating"} /\ ChainState(f)' = "dead"}
<1>1. \A f \in Tokens : ChainState(f)' = IF f \in S THEN "dead" ELSE ChainState(f)
  <2>1. ASSUME NEW f \in Tokens PROVE ChainState(f)' = IF f \in S THEN "dead" ELSE ChainState(f)
    <3>1. /\ LiveIn(f)' \subseteq LiveIn(f) /\ Creating(f)' \subseteq Creating(f)
          /\ Rooted(f)' <=> Rooted(f)
          /\ LiveIn(f) = {} \/ Creating(f) = {}
      BY DEF Shrinks, AuthInv, OneLiveEnd
    <3>2. chains[f] = ChainState(f)
      BY DEF chains
    <3>3. CASE ~Rooted(f)
      BY <3>1, <3>2, <3>3, StateOfChain, StateOfChainNext
    <3>4. CASE Rooted(f) /\ LiveIn(f) # {}
      <4>1. ChainState(f) = "live" /\ Creating(f)' = {}
        BY <3>1, <3>4, StateOfChain
      <4> QED BY <3>1, <3>2, <3>4, <4>1, StateOfChainNext
    <3>5. CASE Rooted(f) /\ LiveIn(f) = {} /\ Creating(f) # {}
      <4>1. ChainState(f) = "rotating" /\ LiveIn(f)' = {}
        BY <3>1, <3>5, StateOfChain
      <4> QED BY <3>1, <3>2, <3>5, <4>1, StateOfChainNext
    <3>6. CASE Rooted(f) /\ LiveIn(f) = {} /\ Creating(f) = {}
      <4>1. ChainState(f) = "dead" /\ LiveIn(f)' = {} /\ Creating(f)' = {}
        BY <3>1, <3>6, StateOfChain
      <4> QED BY <3>1, <3>2, <3>6, <4>1, StateOfChainNext
    <3> QED BY <3>3, <3>4, <3>5, <3>6
  <2> QED BY <2>1
<1>2. S \in SUBSET {f \in Tokens : chains[f] \in {"live", "rotating"}}
  OBVIOUS
<1> HIDE DEF S
<1>3. chains' = [f \in Tokens |-> IF f \in S THEN "dead" ELSE chains[f]]
  BY <1>1 DEF chains
<1> QED BY <1>2, <1>3 DEF Chain!EndSome, chains

LEMMA OthersStay ==
    ASSUME NEW f \in Tokens, OnlyChain(f)
    PROVE  \A g \in Tokens \ {f} : ChainState(g)' = ChainState(g)
<1> SUFFICES ASSUME NEW g \in Tokens \ {f} PROVE ChainState(g)' = ChainState(g)
  OBVIOUS
<1>1. LiveIn(g)' = LiveIn(g) /\ Creating(g)' = Creating(g) /\ (Rooted(g)' <=> Rooted(g))
  BY DEF OnlyChain
<1>2. CASE ~Rooted(g)
  BY <1>1, <1>2, StateOfChain, StateOfChainNext
<1>3. CASE Rooted(g)
  <2>1. CASE LiveIn(g) # {}
    BY <1>1, <1>3, <2>1, StateOfChain, StateOfChainNext
  <2>2. CASE LiveIn(g) = {} /\ Creating(g) # {}
    BY <1>1, <1>3, <2>2, StateOfChain, StateOfChainNext
  <2>3. CASE LiveIn(g) = {} /\ Creating(g) = {}
    BY <1>1, <1>3, <2>3, StateOfChain, StateOfChainNext
  <2> QED BY <2>1, <2>2, <2>3
<1> QED BY <1>2, <1>3

LEMMA ChainStep ==
    ASSUME AuthInv, AuthInv', Shrinks \/ \E f \in Tokens : Retires(f) \/ Renews(f)
    PROVE  Chain!ChainNext
<1>1. CASE Shrinks
  BY <1>1, ShrinkingEnds DEF Chain!ChainNext
<1>2. ASSUME NEW f \in Tokens, Retires(f) PROVE Chain!Move(f, "live", "rotating")
  <2>1. ChainState(f) = "live" /\ ChainState(f)' = "rotating"
    BY <1>2, StateOfChain, StateOfChainNext DEF Retires
  <2>2. \A g \in Tokens \ {f} : ChainState(g)' = ChainState(g)
    BY <1>2, OthersStay DEF Retires
  <2> QED BY <2>1, <2>2 DEF Chain!Move
<1>3. ASSUME NEW f \in Tokens, Renews(f)
      PROVE  Chain!Move(f, "rotating", "live") \/ Chain!Move(f, "none", "live")
  <2>1. ChainState(f) \in {"rotating", "none"} /\ ChainState(f)' = "live"
    BY <1>3, StateOfChain, StateOfChainNext DEF Renews
  <2>2. \A g \in Tokens \ {f} : ChainState(g)' = ChainState(g)
    BY <1>3, OthersStay DEF Renews
  <2> QED BY <2>1, <2>2 DEF Chain!Move
<1> QED BY <1>1, <1>2, <1>3, Zenon DEF Chain!ChainNext

\* The tokens of a sign-in implement the chain: one end, handed over by rotation, and none
\* again once it was revoked, expired or lost with a failed insert.
THEOREM ChainRefined == AuthSpec => ChainSpec
<1>1. AuthInv /\ [AuthNext]_vars => AuthInv' /\ Chain!ChainNext
  BY Step, ChainStep
<1> QED BY <1>1, ChainStarts, Inductive, PTL DEF AuthSpec, ChainSpec, Chain!ChainSpec

-----------------------------------------------------------------------------
(* What a browser keeps.                                                   *)
(*                                                                         *)
(* A token that was made is in one place: the answer that carries it, and  *)
(* then one store.  A rotation that may still revoke a stored token is of  *)
(* that store's own browser, unless the store had a mishap.  So the token  *)
(* of a store without mishaps lives until its own rotation revokes it, and *)
(* that rotation, alone as it is, ends with an answer that is stored.      *)

\* The rotation has not revoked its token yet.
Rotating(h) == handler[h].kind = "refresh" /\ handler[h].pc \in {"verify", "revoke"}

TokensHaveOnePlace ==
    /\ \A h \in Handlers : handler[h].new # NoToken => handler[h].pc = "answer"
    /\ \A s, u \in Stores : store[s] = store[u] /\ store[s] # NoToken => s = u
    /\ \A g, h \in Handlers : handler[g].new = handler[h].new /\ handler[g].new # NoToken => g = h
    /\ \A h \in Handlers, s \in Stores : handler[h].new # NoToken => store[s] # handler[h].new
    /\ \A g, h \in Handlers : Rotating(g) /\ handler[h].new # NoToken => handler[g].tok # handler[h].new
    /\ \A g \in Handlers, s \in Stores :
          Rotating(g) /\ handler[g].tok = store[s] => g \in Of(s) \/ mishap[s]

\* The token of its store is revoked, and the next one is about to be stored.
Replacing(h) == handler[h].kind = "refresh" /\ handler[h].pc \in {"create", "answer"}

\* What is known of store s when nothing went wrong around it.
Honest(s) ==
    /\ signedIn[s] <=> store[s] # NoToken
    /\ \A g, h \in Of(s) : g = h
    /\ \A h \in Of(s) : handler[h].new # NoToken => Live(handler[h].new)
    /\ \A h \in Of(s) : handler[h].kind = "refresh" =>
          /\ store[s] # NoToken
          /\ Rotating(h) => handler[h].tok = store[s]
          /\ handler[h].pc = "answer" => handler[h].new # NoToken
    /\ store[s] # NoToken => Live(store[s]) \/ \E h \in Of(s) : Replacing(h)

StoreInv == TokensHaveOnePlace /\ \A s \in Stores : mishap[s] \/ Honest(s)

-----------------------------------------------------------------------------
(* What every step may do to a store it is not about.                      *)

\* The step leaves the tokens of store s alive: the one it keeps, and one on its way there.
SparesStore(s) ==
    /\ store[s] # NoToken /\ Live(store[s]) => token'[store[s]].state = "live"
    /\ \A h \in Of(s) : handler[h].new # NoToken /\ Live(handler[h].new)
                           => token'[handler[h].new].state = "live"

LEMMA PlacesKept ==
    ASSUME AuthInv, TokensHaveOnePlace,
           \A h \in Handlers : handler'[h].new # NoToken =>
               handler'[h].new = handler[h].new /\ handler'[h].pc = "answer",
           \A h \in Handlers : Rotating(h)' => Rotating(h) /\ handler'[h].tok = handler[h].tok,
           \A h \in Handlers, s \in Stores :
               Rotating(h)' /\ h \in Of(s) => h \in Of(s)' \/ mishap'[s],
           \A s \in Stores : store'[s] = store[s] \/ store'[s] = NoToken,
           \A s \in Stores : mishap[s] => mishap'[s]
    PROVE  TokensHaveOnePlace'
<1>1. \A h \in Handlers : Rotating(h) => handler[h].tok # NoToken
  BY AuthConstants DEF AuthInv, HandlerFits, Rotating
<1>2. ASSUME NEW g \in Handlers, NEW s \in Stores, Rotating(g)', handler'[g].tok = store'[s]
      PROVE  g \in Of(s)' \/ mishap'[s]
  BY <1>1, <1>2 DEF TokensHaveOnePlace
<1>3. ASSUME NEW h \in Handlers, NEW s \in Stores, handler'[h].new # NoToken
      PROVE  store'[s] # handler'[h].new
  BY <1>3 DEF TokensHaveOnePlace
<1>4. \A s, u \in Stores : store'[s] = store'[u] /\ store'[s] # NoToken => s = u
  BY DEF TokensHaveOnePlace
<1>5. \A g, h \in Handlers : handler'[g].new = handler'[h].new /\ handler'[g].new # NoToken => g = h
  BY DEF TokensHaveOnePlace
<1>6. \A g, h \in Handlers :
          Rotating(g)' /\ handler'[h].new # NoToken => handler'[g].tok # handler'[h].new
  BY DEF TokensHaveOnePlace
<1> QED BY <1>2, <1>3, <1>4, <1>5, <1>6 DEF TokensHaveOnePlace

LEMMA HonestKept ==
    ASSUME NEW s \in Stores, Honest(s),
           store'[s] = store[s], signedIn'[s] = signedIn[s],
           \A h \in Of(s)' : h \in Of(s) /\ SameHandler(h),
           \A h \in Of(s) : h \in Of(s)' \/ ~Replacing(h),
           store[s] # NoToken /\ Live(store[s]) => token'[store[s]].state = "live",
           \A h \in Of(s) : handler[h].new # NoToken => token'[handler[h].new].state = "live"
    PROVE  Honest(s)'
<1>1. \A g, h \in Of(s)' : g = h
  BY DEF Honest
<1>2. ASSUME NEW h \in Of(s)', handler'[h].new # NoToken
      PROVE  token'[handler'[h].new].state = "live"
  BY <1>2 DEF SameHandler
<1>3. ASSUME NEW h \in Of(s)', handler'[h].kind = "refresh"
      PROVE  /\ store'[s] # NoToken
             /\ Rotating(h)' => handler'[h].tok = store'[s]
             /\ handler'[h].pc = "answer" => handler'[h].new # NoToken
  BY <1>3 DEF Honest, SameHandler, Rotating
<1>4. store'[s] # NoToken => token'[store'[s]].state = "live" \/ \E h \in Of(s)' : Replacing(h)'
  BY DEF Honest, SameHandler, Replacing
<1> QED BY <1>1, <1>2, <1>3, <1>4 DEF Honest, Live

\* A request that stays under way stays with its store.
LEMMA OfStays ==
    ASSUME NEW h \in Handlers, OnlyMoves(h), Running(h), Running(h)',
           handler'[h].tab = handler[h].tab
    PROVE  \A s : Of(s)' = Of(s)
<1> SUFFICES ASSUME NEW s, NEW g \in Handlers PROVE g \in Of(s)' <=> g \in Of(s)
  BY DEF Of
<1> QED BY DEF Of, OnlyMoves, Running

\* A request that is over, or has lost its tab, leaves its store.
LEMMA OfLoses ==
    ASSUME NEW h \in Handlers, OnlyMoves(h), ~Running(h)' \/ handler'[h].tab = NoTab
    PROVE  \A s : Of(s)' = Of(s) \ {h}
<1> SUFFICES ASSUME NEW s, NEW g \in Handlers PROVE g \in Of(s)' <=> g \in Of(s) /\ g # h
  BY DEF Of
<1> QED BY DEF Of, OnlyMoves, Running

-----------------------------------------------------------------------------
(* The steps of a request.                                                 *)

\* A request that goes on, or answers, keeps its tab.
LEMMA StaysOn ==
    ASSUME AuthTypeOK, NEW h \in Handlers, Running(h), NEW pc \in Pcs \ {"idle"}, Advance(h, pc)
    PROVE  \A s : Of(s)' = Of(s)
<1>1. handler'[h].tab = handler[h].tab
  BY DEF Advance, AuthTypeOK, HandlerState
<1>2. handler'[h].pc = pc /\ OnlyMoves(h)
  BY Advances
<1> QED BY <1>1, <1>2, OfStays DEF Running

LEMMA StaysAnswering ==
    ASSUME AuthTypeOK, NEW h \in Handlers, Running(h), NEW new \in Tokens \cup {NoToken},
           handler' = [handler EXCEPT ![h] = [@ EXCEPT !.pc = "answer", !.new = new]]
    PROVE  \A s : Of(s)' = Of(s)
<1>1. handler'[h].tab = handler[h].tab
  BY DEF AuthTypeOK, HandlerState
<1>2. handler'[h].pc = "answer" /\ OnlyMoves(h)
  BY Answers, Zenon
<1> QED BY <1>1, <1>2, OfStays DEF Running

LEMMA RefusedHere ==
    ASSUME AuthTypeOK, NEW h \in Handlers, Running(h), Refuse(h)
    PROVE  /\ handler'[h].pc = "answer"
           /\ handler'[h].kind = handler[h].kind
           /\ handler'[h].new = NoToken
           /\ OnlyMoves(h)
           /\ \A s : Of(s)' = Of(s)
<1>1. /\ NoToken \in Tokens \cup {NoToken}
      /\ handler' = [handler EXCEPT ![h] = [@ EXCEPT !.pc = "answer", !.new = NoToken]]
  BY DEF Refuse
<1>2. \A s : Of(s)' = Of(s)
  BY <1>1, StaysAnswering, Zenon
<1>3. /\ handler'[h].pc = "answer" /\ handler'[h].kind = handler[h].kind
      /\ handler'[h].new = NoToken /\ OnlyMoves(h)
  BY <1>1, Answers, Zenon
<1> QED BY <1>2, <1>3

\* A request that goes on, or is refused, without a change of the tokens: what remains to
\* be shown is that an honest store is not the one whose rotation is refused.
LEMMA InsideKeeps ==
    ASSUME AuthInv, StoreInv, NEW h \in Handlers, Running(h), UNCHANGED <<store, signedIn>>,
           OnlyMoves(h), \A s \in Stores : Of(s)' = Of(s) /\ (mishap[s] => mishap'[s]),
           handler'[h].kind = handler[h].kind,
           handler'[h].new # NoToken => handler'[h].new = handler[h].new /\ handler'[h].pc = "answer",
           Rotating(h)' => Rotating(h) /\ handler'[h].tok = handler[h].tok,
           \A s \in Stores : ~mishap'[s] /\ h \notin Of(s) => SparesStore(s),
           \A s \in Stores : ~mishap'[s] /\ h \in Of(s) =>
               /\ handler'[h].new # NoToken => token'[handler'[h].new].state = "live"
               /\ handler[h].kind = "refresh" /\ handler'[h].pc = "answer" => handler'[h].new # NoToken
               /\ store[s] # NoToken =>
                     \/ Live(store[s]) /\ token'[store[s]].state = "live" /\ ~Replacing(h)
                     \/ Replacing(h)'
    PROVE  StoreInv'
<1>1. TokensHaveOnePlace'
  <2>1. \A g \in Handlers : handler'[g].new # NoToken =>
            handler'[g].new = handler[g].new /\ handler'[g].pc = "answer"
    BY DEF OnlyMoves, StoreInv, TokensHaveOnePlace
  <2>2. \A g \in Handlers : Rotating(g)' => Rotating(g) /\ handler'[g].tok = handler[g].tok
    BY DEF OnlyMoves, Rotating
  <2> QED BY <2>1, <2>2, PlacesKept DEF StoreInv
<1>2. ASSUME NEW s \in Stores, ~mishap'[s] PROVE Honest(s)'
  <2>1. Honest(s) /\ Of(s)' = Of(s)
    BY <1>2 DEF StoreInv
  <2>2. CASE h \notin Of(s)
    <3>1. \A g \in Of(s)' : g \in Of(s) /\ SameHandler(g)
      BY <2>1, <2>2 DEF OnlyMoves, SameHandler, Of
    <3>2. \A g \in Of(s) : handler[g].new # NoToken => token'[handler[g].new].state = "live"
      BY <1>2, <2>1, <2>2 DEF Honest, SparesStore
    <3>3. store[s] # NoToken /\ Live(store[s]) => token'[store[s]].state = "live"
      BY <1>2, <2>2 DEF SparesStore
    <3> QED BY <2>1, <3>1, <3>2, <3>3, HonestKept
  <2>3. CASE h \in Of(s)
    <3>1. \A g \in Of(s) : g = h
      BY <2>1, <2>3 DEF Honest
    <3>2. store'[s] # NoToken =>
            token'[store'[s]].state = "live" \/ \E g \in Of(s)' : Replacing(g)'
      BY <1>2, <2>1, <2>3
    <3>3. handler'[h].kind = "refresh" =>
            /\ store'[s] # NoToken
            /\ Rotating(h)' => handler'[h].tok = store'[s]
            /\ handler'[h].pc = "answer" => handler'[h].new # NoToken
      BY <1>2, <2>1, <2>3 DEF Honest
    <3>4. handler'[h].new # NoToken => token'[handler'[h].new].state = "live"
      BY <1>2, <2>3
    <3>5. signedIn'[s] <=> store'[s] # NoToken
      BY <2>1 DEF Honest
    <3> QED BY <2>1, <3>1, <3>2, <3>3, <3>4, <3>5 DEF Honest, Live
  <2> QED BY <2>2, <2>3
<1> QED BY <1>1, <1>2 DEF StoreInv

\* An honest store whose request does not replace its token has a live one, if any.
LEMMA HonestLive ==
    ASSUME StoreInv, NEW s \in Stores, ~mishap[s], NEW h \in Of(s), ~Replacing(h),
           store[s] # NoToken
    PROVE  Live(store[s])
    BY DEF StoreInv, Honest

\* An honest store's rotation is of its own token, which is live.
LEMMA HonestRotation ==
    ASSUME StoreInv, NEW s \in Stores, ~mishap[s], NEW h \in Of(s), Rotating(h)
    PROVE  handler[h].tok = store[s] /\ store[s] # NoToken /\ Live(store[s])
<1>1. handler[h].tok = store[s] /\ store[s] # NoToken
  BY DEF StoreInv, Honest, Rotating
<1>2. ~Replacing(h)
  BY DEF Rotating, Replacing
<1> QED BY <1>1, <1>2, HonestLive

\* A request that does not touch the tokens spares every store.
LEMMA Spared == ASSUME UNCHANGED token PROVE \A s \in Stores : SparesStore(s)
    BY DEF SparesStore, Live

LEMMA MadeWhenAnswering ==
    ASSUME StoreInv, NEW h \in Handlers, handler[h].pc # "answer"
    PROVE  handler[h].new = NoToken
    BY DEF StoreInv, TokensHaveOnePlace

LEMMA VerifyKeeps ==
    ASSUME AuthInv, StoreInv, NEW h \in Handlers, Verify(h)
    PROVE  StoreInv'
<1>1. /\ handler[h].pc = "verify" /\ handler[h].kind = "refresh" /\ Running(h) /\ Rotating(h)
      /\ UNCHANGED <<token, store, signedIn, mishap>> /\ AuthTypeOK
  BY DEF Verify, Running, Rotating, client, AuthInv
<1>2. handler[h].new = NoToken
  BY <1>1, MadeWhenAnswering
<1>3. CASE Live(handler[h].tok)
  <2>1. Advance(h, "revoke")
    BY <1>3 DEF Verify
  <2>2. /\ handler'[h].pc = "revoke" /\ handler'[h].kind = "refresh"
        /\ handler'[h].tok = handler[h].tok /\ handler'[h].new = NoToken
        /\ OnlyMoves(h) /\ \A s : Of(s)' = Of(s)
    BY <1>1, <1>2, <2>1, Advances, StaysOn DEF Pcs
  <2>3. \A s \in Stores : ~mishap[s] /\ h \in Of(s) => Live(store[s])
    BY <1>1, HonestRotation
  <2> QED BY <1>1, <2>2, <2>3, Spared, InsideKeeps DEF Rotating, Replacing, Live
<1>4. CASE ~Live(handler[h].tok)
  <2>1. Refuse(h)
    BY <1>4 DEF Verify
  <2>2. /\ handler'[h].pc = "answer" /\ handler'[h].kind = "refresh"
        /\ handler'[h].new = NoToken
        /\ OnlyMoves(h) /\ \A s : Of(s)' = Of(s)
    BY <1>1, <2>1, RefusedHere
  <2>3. \A s \in Stores : mishap[s] \/ h \notin Of(s)
    BY <1>1, <1>4, HonestRotation
  <2> QED BY <1>1, <2>2, <2>3, Spared, InsideKeeps DEF Rotating
<1> QED BY <1>3, <1>4

\* A sign-in that goes on, or is refused, changes nothing for its store yet.
LEMMA SignInKeeps ==
    ASSUME AuthInv, StoreInv, NEW h \in Handlers, handler[h].kind = "signin",
           VerifyIdToken(h) \/ UpsertUser(h)
    PROVE  StoreInv'
<1>1. /\ Running(h) /\ UNCHANGED <<token, store, signedIn, mishap>> /\ AuthTypeOK
      /\ handler[h].pc # "answer"
      /\ \/ Advance(h, "upsert") \/ Advance(h, "create") \/ Refuse(h)
  BY DEF VerifyIdToken, UpsertUser, Running, client, AuthInv
<1>2. handler[h].new = NoToken /\ ~Replacing(h) /\ ~Rotating(h)
  BY <1>1, MadeWhenAnswering DEF Replacing, Rotating
<1>3. /\ handler'[h].kind = "signin" /\ handler'[h].new = NoToken
      /\ OnlyMoves(h) /\ \A s : Of(s)' = Of(s)
  <2>1. CASE Refuse(h)
    BY <1>1, <2>1, RefusedHere
  <2>2. ASSUME NEW pc \in {"upsert", "create"}, Advance(h, pc) 
        PROVE  /\ handler'[h].kind = "signin" /\ handler'[h].new = NoToken
               /\ OnlyMoves(h) /\ \A s : Of(s)' = Of(s)
    BY <1>1, <1>2, <2>2, Advances, StaysOn DEF Pcs
  <2> QED BY <1>1, <2>1, <2>2
<1>4. \A s \in Stores : ~mishap[s] /\ h \in Of(s) /\ store[s] # NoToken => Live(store[s])
  BY <1>2, HonestLive
<1> QED BY <1>1, <1>2, <1>3, <1>4, Spared, InsideKeeps DEF Rotating, Live

LEMMA RevokeKeeps ==
    ASSUME AuthInv, StoreInv, NEW h \in Handlers, Revoke(h)
    PROVE  StoreInv'
<1> DEFINE tok == handler[h].tok
<1>1. /\ handler[h].pc = "revoke" /\ handler[h].kind = "refresh" /\ Running(h) /\ Rotating(h)
      /\ UNCHANGED <<store, signedIn, mishap>> /\ AuthTypeOK /\ tok \in Tokens
  BY DEF Revoke, Running, Rotating, client, AuthInv, HandlerFits
<1>2. handler[h].new = NoToken
  BY <1>1, MadeWhenAnswering
<1>3. CASE StillLive(h)
  <2>1. Advance(h, "create") /\ \A t \in Tokens \ {tok} : token'[t] = token[t]
    BY <1>1, <1>3 DEF Revoke, AuthTypeOK
  <2>2. /\ handler'[h].pc = "create" /\ handler'[h].kind = "refresh"
        /\ handler'[h].new = NoToken
        /\ OnlyMoves(h) /\ \A s : Of(s)' = Of(s)
    BY <1>1, <1>2, <2>1, Advances, StaysOn DEF Pcs
  <2>3. ASSUME NEW s \in Stores, ~mishap[s], h \notin Of(s) PROVE SparesStore(s)
    <3>1. store[s] # tok /\ \A g \in Handlers : handler[g].new # NoToken => handler[g].new # tok
      BY <1>1, <2>3 DEF StoreInv, TokensHaveOnePlace
    <3>2. store[s] # NoToken /\ Live(store[s]) => token'[store[s]].state = "live"
      BY <1>1, <2>1, <3>1 DEF Live, AuthTypeOK
    <3>3. \A g \in Of(s) : handler[g].new # NoToken /\ Live(handler[g].new)
                               => token'[handler[g].new].state = "live"
      BY <1>1, <2>1, <3>1 DEF Live, AuthTypeOK, HandlerState, Of
    <3> QED BY <3>2, <3>3 DEF SparesStore
  <2> QED BY <1>1, <2>2, <2>3, InsideKeeps DEF Rotating, Replacing
<1>4. CASE ~StillLive(h)
  <2>1. Refuse(h) /\ UNCHANGED token
    BY <1>4 DEF Revoke
  <2>2. /\ handler'[h].pc = "answer" /\ handler'[h].kind = "refresh"
        /\ handler'[h].new = NoToken
        /\ OnlyMoves(h) /\ \A s : Of(s)' = Of(s)
    BY <1>1, <2>1, RefusedHere
  <2>3. \A s \in Stores : mishap[s] \/ h \notin Of(s)
    BY <1>1, <1>4, HonestRotation DEF StillLive, Live
  <2> QED BY <1>1, <2>1, <2>2, <2>3, Spared, InsideKeeps DEF Rotating
<1> QED BY <1>3, <1>4

\* A rotation that loses its insert is a mishap of its store.
LEMMA CreateFailsKeeps ==
    ASSUME AuthInv, StoreInv, NEW h \in Handlers, CreateFails(h)
    PROVE  StoreInv'
<1>1. /\ handler[h].pc = "create" /\ Running(h) /\ ~Rotating(h)
      /\ UNCHANGED <<token, store, signedIn>> /\ AuthTypeOK /\ Refuse(h)
  BY DEF CreateFails, Running, Rotating, client, AuthInv
<1>2. /\ handler'[h].pc = "answer" /\ handler'[h].kind = handler[h].kind
      /\ handler'[h].new = NoToken
      /\ OnlyMoves(h) /\ \A s : Of(s)' = Of(s)
  BY <1>1, RefusedHere
<1>3. \A s \in Stores : mishap[s] => mishap'[s]
  BY <1>1 DEF CreateFails, WrongIf, AuthTypeOK
<1>4. \A s \in Stores : ~mishap'[s] /\ h \in Of(s) => handler[h].kind # "refresh"
  BY <1>1 DEF CreateFails, WrongIf, AuthTypeOK, Of
<1>5. \A s \in Stores : ~mishap'[s] /\ h \in Of(s) /\ store[s] # NoToken => Live(store[s])
  BY <1>3, <1>4, HonestLive DEF Replacing
<1>6. \A s \in Stores : ~mishap'[s] /\ h \in Of(s) => ~Replacing(h)
  BY <1>4 DEF Replacing
<1> QED BY <1>1, <1>2, <1>3, <1>4, <1>5, <1>6, Spared, InsideKeeps DEF Rotating, Live

LEMMA CreateKeeps ==
    ASSUME AuthInv, StoreInv, NEW h \in Handlers, NEW new \in Tokens, Create(h, new)
    PROVE  StoreInv'
<1>1. /\ handler[h].pc = "create" /\ Running(h) /\ new # NoToken
      /\ UNCHANGED <<store, signedIn, mishap>> /\ AuthTypeOK
  BY AuthConstants DEF Create, Running, client, AuthInv
<1>2. /\ handler'[h].pc = "answer" /\ handler'[h].kind = handler[h].kind
      /\ handler'[h].new = new /\ OnlyMoves(h)
  BY <1>1, Answers, Zenon DEF Create
<1>3. \A s : Of(s)' = Of(s)
  BY <1>1, StaysAnswering, Zenon DEF Create
<1>4. /\ token'[new].state = "live"
      /\ \A t \in Tokens \ {new} : token'[t] = token[t]
  BY <1>1 DEF Create, AuthTypeOK
<1>5. /\ \A s \in Stores : store[s] # new
      /\ \A g \in Handlers : handler[g].new # new /\ (Rotating(g) => handler[g].tok # new)
  BY <1>1 DEF Create, AuthInv, HandlerFits, Used, Rotating
<1>6. TokensHaveOnePlace'
  <2>1. ASSUME NEW g \in Handlers
        PROVE  /\ handler'[g].new # NoToken => handler'[g].pc = "answer"
               /\ handler'[g].new # handler[g].new => g = h
               /\ Rotating(g)' => Rotating(g) /\ handler'[g].tok = handler[g].tok
               /\ g # h => handler'[g].new # new
    BY <1>2, <1>5 DEF OnlyMoves, Rotating, StoreInv, TokensHaveOnePlace
  <2>2. \A g \in Handlers, s \in Stores :
            Rotating(g)' /\ handler'[g].tok = store'[s] => g \in Of(s)' \/ mishap'[s]
    BY <1>1, <1>3, <2>1 DEF StoreInv, TokensHaveOnePlace
  <2>3. \A f, g \in Handlers : handler'[f].new = handler'[g].new /\ handler'[f].new # NoToken => f = g
    BY <1>2, <2>1 DEF StoreInv, TokensHaveOnePlace
  <2>4. \A g \in Handlers, s \in Stores : handler'[g].new # NoToken => store'[s] # handler'[g].new
    BY <1>1, <1>2, <1>5, <2>1 DEF StoreInv, TokensHaveOnePlace
  <2>5. \A f, g \in Handlers :
            Rotating(f)' /\ handler'[g].new # NoToken => handler'[f].tok # handler'[g].new
    BY <1>2, <1>5, <2>1 DEF StoreInv, TokensHaveOnePlace
  <2>6. \A s, u \in Stores : store'[s] = store'[u] /\ store'[s] # NoToken => s = u
    BY <1>1 DEF StoreInv, TokensHaveOnePlace
  <2> QED BY <2>1, <2>2, <2>3, <2>4, <2>5, <2>6 DEF TokensHaveOnePlace
<1>7. ASSUME NEW s \in Stores, ~mishap'[s] PROVE Honest(s)'
  <2>1. Honest(s) /\ Of(s)' = Of(s)
    BY <1>1, <1>3, <1>7 DEF StoreInv
  <2>2. \A t \in Tokens : Live(t) => token'[t].state = "live"
    BY <1>4 DEF Live
  <2>3. store[s] # NoToken => store[s] \in Tokens
    BY <1>1 DEF AuthTypeOK
  <2>4. CASE h \notin Of(s)
    <3>1. \A g \in Of(s)' : g \in Of(s) /\ SameHandler(g)
      BY <1>2, <2>1, <2>4 DEF OnlyMoves, SameHandler, Of
    <3>2. \A g \in Of(s) : handler[g].new # NoToken => token'[handler[g].new].state = "live"
      BY <1>1, <2>1, <2>2 DEF Honest, Of, AuthTypeOK, HandlerState
    <3>3. store[s] # NoToken /\ Live(store[s]) => token'[store[s]].state = "live"
      BY <2>2, <2>3
    <3> QED BY <1>1, <2>1, <3>1, <3>2, <3>3, HonestKept
  <2>5. CASE h \in Of(s)
    <3>1. \A g \in Of(s) : g = h
      BY <2>1, <2>5 DEF Honest
    <3>2. store'[s] # NoToken =>
            token'[store'[s]].state = "live" \/ \E g \in Of(s)' : Replacing(g)'
      <4>1. CASE handler[h].kind = "refresh"
        BY <1>2, <2>1, <2>5, <4>1 DEF Replacing
      <4>2. CASE handler[h].kind # "refresh"
        BY <1>1, <1>7, <2>2, <2>3, <2>5, <4>2, HonestLive DEF Replacing
      <4> QED BY <4>1, <4>2
    <3>3. handler'[h].kind = "refresh" => store'[s] # NoToken
      BY <1>1, <1>2, <2>1, <2>5 DEF Honest
    <3>4. signedIn'[s] <=> store'[s] # NoToken
      BY <1>1, <2>1 DEF Honest
    <3> QED BY <1>1, <1>2, <1>4, <2>1, <3>1, <3>2, <3>3, <3>4 DEF Honest, Live, Rotating
  <2> QED BY <2>4, <2>5
<1> QED BY <1>6, <1>7 DEF StoreInv

-----------------------------------------------------------------------------
(* The end of a request.                                                   *)

LEMMA Ends ==
    ASSUME AuthTypeOK, NEW h \in Handlers, Done(h)
    PROVE  /\ handler'[h] = IdleHandler
           /\ OnlyMoves(h)
           /\ handler'[h].new = NoToken /\ ~Running(h)' /\ ~Rotating(h)'
           /\ \A s : Of(s)' = Of(s) \ {h}
<1>1. handler'[h] = IdleHandler /\ OnlyMoves(h)
  BY DEF Done, AuthTypeOK, OnlyMoves
<1>2. handler'[h].new = NoToken /\ ~Running(h)' /\ ~Rotating(h)'
  BY <1>1 DEF IdleHandler, Running, Rotating
<1> QED BY <1>1, <1>2, OfLoses

\* An answer that is stored: its token goes from the one place to the other.
LEMMA AnswerOkKeeps ==
    ASSUME AuthInv, StoreInv, NEW h \in Handlers, AnswerOk(h)
    PROVE  StoreInv'
<1> DEFINE new == handler[h].new
           own == StoreOf[handler[h].tab]
<1>1. /\ AuthTypeOK /\ handler[h].tab \in Tabs /\ own \in Stores /\ new \in Tokens
      /\ new # NoToken /\ handler[h].pc = "answer" /\ h \in Of(own)
      /\ UNCHANGED <<token, mishap>>
  BY AuthConstants DEF AnswerOk, AuthInv, AuthTypeOK, HandlerState, Of, Running
<1>2. /\ handler'[h].new = NoToken /\ ~Rotating(h)' /\ OnlyMoves(h)
      /\ \A s : Of(s)' = Of(s) \ {h}
  BY <1>1, Ends DEF AnswerOk
<1>3. /\ store'[own] = new
      /\ \A s \in Stores \ {own} : store'[s] = store[s]
  BY <1>1 DEF AnswerOk, Keep, AuthTypeOK
<1>4. /\ handler[h].kind = "signin" => signedIn'[own] = TRUE
      /\ handler[h].kind # "signin" => signedIn'[own] = signedIn[own]
      /\ \A s \in Stores \ {own} : signedIn'[s] = signedIn[s]
  BY <1>1 DEF AnswerOk, FinishSignIn, FinishRefresh, AuthTypeOK
<1>5. \A g \in Handlers \ {h} : handler'[g] = handler[g]
  BY <1>2 DEF OnlyMoves
<1>6. TokensHaveOnePlace'
  <2>1. \A s, u \in Stores : store'[s] = store'[u] /\ store'[s] # NoToken => s = u
    BY <1>1, <1>3 DEF StoreInv, TokensHaveOnePlace
  <2>2. \A g \in Handlers, s \in Stores : handler'[g].new # NoToken => store'[s] # handler'[g].new
    BY <1>1, <1>2, <1>3, <1>5 DEF StoreInv, TokensHaveOnePlace
  <2>3. \A g \in Handlers, s \in Stores :
            Rotating(g)' /\ handler'[g].tok = store'[s] => g \in Of(s)' \/ mishap'[s]
    <3> SUFFICES ASSUME NEW g \in Handlers, NEW s \in Stores,
                        Rotating(g)', handler'[g].tok = store'[s], ~mishap'[s]
                 PROVE  g \in Of(s)'
      OBVIOUS
    <3>1. g # h /\ Rotating(g) /\ handler[g].tok = store'[s]
      BY <1>2, <1>5 DEF Rotating
    <3>2. s # own
      BY <1>1, <1>3, <3>1 DEF StoreInv, TokensHaveOnePlace
    <3> QED BY <1>1, <1>2, <1>3, <3>1, <3>2 DEF StoreInv, TokensHaveOnePlace
  <2>4. /\ \A g \in Handlers : handler'[g].new # NoToken => handler'[g].pc = "answer"
        /\ \A f, g \in Handlers :
              handler'[f].new = handler'[g].new /\ handler'[f].new # NoToken => f = g
    BY <1>2, <1>5 DEF StoreInv, TokensHaveOnePlace
  <2>5. \A f, g \in Handlers :
            Rotating(f)' /\ handler'[g].new # NoToken => handler'[f].tok # handler'[g].new
    BY <1>2, <1>5 DEF StoreInv, TokensHaveOnePlace, Rotating
  <2> QED BY <2>1, <2>2, <2>3, <2>4, <2>5 DEF TokensHaveOnePlace
<1>7. ASSUME NEW s \in Stores, ~mishap'[s] PROVE Honest(s)'
  <2>1. Honest(s)
    BY <1>1, <1>7 DEF StoreInv
  <2>2. CASE s = own
    <3>1. Of(s)' = {}
      BY <1>1, <1>2, <2>1, <2>2 DEF Honest
    <3>2. token'[store'[s]].state = "live"
      BY <1>1, <1>3, <2>1, <2>2 DEF Honest, Live
    <3>3. signedIn'[s] <=> store'[s] # NoToken
      BY <1>1, <1>3, <1>4, <2>1, <2>2 DEF Honest, AuthTypeOK, HandlerState
    <3> QED BY <3>1, <3>2, <3>3 DEF Honest, Live
  <2>3. CASE s # own
    <3>1. h \notin Of(s)
      BY <2>3 DEF Of
    <3>2. \A g \in Of(s)' : g \in Of(s) /\ SameHandler(g)
      BY <1>2, <1>5, <3>1 DEF Of, SameHandler
    <3>3. \A g \in Of(s) : handler[g].new # NoToken => token'[handler[g].new].state = "live"
      BY <1>1, <2>1 DEF Honest, Live
    <3> QED BY <1>1, <1>2, <1>3, <1>4, <2>1, <2>3, <3>1, <3>2, <3>3, HonestKept DEF Live
  <2> QED BY <2>2, <2>3
<1> QED BY <1>6, <1>7 DEF StoreInv

\* A request that ends without tokens, or loses its tab.
LEMMA LeavingKeeps ==
    ASSUME AuthInv, StoreInv, NEW h \in Handlers, UNCHANGED token, OnlyMoves(h),
           ~Running(h)' \/ handler'[h].tab = NoTab,
           handler'[h].new # NoToken => handler'[h].new = handler[h].new /\ handler'[h].pc = "answer",
           Rotating(h)' => Rotating(h) /\ handler'[h].tok = handler[h].tok,
           \A s \in Stores : mishap[s] => mishap'[s],
           \A s \in Stores : Rotating(h)' /\ h \in Of(s) => mishap'[s],
           \A s \in Stores : store'[s] = store[s] \/ store'[s] = NoToken,
           \A s \in Stores : ~mishap'[s] =>
               /\ store'[s] = store[s] /\ signedIn'[s] = signedIn[s]
               /\ h \in Of(s) => ~Replacing(h)
    PROVE  StoreInv'
<1>1. \A s : Of(s)' = Of(s) \ {h}
  BY OfLoses
<1>2. TokensHaveOnePlace'
  <2>1. \A g \in Handlers : handler'[g].new # NoToken =>
            handler'[g].new = handler[g].new /\ handler'[g].pc = "answer"
    BY DEF OnlyMoves, StoreInv, TokensHaveOnePlace
  <2>2. \A g \in Handlers : Rotating(g)' => Rotating(g) /\ handler'[g].tok = handler[g].tok
    BY DEF OnlyMoves, Rotating
  <2>3. \A g \in Handlers, s \in Stores :
            Rotating(g)' /\ g \in Of(s) => g \in Of(s)' \/ mishap'[s]
    BY <1>1
  <2> QED BY <2>1, <2>2, <2>3, PlacesKept DEF StoreInv
<1>3. ASSUME NEW s \in Stores, ~mishap'[s] PROVE Honest(s)'
  <2>1. Honest(s)
    BY <1>3 DEF StoreInv
  <2>2. \A g \in Of(s)' : g \in Of(s) /\ SameHandler(g)
    BY <1>1 DEF OnlyMoves, SameHandler, Of
  <2>3. \A g \in Of(s) : g \in Of(s)' \/ ~Replacing(g)
    BY <1>1, <1>3
  <2>4. \A g \in Of(s) : handler[g].new # NoToken => token'[handler[g].new].state = "live"
    BY <2>1 DEF Honest, Live
  <2> QED BY <1>3, <2>1, <2>2, <2>3, <2>4, HonestKept DEF Live
<1> QED BY <1>2, <1>3 DEF StoreInv

LEMMA AnswerRefusedKeeps ==
    ASSUME AuthInv, StoreInv, NEW h \in Handlers, AnswerRefused(h)
    PROVE  StoreInv'
<1> DEFINE own == StoreOf[handler[h].tab]
<1>1. /\ AuthTypeOK /\ own \in Stores /\ h \in Of(own) /\ Done(h)
      /\ handler[h].pc = "answer" /\ handler[h].new = NoToken
      /\ UNCHANGED <<token, signedIn, mishap>>
  BY AuthConstants DEF AnswerRefused, AuthInv, AuthTypeOK, HandlerState, Of, Running
<1>2. handler[h].kind = "refresh" => mishap[own]
  BY <1>1 DEF StoreInv, Honest
<1>3. \A s \in Stores : store'[s] = store[s] \/ (s = own /\ store'[s] = NoToken /\ mishap[own])
  <2>1. CASE handler[h].kind = "signin"
    BY <2>1 DEF AnswerRefused
  <2>2. CASE handler[h].kind # "signin"
    <3>1. handler[h].kind = "refresh"
      BY <1>1, <2>2 DEF AuthTypeOK, HandlerState
    <3>2. store' = [store EXCEPT ![own] = NoToken]
      BY <2>2 DEF AnswerRefused, Keep
    <3> QED BY <1>1, <1>2, <3>1, <3>2 DEF AuthTypeOK
  <2> QED BY <2>1, <2>2
<1>4. \A s \in Stores : ~mishap[s] /\ h \in Of(s) => ~Replacing(h)
  BY <1>1, <1>2 DEF Of, Replacing
<1> QED BY <1>1, <1>3, <1>4, Ends, LeavingKeeps

LEMMA ForgetKeeps ==
    ASSUME AuthInv, StoreInv, NEW h \in Handlers, Forget(h)
    PROVE  StoreInv'
<1>1. /\ AuthTypeOK /\ Done(h) /\ UNCHANGED <<token, store, signedIn, mishap>>
      /\ \A s : h \notin Of(s)
  BY DEF Forget, client, AuthInv, Of
<1> QED BY <1>1, Ends, LeavingKeeps

\* A refresh that loses its connection is a mishap; a sign-in leaves the store as it was.
LEMMA LoseConnectionKeeps ==
    ASSUME AuthInv, StoreInv, NEW h \in Handlers, LoseConnection(h)
    PROVE  StoreInv'
<1> DEFINE own == StoreOf[handler[h].tab]
           q == [handler[h] EXCEPT !.tab = NoTab]
<1>1. /\ AuthTypeOK /\ own \in Stores /\ Running(h)
      /\ UNCHANGED <<token, signedIn>> /\ handler[h] \in HandlerState
  BY AuthConstants DEF LoseConnection, AuthInv, AuthTypeOK, HandlerState
<1>2. q.tab = NoTab /\ q.pc = handler[h].pc /\ q.kind = handler[h].kind
      /\ q.tok = handler[h].tok /\ q.new = handler[h].new
  BY <1>1, HandlerOrphaned DEF HandlerState
<1>3. handler' = [handler EXCEPT ![h] = q]
  BY DEF LoseConnection
<1> HIDE DEF q
<1>4. handler'[h] = q /\ OnlyMoves(h)
  BY <1>1, <1>3 DEF AuthTypeOK, OnlyMoves
<1>5. Rotating(h)' <=> Rotating(h)
  BY <1>2, <1>4 DEF Rotating
<1>6. handler[h].new # NoToken => handler[h].pc = "answer"
  BY DEF StoreInv, TokensHaveOnePlace
<1>7. \A s \in Stores :
        /\ mishap[s] => mishap'[s]
        /\ handler[h].kind = "refresh" => mishap'[own]
        /\ store'[s] = store[s] \/ (s = own /\ store'[s] = NoToken /\ mishap'[own])
  <2>1. CASE handler[h].kind = "signin"
    BY <2>1 DEF LoseConnection
  <2>2. CASE handler[h].kind # "signin"
    <3>1. mishap' = [mishap EXCEPT ![own] = TRUE]
      BY <2>2 DEF LoseConnection, Wrong
    <3>2. store' = store \/ store' = [store EXCEPT ![own] = NoToken]
      BY <2>2, Zenon DEF LoseConnection, Failed, Keep
    <3> QED BY <1>1, <3>1, <3>2 DEF AuthTypeOK
  <2> QED BY <2>1, <2>2
<1>8. \A s \in Stores : h \in Of(s) => s = own
  BY DEF Of
<1> QED BY <1>1, <1>2, <1>4, <1>5, <1>6, <1>7, <1>8, LeavingKeeps DEF Rotating, Replacing

-----------------------------------------------------------------------------
(* The steps of the browser.                                               *)

\* What does not touch the requests, and kills no token of a store without a mishap.
LEMMA QuietKeeps ==
    ASSUME AuthInv, StoreInv, UNCHANGED handler,
           \A s \in Stores : mishap[s] => mishap'[s],
           \A s \in Stores : store'[s] = store[s] \/ store'[s] = NoToken,
           \A s \in Stores : ~mishap'[s] =>
               \/ store'[s] = store[s] /\ signedIn'[s] = signedIn[s] /\ SparesStore(s)
               \/ store'[s] = NoToken /\ signedIn'[s] = FALSE /\ Of(s) = {}
    PROVE  StoreInv'
<1>1. \A s : Of(s)' = Of(s)
  BY DEF Of, Running
<1>2. \A g \in Handlers : SameHandler(g) /\ (Rotating(g)' <=> Rotating(g))
  BY DEF SameHandler, Rotating
<1>3. TokensHaveOnePlace'
  <2>1. \A g \in Handlers : handler'[g].new # NoToken =>
            handler'[g].new = handler[g].new /\ handler'[g].pc = "answer"
    BY DEF StoreInv, TokensHaveOnePlace
  <2> QED BY <1>1, <1>2, <2>1, PlacesKept DEF StoreInv
<1>4. ASSUME NEW s \in Stores, ~mishap'[s] PROVE Honest(s)'
  <2>1. Honest(s)
    BY <1>4 DEF StoreInv
  <2>2. CASE store'[s] = store[s] /\ signedIn'[s] = signedIn[s] /\ SparesStore(s)
    <3>1. \A g \in Of(s) : handler[g].new # NoToken => token'[handler[g].new].state = "live"
      BY <2>1, <2>2 DEF Honest, SparesStore
    <3> QED BY <1>1, <1>2, <2>1, <2>2, <3>1, HonestKept DEF SparesStore, Of
  <2>3. CASE store'[s] = NoToken /\ signedIn'[s] = FALSE /\ Of(s) = {}
    BY <1>1, <2>3 DEF Honest
  <2> QED BY <1>4, <2>2, <2>3
<1> QED BY <1>3, <1>4 DEF StoreInv

LEMMA QuietSteps ==
    ASSUME AuthInv, StoreInv,
           \/ \E c \in Calls : CallStep(c)
           \/ \E t \in Tabs : SignOut(t) \/ \E c \in Calls : OpenTab(t, c)
           \/ Block \/ Unblock \/ \E t \in Tokens : Expire(t)
    PROVE  StoreInv'
<1> USE AuthConstants DEF AuthInv, AuthTypeOK
<1>1. ASSUME NEW c \in Calls, Serve(c) PROVE StoreInv'
  <2>1. UNCHANGED <<token, handler, store, signedIn, mishap>>
    BY <1>1 DEF Serve
  <2> QED BY <2>1, Spared, QuietKeeps
<1>2. ASSUME NEW c \in Calls, CallFails(c) PROVE StoreInv'
  <2> DEFINE own == StoreOf[call[c].tab]
  <2>1. UNCHANGED <<token, handler, signedIn>>
    BY <1>2 DEF CallFails
  <2>2. \A s \in Stores :
          /\ mishap[s] => mishap'[s]
          /\ store'[s] = store[s] \/ (store'[s] = NoToken /\ mishap'[s])
    <3>1. /\ store' = [store EXCEPT ![own] = NoToken]
          /\ mishap' = [mishap EXCEPT ![own] = TRUE]
      BY <1>2, Zenon DEF CallFails, Failed, Keep, Wrong
    <3> HIDE DEF own
    <3> QED BY <3>1
  <2> QED BY <2>1, <2>2, Spared, QuietKeeps
<1>3. ASSUME NEW t \in Tabs, SignOut(t) PROVE StoreInv'
  <2>1. UNCHANGED <<token, handler>> /\ StoreOf[t] \in Stores
    BY <1>3 DEF SignOut
  <2>2. \A s \in Stores :
          /\ mishap[s] => mishap'[s]
          /\ s # StoreOf[t] => store'[s] = store[s] /\ signedIn'[s] = signedIn[s]
          /\ s = StoreOf[t] => store'[s] = NoToken /\ signedIn'[s] = FALSE
                               /\ (mishap'[s] \/ Of(s) = {})
    BY <1>3 DEF SignOut, Keep, WrongIf
  <2> QED BY <2>1, <2>2, Spared, QuietKeeps
<1>4. ASSUME NEW t \in Tabs, NEW c \in Calls, OpenTab(t, c) PROVE StoreInv'
  <2>1. UNCHANGED <<token, handler, store, signedIn, mishap>>
    BY <1>4 DEF OpenTab
  <2> QED BY <2>1, Spared, QuietKeeps
<1>5. CASE Block
  <2>1. UNCHANGED <<handler, store, signedIn>> /\ \A s \in Stores : mishap'[s]
    BY <1>5 DEF Block, client
  <2> QED BY <2>1, QuietKeeps
<1>6. CASE Unblock
  <2>1. UNCHANGED <<token, handler, store, signedIn, mishap>>
    BY <1>6 DEF Unblock, client
  <2> QED BY <2>1, Spared, QuietKeeps
<1>7. ASSUME NEW t \in Tokens, Expire(t) PROVE StoreInv'
  <2>1. /\ UNCHANGED <<handler, store, signedIn>>
        /\ \A u \in Tokens \ {t} : token'[u] = token[u]
    BY <1>7 DEF Expire, client
  <2>2. \A s \in Stores : mishap'[s] <=> \/ mishap[s] \/ store[s] = t
                                         \/ \E h \in Of(s) : handler[h].new = t
    BY <1>7 DEF Expire
  <2>3. ASSUME NEW s \in Stores, ~mishap'[s] PROVE SparesStore(s)
    BY <2>1, <2>2, <2>3 DEF SparesStore, Live, HandlerState, Of
  <2> QED BY <2>1, <2>2, <2>3, QuietKeeps
<1> QED BY <1>1, <1>2, <1>3, <1>4, <1>5, <1>6, <1>7, Zenon DEF CallStep

\* A refresh of the stored token, or a sign-in, that starts alone at an honest store.
LEMMA StartKeeps ==
    ASSUME AuthInv, StoreInv, NEW h \in Handlers, NEW t \in Tabs, NEW kind \in {"refresh", "signin"},
           NEW tok, Start(h, t, kind, tok), UNCHANGED <<token, store, signedIn>>,
           kind = "refresh" => tok = store[StoreOf[t]] /\ tok # NoToken /\ ~Refreshing(t)
    PROVE  StoreInv'
<1> DEFINE own == StoreOf[t]
<1>1. /\ AuthTypeOK /\ own \in Stores /\ t # NoTab /\ ~Running(h) /\ handler[h].new = NoToken
  BY AuthConstants, MadeWhenAnswering DEF Start, AuthInv, Running
<1>2. /\ handler'[h] = [pc |-> "verify", kind |-> kind, tab |-> t, tok |-> tok, new |-> NoToken]
      /\ OnlyMoves(h)
  BY <1>1 DEF Start, AuthTypeOK, OnlyMoves
<1>3. \A s : Of(s)' = IF s = own THEN Of(s) \cup {h} ELSE Of(s)
  <2> SUFFICES ASSUME NEW s, NEW g \in Handlers
               PROVE  g \in Of(s)' <=> g \in Of(s) \/ (s = own /\ g = h)
    BY DEF Of
  <2>1. CASE g = h
    BY <1>1, <1>2, <2>1 DEF Of, Running
  <2>2. CASE g # h
    BY <1>2, <2>2 DEF Of, Running, OnlyMoves
  <2> QED BY <2>1, <2>2
<1>4. \A s \in Stores : mishap'[s] <=> mishap[s] \/ (s = own /\ Clash(t, kind))
  BY <1>1 DEF Start, WrongIf, AuthTypeOK
<1>5. mishap'[own] \/ Of(own) = {}
  <2> SUFFICES ASSUME ~Clash(t, kind), NEW g \in Of(own) PROVE FALSE
    BY <1>1, <1>4
  <2>1. handler[g].tab = t /\ kind # "signin" /\ handler[g].kind # "signin"
    BY DEF Clash
  <2>2. Refreshing(t)
    BY <1>1, <2>1 DEF Refreshing, Of, AuthTypeOK, HandlerState
  <2> QED BY <2>1, <2>2
<1>6. TokensHaveOnePlace'
  <2>1. \A g \in Handlers :
          /\ handler'[g].new = handler[g].new
          /\ handler'[g].new # NoToken => handler'[g].pc = "answer"
          /\ Rotating(g)' => \/ Rotating(g) /\ g # h /\ handler'[g].tok = handler[g].tok
                             \/ g = h /\ handler'[g].tok = store[own] /\ store[own] # NoToken
    BY <1>1, <1>2 DEF OnlyMoves, Rotating, StoreInv, TokensHaveOnePlace
  <2>2. \A g \in Handlers, s \in Stores :
            Rotating(g)' /\ handler'[g].tok = store'[s] => g \in Of(s)' \/ mishap'[s]
    <3> SUFFICES ASSUME NEW g \in Handlers, NEW s \in Stores,
                        Rotating(g)', handler'[g].tok = store'[s], ~mishap'[s]
                 PROVE  g \in Of(s)'
      OBVIOUS
    <3>1. CASE g = h
      BY <1>1, <1>3, <2>1, <3>1 DEF StoreInv, TokensHaveOnePlace
    <3>2. CASE g # h
      BY <1>3, <1>4, <2>1, <3>2 DEF StoreInv, TokensHaveOnePlace
    <3> QED BY <3>1, <3>2
  <2>3. \A f, g \in Handlers :
            Rotating(f)' /\ handler'[g].new # NoToken => handler'[f].tok # handler'[g].new
    BY <1>1, <2>1 DEF StoreInv, TokensHaveOnePlace
  <2>4. /\ \A s, u \in Stores : store'[s] = store'[u] /\ store'[s] # NoToken => s = u
        /\ \A f, g \in Handlers :
               handler'[f].new = handler'[g].new /\ handler'[f].new # NoToken => f = g
        /\ \A g \in Handlers, s \in Stores : handler'[g].new # NoToken => store'[s] # handler'[g].new
    BY <2>1 DEF StoreInv, TokensHaveOnePlace
  <2> QED BY <2>1, <2>2, <2>3, <2>4 DEF TokensHaveOnePlace
<1>7. ASSUME NEW s \in Stores, ~mishap'[s] PROVE Honest(s)'
  <2>1. Honest(s)
    BY <1>4, <1>7 DEF StoreInv
  <2>2. CASE s = own
    <3>1. Of(s) = {} /\ Of(s)' = {h}
      BY <1>3, <1>5, <1>7, <2>2
    <3>2. store[s] # NoToken => token'[store[s]].state = "live"
      BY <2>1, <3>1 DEF Honest, Live
    <3> QED BY <1>2, <2>1, <2>2, <3>1, <3>2 DEF Honest, Live, Rotating
  <2>3. CASE s # own
    <3>1. Of(s)' = Of(s) /\ h \notin Of(s)
      BY <1>1, <1>3, <2>3 DEF Of
    <3>2. \A g \in Of(s)' : g \in Of(s) /\ SameHandler(g)
      BY <1>2, <3>1 DEF Of, OnlyMoves, SameHandler
    <3>3. \A g \in Of(s) : handler[g].new # NoToken => token'[handler[g].new].state = "live"
      BY <2>1 DEF Honest, Live
    <3> QED BY <2>1, <3>1, <3>2, <3>3, HonestKept DEF Live
  <2> QED BY <2>2, <2>3
<1> QED BY <1>6, <1>7 DEF StoreInv

\* A closed tab drops the answers of its requests: a mishap if one of them is a refresh.
LEMMA CloseTabKeeps ==
    ASSUME AuthInv, StoreInv, NEW t \in Tabs, CloseTab(t)
    PROVE  StoreInv'
<1> DEFINE own == StoreOf[t]
<1>1. /\ AuthTypeOK /\ own \in Stores /\ t # NoTab
      /\ UNCHANGED <<token, store, signedIn>> /\ handler' = Orphaned(t)
  BY AuthConstants DEF CloseTab, AuthInv
<1>2. \A s \in Stores : mishap'[s] <=> mishap[s] \/ (s = own /\ Refreshing(t))
  BY <1>1 DEF CloseTab, WrongIf, AuthTypeOK
<1>3. \A g \in Handlers : /\ SameHandler(g)
                          /\ handler[g].tab = t => handler'[g].tab = NoTab
                          /\ handler[g].tab # t => handler'[g] = handler[g]
  <2> SUFFICES ASSUME NEW g \in Handlers
               PROVE  /\ SameHandler(g)
                      /\ handler[g].tab = t => handler'[g].tab = NoTab
                      /\ handler[g].tab # t => handler'[g] = handler[g]
    OBVIOUS
  <2>1. CASE handler[g].tab # t
    BY <1>1, <2>1 DEF Orphaned, SameHandler
  <2>2. CASE handler[g].tab = t
    <3> DEFINE q == [handler[g] EXCEPT !.tab = NoTab]
    <3>1. q.tab = NoTab /\ q.pc = handler[g].pc /\ q.kind = handler[g].kind
          /\ q.tok = handler[g].tok /\ q.new = handler[g].new
      BY <1>1, HandlerOrphaned DEF AuthTypeOK, HandlerState
    <3>2. handler'[g] = q
      BY <1>1, <2>2 DEF Orphaned
    <3> HIDE DEF q
    <3> QED BY <2>2, <3>1, <3>2 DEF SameHandler
  <2> QED BY <2>1, <2>2
<1>4. \A s, g : g \in Of(s)' <=> g \in Of(s) /\ handler[g].tab # t
  BY <1>1, <1>3 DEF Of, Running, SameHandler
<1>5. \A s \in Stores : \A g \in Of(s) : g \in Of(s)' \/ handler[g].kind = "signin" \/ mishap'[s]
  <2> SUFFICES ASSUME NEW s \in Stores, NEW g \in Of(s), g \notin Of(s)', ~mishap'[s]
               PROVE  handler[g].kind = "signin"
    OBVIOUS
  <2>1. g \in Handlers /\ Running(g) /\ handler[g].tab = t /\ s = own
    BY <1>4 DEF Of
  <2>2. handler[g].kind # "refresh"
    BY <1>2, <2>1 DEF Refreshing
  <2> QED BY <1>1, <2>1, <2>2 DEF AuthTypeOK, HandlerState
<1>6. TokensHaveOnePlace'
  <2>1. \A g \in Handlers : handler'[g].new # NoToken =>
            handler'[g].new = handler[g].new /\ handler'[g].pc = "answer"
    BY <1>3 DEF SameHandler, StoreInv, TokensHaveOnePlace
  <2>2. \A g \in Handlers : Rotating(g)' => Rotating(g) /\ handler'[g].tok = handler[g].tok
    BY <1>3 DEF SameHandler, Rotating
  <2>3. \A g \in Handlers, s \in Stores :
            Rotating(g)' /\ g \in Of(s) => g \in Of(s)' \/ mishap'[s]
    BY <1>5, <2>2 DEF Rotating
  <2> QED BY <1>1, <1>2, <2>1, <2>2, <2>3, PlacesKept DEF StoreInv
<1>7. ASSUME NEW s \in Stores, ~mishap'[s] PROVE Honest(s)'
  <2>1. Honest(s)
    BY <1>2, <1>7 DEF StoreInv
  <2>2. \A g \in Of(s)' : g \in Of(s) /\ SameHandler(g)
    BY <1>3, <1>4 DEF Of
  <2>3. \A g \in Of(s) : g \in Of(s)' \/ ~Replacing(g)
    BY <1>5, <1>7 DEF Replacing
  <2>4. \A g \in Of(s) : handler[g].new # NoToken => token'[handler[g].new].state = "live"
    BY <1>1, <2>1 DEF Honest, Live
  <2> QED BY <1>1, <2>1, <2>2, <2>3, <2>4, HonestKept DEF Live
<1> QED BY <1>6, <1>7 DEF StoreInv

LEMMA UnauthorizedKeeps ==
    ASSUME AuthInv, StoreInv, NEW c \in Calls, NEW t \in Tabs, NEW h \in Handlers,
           Unauthorized(c, t, h)
    PROVE  StoreInv'
<1>1. UNCHANGED <<token, signedIn>> /\ AuthTypeOK /\ StoreOf[t] \in Stores
  BY AuthConstants DEF Unauthorized, AuthInv
<1>2. CASE UNCHANGED <<handler, mishap, store>>
  BY <1>1, <1>2, Spared, QuietKeeps
<1>3. CASE ~Refreshing(t) /\ store[StoreOf[t]] # NoToken
  <2>1. Start(h, t, "refresh", store[StoreOf[t]]) /\ UNCHANGED store
    BY <1>3 DEF Unauthorized
  <2> QED BY <1>1, <1>3, <2>1, StartKeeps
<1>4. CASE ~Refreshing(t) /\ store[StoreOf[t]] = NoToken
  <2>1. UNCHANGED <<handler, mishap>>
    BY <1>4 DEF Unauthorized
  <2>2. store' = store \/ store' = [store EXCEPT ![StoreOf[t]] = NoToken]
    BY <1>4, Zenon DEF Unauthorized, Failed, Keep
  <2>3. UNCHANGED store
    BY <1>1, <1>4, <2>2 DEF AuthTypeOK
  <2> QED BY <1>2, <2>1, <2>3
<1> QED BY <1>2, <1>3, <1>4 DEF Unauthorized

-----------------------------------------------------------------------------
LEMMA StoresStart == AuthInit => StoreInv
<1> SUFFICES ASSUME AuthInit PROVE StoreInv
  OBVIOUS
<1>1. TokensHaveOnePlace
  BY DEF AuthInit, TokensHaveOnePlace, IdleHandler, Rotating
<1>2. \A s \in Stores : Honest(s)
  BY DEF AuthInit, Honest, IdleHandler, Of, Running
<1> QED BY <1>1, <1>2 DEF StoreInv

LEMMA StoreStep == AuthInv /\ StoreInv /\ [AuthNext]_vars => StoreInv'
<1> SUFFICES ASSUME AuthInv, StoreInv, [AuthNext]_vars PROVE StoreInv'
  OBVIOUS
<1>1. ASSUME NEW h \in Handlers, Work(h) PROVE StoreInv'
  <2>1. ASSUME NEW new \in Tokens, Create(h, new) PROVE StoreInv'
    BY <2>1, CreateKeeps
  <2>2. CASE VerifyIdToken(h) \/ UpsertUser(h)
    <3>1. handler[h].kind = "signin"
      BY <2>2 DEF VerifyIdToken, UpsertUser, AuthInv, HandlerFits
    <3> QED BY <2>2, <3>1, SignInKeeps
  <2> QED BY <1>1, <2>1, <2>2, VerifyKeeps, RevokeKeeps, CreateFailsKeeps, AnswerOkKeeps,
             AnswerRefusedKeeps, ForgetKeeps, Zenon DEF Work
<1>2. ASSUME NEW h \in Handlers, LoseConnection(h) PROVE StoreInv'
  BY <1>2, LoseConnectionKeeps
<1>3. ASSUME NEW c \in Calls, Refused401(c) PROVE StoreInv'
  BY <1>3, UnauthorizedKeeps, Zenon DEF Refused401
<1>4. ASSUME NEW t \in Tabs, CloseTab(t) PROVE StoreInv'
  BY <1>4, CloseTabKeeps
<1>5. ASSUME NEW t \in Tabs, NEW h \in Handlers, SignIn(t, h) PROVE StoreInv'
  <2>1. Start(h, t, "signin", NoToken) /\ UNCHANGED <<token, store, signedIn>>
    BY <1>5 DEF SignIn, client
  <2> QED BY <2>1, StartKeeps
<1>6. CASE UNCHANGED vars
  BY <1>6, Spared, QuietKeeps DEF vars
<1> QED BY <1>1, <1>2, <1>3, <1>4, <1>5, <1>6, QuietSteps, Zenon DEF AuthNext

\* A browser around which nothing went wrong keeps a refresh token exactly while its user is
\* signed in there: no order of 401s, refreshes, sign-ins and sign-outs loses the session or
\* brings it back (client.ts, tryRefresh and doRefresh; auth-store.ts).
THEOREM BrowsersAreHonest == AuthSpec => []StoreIsHonest
<1>1. StoreInv => StoreIsHonest
  BY DEF StoreInv, Honest, StoreIsHonest
<1> QED BY <1>1, StoresStart, StoreStep, Inductive, PTL DEF AuthSpec
=============================================================================
