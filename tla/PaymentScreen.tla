--------------------------- MODULE PaymentScreen ---------------------------
(***************************************************************************)
(* The payment screen of the web client (screens/payment/PaymentSePay.tsx, *)
(* data/usePayment.ts) over the endpoints it uses: POST payment/sepay,     *)
(* whose answer Redis replays for five minutes under the booking's key     *)
(* (payment/sepay.service.ts), and GET payment/status, polled every four   *)
(* seconds.  Each tab keeps the QR it was answered until it is reloaded.   *)
(* The booking itself is in BookingPayment; here it is open until it is    *)
(* paid or its deadline passes.  A tick is five minutes.                   *)
(***************************************************************************)
EXTENDS Integers

CONSTANTS
    Screen,      \* Tabs and devices that open the booking's payment.
    MaxQrs,      \* Bound on the QRs a booking gets.
    QrLife,      \* SEPAY_INTENT_TTL_MINUTES, in ticks.
    ReplayLife,  \* 300 s of setCachedIntentResult, in ticks.
    MaxFlaws     \* Bound on the reads and writes Redis fails.

ASSUME ScreenAssumption ==
    MaxQrs \in Nat \ {0} /\ QrLife \in Nat \ {0} /\ ReplayLife \in Nat /\ MaxFlaws \in Nat

VARIABLES
    booking,  \* "open", "paid", "ticketed", "issue_failed" or "expired".
    qrs,      \* QRs made so far; they are numbered.
    liveQr,   \* The PENDING intent, 0 without one.
    life,     \* Ticks to expiresAt of each QR.
    replay,   \* What Redis replays: [qr, left].
    screens,  \* Each screen: [at, qr, status], status the last one polled.
    crossed,  \* Two requests found nothing to replay at a time.
    flaws

screenVars == <<booking, qrs, liveQr, life, replay, screens, crossed, flaws>>

NewScreen == [at |-> "closed", qr |-> 0, status |-> "open"]
PaidStates == {"paid", "ticketed"}

ScreenInit ==
    /\ booking = "open" /\ qrs = 0 /\ liveQr = 0
    /\ life = [q \in 1..MaxQrs |-> QrLife]
    /\ replay = [qr |-> 0, left |-> 0]
    /\ screens = [s \in Screen |-> NewScreen]
    /\ crossed = FALSE /\ flaws = 0

-----------------------------------------------------------------------------
(* The booking. *)

\* The webhook of a transfer to the live QR.
TransferArrives ==
    /\ liveQr # 0
    /\ booking' = "paid" /\ liveQr' = 0
    /\ UNCHANGED <<qrs, life, replay, screens, crossed, flaws>>

\* markTicketed, markIssueFailed.
AdminIssues ==
    /\ booking = "paid" /\ booking' \in {"ticketed", "issue_failed"}
    /\ UNCHANGED <<qrs, liveQr, life, replay, screens, crossed, flaws>>

DeadlinePasses ==
    /\ booking = "open"
    /\ booking' = "expired" /\ liveQr' = 0
    /\ UNCHANGED <<qrs, life, replay, screens, crossed, flaws>>

Requesting(s) == screens[s].at \in {"creating", "storing"}
Less(n) == IF n = 0 THEN 0 ELSE n - 1

\* No request lasts five minutes; the cron expires the intent whose time is up.
FiveMinutes ==
    /\ \A s \in Screen : ~Requesting(s)
    /\ life' = [q \in 1..MaxQrs |-> IF q <= qrs THEN Less(life[q]) ELSE life[q]]
    /\ replay' = [replay EXCEPT !.left = Less(@)]
    /\ liveQr' = IF liveQr # 0 /\ life'[liveQr] = 0 THEN 0 ELSE liveQr
    /\ UNCHANGED <<booking, qrs, screens, crossed, flaws>>

-----------------------------------------------------------------------------
(* The screens. *)

ScreenGoes(s, at) == screens' = [screens EXCEPT ![s] = [@ EXCEPT !.at = at]]
ShowQr(s, q) == screens' = [screens EXCEPT ![s] = [@ EXCEPT !.at = "waiting", !.qr = q]]

\* The hooks of PaymentReal: a QR this tab still has is used again.
OpenScreen(s) ==
    /\ screens[s].at = "closed"
    /\ IF screens[s].qr = 0 THEN ScreenGoes(s, "loading") ELSE ScreenGoes(s, "waiting")
    /\ UNCHANGED <<booking, qrs, liveQr, life, replay, crossed, flaws>>

FaultReplaysLong == replay.qr # 0
Replays == replay.left > 0

\* createIntentForBooking answers what Redis replays, whatever became of it.
ReplayQr(s) ==
    /\ screens[s].at = "loading" /\ Replays
    /\ ShowQr(s, replay.qr)
    /\ UNCHANGED <<booking, qrs, liveQr, life, replay, crossed, flaws>>

\* Nothing to replay, or Redis does not answer.
ReplayMisses(s) ==
    /\ screens[s].at = "loading"
    /\ \/ ~Replays /\ UNCHANGED flaws
       \/ Replays /\ flaws < MaxFlaws /\ flaws' = flaws + 1
    /\ ScreenGoes(s, "creating")
    /\ crossed' = (crossed \/ \E t \in Screen \ {s} : Requesting(t))
    /\ UNCHANGED <<booking, qrs, liveQr, life, replay>>

\* The transaction: the intent that was live is expired, another is live.
CreateQr(s) ==
    /\ screens[s].at = "creating" /\ booking = "open" /\ qrs < MaxQrs
    /\ qrs' = qrs + 1 /\ liveQr' = qrs + 1
    /\ screens' = [screens EXCEPT ![s] = [@ EXCEPT !.at = "storing", !.qr = qrs + 1]]
    /\ UNCHANGED <<booking, life, replay, crossed, flaws>>

\* The booking is no longer payable, or the request fails; it is not repeated.
QrRefused(s) ==
    /\ screens[s].at \in {"loading", "creating"}
    /\ ScreenGoes(s, "error")
    /\ UNCHANGED <<booking, qrs, liveQr, life, replay, crossed, flaws>>

\* setCachedIntentResult, then the answer.
StoreQr(s) ==
    /\ screens[s].at = "storing"
    /\ \/ replay' = [qr |-> screens[s].qr, left |-> ReplayLife] /\ UNCHANGED flaws
       \/ flaws < MaxFlaws /\ flaws' = flaws + 1 /\ UNCHANGED replay
    /\ ScreenGoes(s, "waiting")
    /\ UNCHANGED <<booking, qrs, liveQr, life, crossed>>

OnScreen(s) == screens[s].at \notin {"closed", "success"}
FaultUntilExpiry(s) == OnScreen(s) /\ (screens[s].qr # 0 => life[screens[s].qr] > 0)
\* refetchInterval: while the status is not a paid one, whatever the screen shows (the
\* countdown may have ended: PaymentFailed).
Polls(s) == OnScreen(s)

\* What the screen makes of an answer; its effect leaves for the success screen.
Told(screen) == [screen EXCEPT !.status = booking,
                               !.at = IF booking \in PaidStates THEN "success" ELSE screen.at]

\* An answered poll.
Poll(s) ==
    /\ Polls(s)
    /\ screens' = [screens EXCEPT ![s] = Told(screens[s])]
    /\ UNCHANGED <<booking, qrs, liveQr, life, replay, crossed, flaws>>

\* The user leaves, or reloads and loses the tab's memory.
CloseScreen(s) ==
    /\ screens[s].at # "closed" /\ ~Requesting(s)
    /\ ScreenGoes(s, "closed") \/ screens' = [screens EXCEPT ![s] = NewScreen]
    /\ UNCHANGED <<booking, qrs, liveQr, life, replay, crossed, flaws>>

ScreenNext ==
    \/ TransferArrives \/ AdminIssues \/ DeadlinePasses \/ FiveMinutes
    \/ \E s \in Screen :
          \/ OpenScreen(s) \/ ReplayQr(s) \/ ReplayMisses(s) \/ CreateQr(s) \/ QrRefused(s) \/ StoreQr(s)
          \/ Poll(s) \/ CloseScreen(s)

ScreenSpec == ScreenInit /\ [][ScreenNext]_screenVars

\* A screen that stays open gets the answer of a poll some time; polls pause while its tab
\* is hidden.
ScreenFairness == \A s \in Screen : WF_screenVars(Poll(s))
ScreenFairSpec == ScreenSpec /\ ScreenFairness

-----------------------------------------------------------------------------
(* Properties. *)

\* The QR a tab is handed (createIntentForBooking) is the one that can be paid, or the
\* booking is closed, or Redis failed, or two requests created QRs together: the replay
\* ends before the QR does.
OfferedQrIsLive ==
    [][\A s \in Screen :
          screens[s].at \in {"loading", "storing"} /\ screens'[s].at = "waiting" =>
             \/ screens'[s].qr = liveQr
             \/ booking # "open" \/ flaws # 0 \/ crossed]_screenVars

\* A payment the backend has recorded is shown on every screen that stays open, the one
\* that says the time is over included, unless an admin marks the booking as not issued
\* before a poll is answered (usePaymentStatus, PaymentReal).
PaidIsShown ==
    \A s \in Screen :
        booking \in PaidStates /\ OnScreen(s) ~> ~OnScreen(s) \/ booking = "issue_failed"

\* What the screen promises: 'màn hình sẽ tự chuyển khi nhận được tiền'
\* (PaymentSePay.tsx:218), it changes by itself when the money is received.  It stays when
\* the tab was hidden, in which polls pause, until markIssueFailed took the booking out of
\* the states that isPaid counts as paid (usePayment.ts:24).
MoneyTurnsTheScreen ==
    \A s \in Screen : booking \in PaidStates /\ OnScreen(s) ~> ~OnScreen(s)
=============================================================================
