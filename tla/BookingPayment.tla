--------------------------- MODULE BookingPayment ---------------------------
(***************************************************************************)
(* The payment of a held booking: SePay payment intents, the bank webhook, *)
(* the lifecycle cron and the two admin decisions, all of them PostgreSQL  *)
(* transactions over the same rows (apps/api/src/payment, scheduler and    *)
(* admin).                                                                 *)
(*                                                                         *)
(* A handler is one interactive transaction under READ COMMITTED.  It is   *)
(* cut where another transaction can get in between: the statement that    *)
(* reads a row (the handler then decides on that snapshot), a bulk UPDATE  *)
(* whose statement snapshot matters, and the commit, at which all the      *)
(* writes become visible.  A session is a database connection that runs at *)
(* most one transaction at a time.                                         *)
(***************************************************************************)
EXTENDS Integers, Sequences, FiniteSets

CONSTANTS
    Booking,    \* bookings persisted as HELD by BookingService.hold
    Intent,     \* payment intents (fresh order codes), not yet created
    Transfer,   \* bank transfers, by their dedupeKey
    Session,    \* database sessions: how many transactions may overlap
    BookingOf,  \* the booking each fresh order code will be drawn for
    Price,      \* booking.totalSellPrice
    Amounts,    \* the amounts a customer may send
    Deadline,   \* booking.paymentDeadline
    IntentTtl,  \* SEPAY_INTENT_TTL_MINUTES
    MaxTime,    \* bound: the clock stops here
    NoRef       \* transfer text without a known order code

ASSUME ConstantsAssumption ==
    /\ BookingOf \in [Intent -> Booking]
    /\ Price \in Nat \ {0}
    /\ Amounts \subseteq Nat
    /\ Deadline \in [Booking -> Nat]
    /\ IntentTtl \in Nat \ {0}
    /\ MaxTime \in Nat
    /\ NoRef \notin Intent

VARIABLES
    now,        \* the clock, in ticks
    status,     \* Booking.status
    tickets,    \* whether BookingPnr.ticketNumber was written
    istatus,    \* PaymentIntent.status, "NONE" before the row exists
    expiresAt,  \* PaymentIntent.expiresAt
    sent,       \* what the bank knows: the transfers customers have made
    bank,       \* BankTransaction.status by dedupeKey, "NONE" without a row
    payments,   \* the Payment rows, in insertion order
    txn         \* the open transaction of each session

vars == <<now, status, tickets, istatus, expiresAt, sent, bank, payments, txn>>

BookingStatus == {"HELD", "PAYMENT_PENDING", "PAID", "TICKETED",
                  "ISSUE_FAILED", "EXPIRED"}
Open          == {"HELD", "PAYMENT_PENDING"}
Settled       == {"PAID", "TICKETED", "ISSUE_FAILED"}
IntentStatus  == {"NONE", "PENDING", "PAID", "EXPIRED"}
Verdict       == {"IGNORED", "NO_INTENT", "BOOKING_NOT_PAYABLE", "PARTIAL",
                  "OVERPAID", "PAID"}
RowStatus     == {"IGNORED", "MANUAL_REVIEW", "PARTIAL", "MATCHED"}

TransferRow == [type : {"in", "out"}, ref : Intent \union {NoRef}, amount : Amounts]
PaymentRow  == [intent : Intent, transfer : Transfer, amount : Nat]

Unsent == [type |-> "none"]
Idle   == [kind |-> "idle"]

CreateTxn  == [kind : {"create"}, booking : Booking,
               stage : {"sweep", "ready"}, sweep : SUBSET Intent]
WebhookTxn == [kind : {"webhook"}, transfer : Transfer, verdict : Verdict]
ExpireTxn  == [kind : {"expire"}, intent : Intent, last : BOOLEAN]
AdminTxn   == [kind : {"admin"}, booking : Booking,
               outcome : {"TICKETED", "ISSUE_FAILED"}]

TypeOK ==
    /\ now \in Nat
    /\ status \in [Booking -> BookingStatus]
    /\ tickets \in [Booking -> BOOLEAN]
    /\ istatus \in [Intent -> IntentStatus]
    /\ expiresAt \in [Intent -> Nat]
    /\ sent \in [Transfer -> TransferRow \union {Unsent}]
    /\ bank \in [Transfer -> RowStatus \union {"NONE"}]
    /\ payments \in Seq(PaymentRow)
    /\ txn \in [Session -> {Idle} \union CreateTxn \union WebhookTxn
                             \union ExpireTxn \union AdminTxn]

-----------------------------------------------------------------------------
Pending(b) == {i \in Intent : BookingOf[i] = b /\ istatus[i] = "PENDING"}

\* isBookingPayable: open, and the deadline is strictly in the future.
FaultDeadlineOnly(b) == Deadline[b] > now
Payable(b) == status[b] \in Open /\ Deadline[b] > now

\* The WHERE clauses of the cron.
FaultOnlyHeld(b) == status[b] = "HELD" /\ Deadline[b] < now
Overdue(b)       == status[b] \in Open /\ Deadline[b] < now

OverdueIntent(i)      == istatus[i] = "PENDING" /\ expiresAt[i] < now

\* The count that follows the update of intent i finds no other PENDING one.
LastPending(i)       == Pending(BookingOf[i]) = {i}

\* The intents expired together with an overdue booking.
FaultOnlyOverdueIntents(b) == {i \in Pending(b) : expiresAt[i] < now}
ClosedWith(b)              == Pending(b)

\* booking.paymentIntents.length > 0 in the snapshot of createIntentForBooking,
\* and the rows of its updateMany that are PENDING when they are written.
FaultNeverSweeps(b) == FALSE
NeedsSweep(b)       == Pending(b) # {}
StillPending(rows)   == {j \in rows : istatus[j] = "PENDING"}

\* The unique key BankTransaction.dedupeKey.
FaultNoUniqueKey(t) == TRUE
Unrecorded(t)       == bank[t] = "NONE"

\* The precondition of both admin decisions.
FaultRetryFailed(b)   == status[b] \in {"PAID", "ISSUE_FAILED"}
Decidable(b)          == status[b] = "PAID"

\* Rows an expireIntents transaction has updated and not yet committed.
Locked(i) == \E s \in Session : txn[s].kind = "expire" /\ txn[s].intent = i

Begin(s, t) == txn[s] = Idle /\ txn' = [txn EXCEPT ![s] = t]
End(s)      == txn' = [txn EXCEPT ![s] = Idle]

Init ==
    /\ now = 0
    /\ status = [b \in Booking |-> "HELD"]
    /\ tickets = [b \in Booking |-> FALSE]
    /\ istatus = [i \in Intent |-> "NONE"]
    /\ expiresAt = [i \in Intent |-> 0]
    /\ sent = [t \in Transfer |-> Unsent]
    /\ bank = [t \in Transfer |-> "NONE"]
    /\ payments = << >>
    /\ txn = [s \in Session |-> Idle]

-----------------------------------------------------------------------------
(* The world outside: the clock, and customers who pay a QR code.          *)

Tick ==
    /\ now < MaxTime
    /\ now' = now + 1
    /\ UNCHANGED <<status, tickets, istatus, expiresAt, sent, bank, payments, txn>>

\* The text of a transfer names an order code the customer was shown, or none
\* the system knows; then its amount decides nothing.
BankTransfer(t, row) ==
    /\ sent[t] = Unsent
    /\ row.ref \in Intent => row.type = "in" /\ istatus[row.ref] # "NONE"
    /\ row.ref = NoRef => row.amount = Price
    /\ sent' = [sent EXCEPT ![t] = row]
    /\ UNCHANGED <<now, status, tickets, istatus, expiresAt, bank, payments, txn>>

-----------------------------------------------------------------------------
(* createIntentForBooking.                                                 *)

CreateIntentRead(s, b) ==
    /\ Payable(b)
    /\ Begin(s, [kind |-> "create", booking |-> b, sweep |-> {},
                 stage |-> IF NeedsSweep(b) THEN "sweep" ELSE "ready"])
    /\ UNCHANGED <<now, status, tickets, istatus, expiresAt, sent, bank, payments>>

\* updateMany PENDING -> EXPIRED sees the rows committed when it starts; a row
\* that changes before it gets the lock is looked at again at the commit.
CreateIntentSweep(s) ==
    /\ txn[s].kind = "create" /\ txn[s].stage = "sweep"
    /\ txn' = [txn EXCEPT ![s] = [kind |-> "create", booking |-> @.booking,
                                  stage |-> "ready", sweep |-> Pending(@.booking)]]
    /\ UNCHANGED <<now, status, tickets, istatus, expiresAt, sent, bank, payments>>

CreateIntentCommit(s, i) ==
    /\ txn[s].kind = "create" /\ txn[s].stage = "ready"
    /\ istatus[i] = "NONE" /\ BookingOf[i] = txn[s].booking
    /\ \A j \in txn[s].sweep : ~Locked(j)
    /\ istatus' = [j \in Intent |->
                     IF j = i THEN "PENDING"
                     ELSE IF j \in StillPending(txn[s].sweep) THEN "EXPIRED"
                     ELSE istatus[j]]
    /\ expiresAt' = [expiresAt EXCEPT ![i] = now + IntentTtl]
    /\ status' = [status EXCEPT ![txn[s].booking] = "PAYMENT_PENDING"]
    /\ End(s)
    /\ UNCHANGED <<now, tickets, sent, bank, payments>>

-----------------------------------------------------------------------------
(* handleWebhook.                                                          *)

FaultAcceptsLess(row) ==
    IF row.type = "out" THEN "IGNORED"
    ELSE IF row.ref = NoRef THEN "NO_INTENT"
    ELSE IF ~Payable(BookingOf[row.ref]) THEN "BOOKING_NOT_PAYABLE"
    ELSE IF row.amount > Price THEN "OVERPAID" ELSE "PAID"

\* What the handler decides, in the order of its returns, from the rows it has read.
VerdictOf(row) ==
    IF row.type = "out" THEN "IGNORED"
    ELSE IF row.ref = NoRef THEN "NO_INTENT"
    ELSE IF ~Payable(BookingOf[row.ref]) THEN "BOOKING_NOT_PAYABLE"
    ELSE IF row.amount < Price THEN "PARTIAL"
    ELSE IF row.amount > Price THEN "OVERPAID" ELSE "PAID"

RowStatusOf(verdict) ==
    IF verdict \in {"IGNORED", "PARTIAL"} THEN verdict
    ELSE IF verdict = "PAID" THEN "MATCHED" ELSE "MANUAL_REVIEW"

\* A delivery, the first or a repeated one.  With a row for its dedupeKey the
\* handler answers DUPLICATE and changes nothing.
WebhookRead(s, t) ==
    /\ sent[t] # Unsent
    /\ bank[t] = "NONE"   \* the findUnique, not the unique key
    /\ Begin(s, [kind |-> "webhook", transfer |-> t, verdict |-> VerdictOf(sent[t])])
    /\ UNCHANGED <<now, status, tickets, istatus, expiresAt, sent, bank, payments>>

\* BankTransaction.dedupeKey is unique: if another delivery committed first,
\* the insert fails and the whole transaction is rolled back (Abort).
WebhookRecord(s) ==
    /\ txn[s].kind = "webhook" /\ txn[s].verdict # "PAID"
    /\ Unrecorded(txn[s].transfer)
    /\ bank' = [bank EXCEPT ![txn[s].transfer] = RowStatusOf(txn[s].verdict)]
    /\ End(s)
    /\ UNCHANGED <<now, status, tickets, istatus, expiresAt, sent, payments>>

WebhookPay(s) ==
    LET t == txn[s].transfer
        i == sent[t].ref
    IN  /\ txn[s].kind = "webhook" /\ txn[s].verdict = "PAID"
        /\ Unrecorded(t)
        /\ ~Locked(i)
        /\ payments' = Append(payments, [intent |-> i, transfer |-> t,
                                         amount |-> sent[t].amount])
        /\ bank' = [bank EXCEPT ![t] = RowStatusOf("PAID")]
        /\ istatus' = [istatus EXCEPT ![i] = "PAID"]
        /\ status' = [status EXCEPT ![BookingOf[i]] = "PAID"]
        /\ End(s)
        /\ UNCHANGED <<now, tickets, expiresAt, sent>>

-----------------------------------------------------------------------------
(* The lifecycle cron, which every API and worker process runs.            *)

\* expireIntents, first two statements: the conditional update of one overdue
\* intent, which locks its row, then the count of the booking's PENDING ones.
ExpireIntentLock(s, i) ==
    /\ OverdueIntent(i)
    /\ ~Locked(i)
    /\ Begin(s, [kind |-> "expire", intent |-> i, last |-> LastPending(i)])
    /\ UNCHANGED <<now, status, tickets, istatus, expiresAt, sent, bank, payments>>

ExpireIntentCommit(s) ==
    /\ txn[s].kind = "expire"
    /\ istatus' = [istatus EXCEPT ![txn[s].intent] = "EXPIRED"]
    /\ LET b == BookingOf[txn[s].intent]
       IN  status' = IF txn[s].last /\ status[b] = "PAYMENT_PENDING"
                     THEN [status EXCEPT ![b] = "HELD"] ELSE status
    /\ End(s)
    /\ UNCHANGED <<now, tickets, expiresAt, sent, bank, payments>>

\* expireBookings: its first statement locks the booking, so what it sweeps
\* afterwards is all that is PENDING when it commits.
ExpireBooking(s, b) ==
    /\ txn[s] = Idle
    /\ Overdue(b)
    /\ \A i \in Pending(b) : ~Locked(i)
    /\ status' = [status EXCEPT ![b] = "EXPIRED"]
    /\ istatus' = [i \in Intent |-> IF i \in ClosedWith(b) THEN "EXPIRED" ELSE istatus[i]]
    /\ UNCHANGED <<now, tickets, expiresAt, sent, bank, payments, txn>>

-----------------------------------------------------------------------------
(* The admin's decision on a paid booking.                                 *)

AdminRead(s, b, outcome) ==
    /\ Decidable(b)
    /\ Begin(s, [kind |-> "admin", booking |-> b, outcome |-> outcome])
    /\ UNCHANGED <<now, status, tickets, istatus, expiresAt, sent, bank, payments>>

MarkTicketed(s) ==
    /\ txn[s].kind = "admin" /\ txn[s].outcome = "TICKETED"
    /\ tickets' = [tickets EXCEPT ![txn[s].booking] = TRUE]
    /\ status' = [status EXCEPT ![txn[s].booking] = "TICKETED"]
    /\ End(s)
    /\ UNCHANGED <<now, istatus, expiresAt, sent, bank, payments>>

MarkIssueFailed(s) ==
    /\ txn[s].kind = "admin" /\ txn[s].outcome = "ISSUE_FAILED"
    /\ status' = [status EXCEPT ![txn[s].booking] = "ISSUE_FAILED"]
    /\ End(s)
    /\ UNCHANGED <<now, tickets, istatus, expiresAt, sent, bank, payments>>

\* Rollback: a unique key that is already there, a deadlock victim, Prisma's
\* transaction timeout, or the process going down.
Abort(s) ==
    /\ txn[s] # Idle
    /\ End(s)
    /\ UNCHANGED <<now, status, tickets, istatus, expiresAt, sent, bank, payments>>

-----------------------------------------------------------------------------
Next ==
    \/ Tick
    \/ \E t \in Transfer, row \in TransferRow : BankTransfer(t, row)
    \/ \E s \in Session :
         \/ \E b \in Booking : CreateIntentRead(s, b)
         \/ CreateIntentSweep(s)
         \/ \E i \in Intent : CreateIntentCommit(s, i)
         \/ \E t \in Transfer : WebhookRead(s, t)
         \/ WebhookRecord(s)
         \/ WebhookPay(s)
         \/ \E i \in Intent : ExpireIntentLock(s, i)
         \/ ExpireIntentCommit(s)
         \/ \E b \in Booking : ExpireBooking(s, b)
         \/ \E b \in Booking, o \in {"TICKETED", "ISSUE_FAILED"} : AdminRead(s, b, o)
         \/ MarkTicketed(s)
         \/ MarkIssueFailed(s)
         \/ Abort(s)

Spec == Init /\ [][Next]_vars

-----------------------------------------------------------------------------
(* Safety, whatever the interleaving of transactions.                      *)

\* A bank transfer is credited at most once however often and however
\* concurrently SePay delivers it, and the bank row says MATCHED exactly for
\* the transfers that have a payment (handleWebhook and the unique dedupeKey).
CreditedOnce ==
    /\ \A j, k \in 1..Len(payments) :
          payments[j].transfer = payments[k].transfer => j = k
    /\ \A t \in Transfer : bank[t] = "MATCHED" <=>
          \E k \in 1..Len(payments) : payments[k].transfer = t

\* A booking that is paid, ticketed or failed to issue has been paid for, and
\* every payment row carries the full price of a transfer that named an order
\* code of its booking, whose intent is PAID and stays so under the sweeps.
PaymentSound(k) ==
    LET p == payments[k]
    IN  /\ istatus[p.intent] = "PAID"
        /\ bank[p.transfer] = "MATCHED"
        /\ sent[p.transfer] \in [type : {"in"}, ref : {p.intent}, amount : {Price}]
        /\ p.amount = Price

HasPayment(b) == \E k \in 1..Len(payments) : BookingOf[payments[k].intent] = b

SettledIsPaidFor ==
    /\ \A k \in 1..Len(payments) : PaymentSound(k)
    /\ \A b \in Booking : status[b] \in Settled => HasPayment(b)

\* What an open transaction has read and still relies on has not been undone
\* by the others: a webhook about to credit has the exact transfer of an order
\* code, a cron transaction holds a PENDING intent nobody else is expiring, and
\* an admin decides on a booking that has a payment.
SnapshotsHold ==
    \A s \in Session :
        /\ (txn[s].kind = "webhook" /\ txn[s].verdict = "PAID") =>
              sent[txn[s].transfer] \in [type : {"in"}, ref : Intent, amount : {Price}]
        /\ txn[s].kind = "expire" =>
              /\ istatus[txn[s].intent] = "PENDING"
              /\ \A r \in Session \ {s} :
                    txn[r].kind = "expire" => txn[r].intent # txn[s].intent
        /\ txn[s].kind = "admin" => HasPayment(txn[s].booking)

\* An expired booking leaves no live QR code behind, although intents may be
\* created while expireBookings runs.
ExpiredHasNoLiveQr ==
    \A b \in Booking : status[b] = "EXPIRED" => Pending(b) = {}

\* An intent that was paid is never expired by createIntentForBooking or the
\* cron, whatever snapshot they started from, and no dead QR code comes back.
IntentsOnlyAdvance ==
    [][\A i \in Intent :
         /\ istatus[i] = "PAID" => istatus'[i] = "PAID"
         /\ istatus[i] = "EXPIRED" => istatus'[i] \in {"EXPIRED", "PAID"}]_vars

\* The accounts the bank transfers end up in: see PaymentLedger.
Ledger == INSTANCE PaymentLedger WITH
    decision <- [t \in Transfer |-> IF bank[t] = "NONE" THEN "open"
                                    ELSE IF bank[t] = "MATCHED" THEN "credited" ELSE "filed"],
    account  <- [b \in Booking |->
                   {t \in Transfer : \E k \in 1..Len(payments) :
                        payments[k].transfer = t /\ BookingOf[payments[k].intent] = b}]

LedgerSpec == Ledger!Spec

-----------------------------------------------------------------------------
(* Safety when transactions do not overlap (Session a singleton).          *)

\* At most one QR code of a booking is live.
OneLiveQr == \A b \in Booking : Cardinality(Pending(b)) <= 1

\* An open booking says PAYMENT_PENDING exactly while it has a live QR code:
\* the cron hands it back to HELD when the last one runs out.
AwaitingIffLiveQr ==
    \A b \in Booking : status[b] \in Open =>
        (status[b] = "PAYMENT_PENDING" <=> Pending(b) # {})

\* A customer who transfers twice is not charged twice.
PaidAtMostOnce ==
    \A j, k \in 1..Len(payments) :
        BookingOf[payments[j].intent] = BookingOf[payments[k].intent] => j = k

\* A transfer of the right amount goes to manual review only if its booking
\* can never be paid any more, so the customer is not asked to pay again.
ReviewedOnlyIfClosed ==
    \A t \in Transfer :
        (bank[t] = "MANUAL_REVIEW" /\ sent[t].ref # NoRef /\ sent[t].amount = Price)
            => ~Payable(BookingOf[sent[t].ref])

\* The customer is always told what is true of the booking: there is one QR code to
\* pay, the status announces it exactly while it is live, and the full price of an open
\* booking is never put aside (createIntentForBooking, expireIntents, handleWebhook).
QrAndStatusAgree == OneLiveQr /\ AwaitingIffLiveQr /\ ReviewedOnlyIfClosed

\* The promised lifecycle of a booking: see BookingLifecycle.
Lifecycle == INSTANCE BookingLifecycle WITH state <- status, clock <- now

LifecycleSpec == Lifecycle!Spec

-----------------------------------------------------------------------------
(* Liveness.  The clock goes on; the cron runs every minute in every       *)
(* process and swallows its errors; PostgreSQL grants a waiting UPDATE its *)
(* row lock, so a cron step that is possible again and again is taken; an  *)
(* open transaction ends, by Prisma's transaction timeout at the latest.   *)

Finish(s) == CreateIntentSweep(s) \/ (\E i \in Intent : CreateIntentCommit(s, i))
             \/ WebhookRecord(s) \/ WebhookPay(s) \/ ExpireIntentCommit(s)
             \/ MarkTicketed(s) \/ MarkIssueFailed(s) \/ Abort(s)

Fairness ==
    /\ WF_vars(Tick)
    /\ \A s \in Session : WF_vars(Finish(s)) /\ SF_vars(ExpireIntentCommit(s))
    /\ \A b \in Booking : SF_vars(\E s \in Session : ExpireBooking(s, b))
    /\ \A i \in Intent : SF_vars(\E s \in Session : ExpireIntentLock(s, i))

FairSpec == Spec /\ Fairness

\* No booking stays open for ever: it ends paid or expired, for good.
EveryBookingCloses == \A b \in Booking : <>[](status[b] \notin Open)

\* Every QR code that is shown dies: it is paid or it expires, also when its
\* booking was paid through another one.  (Codes that would outlive the bounded
\* clock are left out.)
EveryQrDies ==
    \A i \in Intent :
        (istatus[i] = "PENDING" /\ expiresAt[i] < MaxTime)
            ~> istatus[i] \in {"PAID", "EXPIRED"}

\* Nothing stays pending: neither a booking nor a QR code (BookingLifecycleService).
EverythingEnds == EveryBookingCloses /\ EveryQrDies

-----------------------------------------------------------------------------
(* What the tests and messages of the code say of concurrent requests too. *)

\* A PAID booking is not payable: no request for a QR code reopens it
\* ("rejects create intent for non-payable booking").
PaidIsNotReopened ==
    [][\A b \in Booking : status[b] = "PAID" => status'[b] \notin Open]_vars

\* A transfer for an expired booking goes to manual review
\* ("classifies missing intent and expired booking as manual review").
ExpiredIsNotPaid ==
    [][\A b \in Booking : status[b] = "EXPIRED" => status'[b] # "PAID"]_vars

=============================================================================
