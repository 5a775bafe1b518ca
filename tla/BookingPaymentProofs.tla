------------------------ MODULE BookingPaymentProofs ------------------------
(***************************************************************************)
(* Theorems about BookingPayment: type correctness and the safety of money *)
(* under any number of overlapping transactions, for every set of          *)
(* bookings, order codes, transfers and sessions; and what holds besides   *)
(* when transactions do not overlap, for every set of the others.          *)
(***************************************************************************)
EXTENDS BookingPayment, FiniteSetTheorems, TLAPS

\* The inductive invariant: money is safe only together with what the open
\* transactions still rely on.
IndInv == /\ TypeOK
          /\ CreditedOnce
          /\ SettledIsPaidFor
          /\ SnapshotsHold
          /\ ExpiredHasNoLiveQr

USE DEF Idle, Unsent

\* The shape of an open transaction follows from its kind.
LEMMA TxnShape ==
    ASSUME TypeOK, NEW s \in Session
    PROVE  /\ txn[s].kind = "create"  => txn[s] \in CreateTxn
           /\ txn[s].kind = "webhook" => txn[s] \in WebhookTxn
           /\ txn[s].kind = "expire"  => txn[s] \in ExpireTxn
           /\ txn[s].kind = "admin"   => txn[s] \in AdminTxn
    BY DEF TypeOK, CreateTxn, WebhookTxn, ExpireTxn, AdminTxn

\* A webhook that is about to credit knows the order code it credits.
LEMMA WebhookShape ==
    ASSUME TypeOK, SnapshotsHold, NEW s \in Session, WebhookPay(s)
    PROVE  /\ txn[s].transfer \in Transfer
           /\ sent[txn[s].transfer] \in [type : {"in"}, ref : Intent, amount : {Price}]
           /\ sent[txn[s].transfer].ref \in Intent
           /\ sent[txn[s].transfer].amount = Price
<1>1. txn[s] \in WebhookTxn
    BY TxnShape DEF WebhookPay
<1> QED BY <1>1 DEF WebhookPay, SnapshotsHold, WebhookTxn

\* The credit of a transfer appends one payment row and keeps the others.
LEMMA CreditAppends ==
    ASSUME TypeOK, SnapshotsHold, NEW s \in Session, WebhookPay(s)
    PROVE  /\ payments' \in Seq(PaymentRow)
           /\ Len(payments) \in Nat
           /\ Len(payments') = Len(payments) + 1
           /\ \A k \in 1..Len(payments) : payments'[k] = payments[k]
           /\ payments'[Len(payments) + 1].intent = sent[txn[s].transfer].ref
           /\ payments'[Len(payments) + 1].transfer = txn[s].transfer
           /\ payments'[Len(payments) + 1].amount = Price
<1> DEFINE t == txn[s].transfer
           r == [intent |-> sent[t].ref, transfer |-> t, amount |-> sent[t].amount]
<1>1. r \in PaymentRow
    BY WebhookShape, ConstantsAssumption DEF PaymentRow
<1>2. r.intent = sent[t].ref /\ r.transfer = t /\ r.amount = Price
    BY WebhookShape
<1>3. payments \in Seq(PaymentRow) /\ payments' = Append(payments, r)
    BY DEF TypeOK, WebhookPay
<1> HIDE DEF r
<1>4. /\ payments' \in Seq(PaymentRow)
      /\ Len(payments) \in Nat /\ Len(payments') = Len(payments) + 1
      /\ \A k \in 1..Len(payments) : payments'[k] = payments[k]
      /\ payments'[Len(payments) + 1] = r
    BY <1>1, <1>3
<1> QED BY <1>2, <1>4

\* Whatever the handlers find in the rows, the rows keep their types.
LEMMA TypeStep ==
    ASSUME TypeOK, SnapshotsHold, [Next]_vars
    PROVE  TypeOK'
<1> USE ConstantsAssumption
<1>1. CASE Tick
    BY <1>1 DEF Tick, TypeOK
<1>2. ASSUME NEW t \in Transfer, NEW row \in TransferRow, BankTransfer(t, row)
      PROVE  TypeOK'
    BY <1>2 DEF BankTransfer, TypeOK
<1>3. ASSUME NEW s \in Session, NEW b \in Booking, CreateIntentRead(s, b)
      PROVE  TypeOK'
    BY <1>3 DEF CreateIntentRead, Begin, TypeOK, CreateTxn
<1>4. ASSUME NEW s \in Session, CreateIntentSweep(s)
      PROVE  TypeOK'
    BY <1>4, TxnShape DEF CreateIntentSweep, TypeOK, CreateTxn, Pending
<1>5. ASSUME NEW s \in Session, NEW i \in Intent, CreateIntentCommit(s, i)
      PROVE  TypeOK'
    BY <1>5, TxnShape DEF CreateIntentCommit, End, TypeOK, CreateTxn,
                          BookingStatus, IntentStatus
<1>6. ASSUME NEW s \in Session, NEW t \in Transfer, WebhookRead(s, t)
      PROVE  TypeOK'
    <2>1. VerdictOf(sent[t]) \in Verdict
        BY <1>6 DEF WebhookRead, VerdictOf, Verdict, TypeOK, TransferRow
    <2> QED BY <1>6, <2>1 DEF WebhookRead, Begin, TypeOK, WebhookTxn
<1>7. ASSUME NEW s \in Session, WebhookRecord(s)
      PROVE  TypeOK'
    BY <1>7, TxnShape DEF WebhookRecord, End, TypeOK, WebhookTxn, RowStatusOf, RowStatus
<1>8. ASSUME NEW s \in Session, WebhookPay(s)
      PROVE  TypeOK'
    <2>1. payments' \in Seq(PaymentRow)
        BY <1>8, CreditAppends
    <2> QED BY <1>8, <2>1, WebhookShape DEF WebhookPay, End, TypeOK, BookingStatus,
                                            IntentStatus, RowStatus, RowStatusOf
<1>9. ASSUME NEW s \in Session, NEW i \in Intent, ExpireIntentLock(s, i)
      PROVE  TypeOK'
    BY <1>9 DEF ExpireIntentLock, Begin, TypeOK, ExpireTxn, LastPending
<1>10. ASSUME NEW s \in Session, ExpireIntentCommit(s)
       PROVE  TypeOK'
    BY <1>10, TxnShape DEF ExpireIntentCommit, End, TypeOK, ExpireTxn,
                           BookingStatus, IntentStatus
<1>11. ASSUME NEW s \in Session, NEW b \in Booking, ExpireBooking(s, b)
       PROVE  TypeOK'
    BY <1>11 DEF ExpireBooking, TypeOK, BookingStatus, IntentStatus
<1>12. ASSUME NEW s \in Session, NEW b \in Booking,
              NEW o \in {"TICKETED", "ISSUE_FAILED"}, AdminRead(s, b, o)
       PROVE  TypeOK'
    BY <1>12 DEF AdminRead, Begin, TypeOK, AdminTxn
<1>13. ASSUME NEW s \in Session, MarkTicketed(s)
       PROVE  TypeOK'
    BY <1>13, TxnShape DEF MarkTicketed, End, TypeOK, AdminTxn, BookingStatus
<1>14. ASSUME NEW s \in Session, MarkIssueFailed(s)
       PROVE  TypeOK'
    BY <1>14, TxnShape DEF MarkIssueFailed, End, TypeOK, AdminTxn, BookingStatus
<1>15. ASSUME NEW s \in Session, Abort(s)
       PROVE  TypeOK'
    BY <1>15 DEF Abort, End, TypeOK<1>16. CASE UNCHANGED vars
    BY <1>16 DEF vars, TypeOK
<1> QED
    BY <1>1, <1>2, <1>3, <1>4, <1>5, <1>6, <1>7, <1>8, <1>9, <1>10, <1>11,
       <1>12, <1>13, <1>14, <1>15, <1>16 DEF Next

\* Every step but the credit itself leaves the payments alone, and what is
\* filed about a transfer was open before.
LEMMA OtherSteps ==
    ASSUME TypeOK, [Next]_vars, \A s \in Session : ~WebhookPay(s)
    PROVE  /\ payments' = payments
           /\ \A t \in Transfer :
                 \/ bank'[t] = bank[t]
                 \/ bank[t] = "NONE" /\ bank'[t] # "MATCHED"
<1> USE DEF Tick, BankTransfer, CreateIntentRead, CreateIntentSweep, CreateIntentCommit,
            WebhookRead, ExpireIntentLock, ExpireIntentCommit, ExpireBooking,
            AdminRead, MarkTicketed, MarkIssueFailed, Abort
<1>1. ASSUME NEW s \in Session, WebhookRecord(s)
      PROVE  /\ payments' = payments
             /\ \A t \in Transfer :
                   \/ bank'[t] = bank[t]
                   \/ bank[t] = "NONE" /\ bank'[t] # "MATCHED"
    BY <1>1, TxnShape DEF WebhookRecord, WebhookTxn, RowStatusOf, Unrecorded, TypeOK
<1> QED BY <1>1 DEF Next, vars

\* A transfer is credited at most once, and the bank rows say so.
LEMMA CreditedOnceStep ==
    ASSUME IndInv, [Next]_vars
    PROVE  CreditedOnce'
<1> USE DEF IndInv
<1>1. ASSUME NEW s \in Session, WebhookPay(s)
      PROVE  CreditedOnce'
    <2> DEFINE t == txn[s].transfer
               n == Len(payments)
    <2>1. bank[t] = "NONE" /\ bank' = [bank EXCEPT ![t] = "MATCHED"] /\ t \in Transfer
        BY <1>1, WebhookShape DEF WebhookPay, Unrecorded, RowStatusOf
    <2>2. /\ n \in Nat /\ Len(payments') = n + 1
          /\ \A k \in 1..n : payments'[k] = payments[k]
          /\ payments'[n + 1].transfer = t
        BY <1>1, CreditAppends
    <2>3. \A k \in 1..n : payments[k].transfer # t
        BY <2>1 DEF CreditedOnce
    <2> HIDE DEF t, n
    <2>4. \A j, k \in 1..(n + 1) :
             payments'[j].transfer = payments'[k].transfer => j = k
        <3> SUFFICES ASSUME NEW j \in 1..(n + 1), NEW k \in 1..(n + 1),
                            payments'[j].transfer = payments'[k].transfer
                     PROVE  j = k
            OBVIOUS
        <3>1. CASE j \in 1..n /\ k \in 1..n
            BY <3>1, <2>2 DEF CreditedOnce, n
        <3>2. CASE j = n + 1 /\ k \in 1..n
            BY <3>2, <2>2, <2>3
        <3>3. CASE j \in 1..n /\ k = n + 1
            BY <3>3, <2>2, <2>3
        <3>4. CASE j = n + 1 /\ k = n + 1
            BY <3>4
        <3> QED BY <2>2, <3>1, <3>2, <3>3, <3>4
    <2>5. ASSUME NEW u \in Transfer
          PROVE  bank'[u] = "MATCHED" <=> \E k \in 1..(n + 1) : payments'[k].transfer = u
        <3>1. CASE u = t
            BY <3>1, <2>1, <2>2 DEF TypeOK
        <3>2. CASE u # t
            <4>1. bank'[u] = bank[u]
                BY <3>2, <2>1 DEF TypeOK
            <4>2. (\E k \in 1..(n + 1) : payments'[k].transfer = u)
                     <=> \E k \in 1..n : payments[k].transfer = u
                BY <3>2, <2>2
            <4> QED BY <4>1, <4>2 DEF CreditedOnce, n
        <3> QED BY <3>1, <3>2
    <2> QED BY <2>2, <2>4, <2>5 DEF CreditedOnce
<1>2. ASSUME \A s \in Session : ~WebhookPay(s)
      PROVE  CreditedOnce'
    BY <1>2, OtherSteps DEF CreditedOnce
<1> QED BY <1>1, <1>2

\* A PAID intent stays PAID: the sweep and the expiry of an overdue booking
\* touch PENDING rows only, and a cron transaction holds one of those.
LEMMA PaidIntentStays ==
    ASSUME TypeOK, SnapshotsHold, [Next]_vars, NEW i \in Intent, istatus[i] = "PAID"
    PROVE  istatus'[i] = "PAID"
<1>1. ASSUME NEW s \in Session, NEW j \in Intent, CreateIntentCommit(s, j)
      PROVE  istatus'[i] = "PAID"
    BY <1>1 DEF CreateIntentCommit, StillPending, TypeOK
<1>2. ASSUME NEW s \in Session, WebhookPay(s)
      PROVE  istatus'[i] = "PAID"
    BY <1>2 DEF WebhookPay, TypeOK
<1>3. ASSUME NEW s \in Session, ExpireIntentCommit(s)
      PROVE  istatus'[i] = "PAID"
    BY <1>3 DEF ExpireIntentCommit, SnapshotsHold, TypeOK
<1>4. ASSUME NEW s \in Session, NEW b \in Booking, ExpireBooking(s, b)
      PROVE  istatus'[i] = "PAID"
    BY <1>4 DEF ExpireBooking, ClosedWith, Pending
<1>5. CASE istatus' = istatus
    BY <1>5
<1> QED
    BY <1>1, <1>2, <1>3, <1>4, <1>5
    DEF Next, vars, Tick, BankTransfer, CreateIntentRead, CreateIntentSweep, WebhookRead,
        WebhookRecord, ExpireIntentLock, AdminRead, MarkTicketed, MarkIssueFailed, Abort

\* What a customer has sent is not rewritten.
LEMMA SentStays ==
    ASSUME TypeOK, [Next]_vars, NEW t \in Transfer, sent[t] # Unsent
    PROVE  sent'[t] = sent[t]
<1>1. ASSUME NEW u \in Transfer, NEW row \in TransferRow, BankTransfer(u, row)
      PROVE  sent'[t] = sent[t]
    BY <1>1 DEF BankTransfer, TypeOK
<1>2. CASE sent' = sent
    BY <1>2
<1> QED
    BY <1>1, <1>2
    DEF Next, vars, Tick, CreateIntentRead, CreateIntentSweep, CreateIntentCommit,
        WebhookRead, WebhookRecord, WebhookPay, ExpireIntentLock, ExpireIntentCommit,
        ExpireBooking, AdminRead, MarkTicketed, MarkIssueFailed, Abort

\* A booking that has a payment keeps it.
LEMMA PaymentStays ==
    ASSUME TypeOK, SnapshotsHold, [Next]_vars, NEW b \in Booking, HasPayment(b)
    PROVE  HasPayment(b)'
<1>1. PICK k \in 1..Len(payments) : BookingOf[payments[k].intent] = b
    BY DEF HasPayment
<1>2. ASSUME NEW s \in Session, WebhookPay(s)
      PROVE  HasPayment(b)'
    <2>1. k \in 1..Len(payments') /\ payments'[k] = payments[k]
        BY <1>1, <1>2, CreditAppends
    <2> QED BY <1>1, <2>1 DEF HasPayment
<1>3. ASSUME \A s \in Session : ~WebhookPay(s)
      PROVE  HasPayment(b)'
    BY <1>1, <1>3, OtherSteps DEF HasPayment
<1> QED BY <1>2, <1>3

\* The rows a payment was made of are final, so payments stay sound.
LEMMA PaymentSoundStep ==
    ASSUME IndInv, [Next]_vars, NEW k \in 1..Len(payments')
    PROVE  PaymentSound(k)'
<1> USE DEF IndInv
<1>1. ASSUME k \in 1..Len(payments), payments'[k] = payments[k]
      PROVE  PaymentSound(k)'
    <2> DEFINE i == payments[k].intent
               t == payments[k].transfer
    <2>1. i \in Intent /\ t \in Transfer
        <3>1. payments \in Seq(PaymentRow)
            BY DEF TypeOK
        <3>2. payments[k] \in PaymentRow
            BY <1>1, <3>1
        <3> QED BY <3>2 DEF PaymentRow
    <2>2. /\ istatus[i] = "PAID"
          /\ bank[t] = "MATCHED"
          /\ sent[t] \in [type : {"in"}, ref : {i}, amount : {Price}]
          /\ payments[k].amount = Price
        BY <1>1 DEF SettledIsPaidFor, PaymentSound
    <2>3. istatus'[i] = "PAID"
        BY <2>1, <2>2, PaidIntentStays
    <2>4. sent'[t] = sent[t]
        BY <2>1, <2>2, SentStays
    <2>5. bank'[t] = "MATCHED"
        <3>1. ASSUME NEW s \in Session, WebhookPay(s)
              PROVE  bank'[t] = "MATCHED"
            BY <3>1, <2>1, <2>2 DEF WebhookPay, RowStatusOf, TypeOK
        <3> QED BY <3>1, <2>1, <2>2, OtherSteps
    <2> HIDE DEF i, t
    <2>6. payments'[k].intent = i /\ payments'[k].transfer = t /\ payments'[k].amount = Price
        BY <1>1, <2>2 DEF i, t
    <2> QED BY <2>2, <2>3, <2>4, <2>5, <2>6 DEF PaymentSound
<1>2. ASSUME NEW s \in Session, WebhookPay(s)
      PROVE  PaymentSound(k)'
    <2>1. CASE k \in 1..Len(payments)
        BY <1>1, <1>2, <2>1, CreditAppends
    <2>2. CASE k = Len(payments) + 1
        <3> DEFINE t == txn[s].transfer
                   i == sent[t].ref
        <3>1. /\ t \in Transfer /\ i \in Intent
              /\ sent[t] \in [type : {"in"}, ref : {i}, amount : {Price}]
            BY <1>2, WebhookShape
        <3>2. /\ payments'[k].intent = i
              /\ payments'[k].transfer = t
              /\ payments'[k].amount = Price
            BY <1>2, <2>2, CreditAppends
        <3>3. istatus'[i] = "PAID" /\ bank'[t] = "MATCHED" /\ sent' = sent
            BY <1>2, <3>1 DEF WebhookPay, RowStatusOf, TypeOK
        <3> HIDE DEF t, i
        <3> QED BY <3>1, <3>2, <3>3 DEF PaymentSound
    <2> QED BY <1>2, <2>1, <2>2, CreditAppends
<1>3. ASSUME \A s \in Session : ~WebhookPay(s)
      PROVE  PaymentSound(k)'
    BY <1>1, <1>3, OtherSteps
<1> QED BY <1>2, <1>3

\* A settled booking has a payment: the webhook that settles it adds one, and
\* an admin has seen PAID.
LEMMA SettledStep ==
    ASSUME IndInv, [Next]_vars
    PROVE  SettledIsPaidFor'
<1> USE DEF IndInv
<1> SUFFICES ASSUME NEW b \in Booking, status'[b] \in Settled
             PROVE  HasPayment(b)'
    BY PaymentSoundStep DEF SettledIsPaidFor
<1>1. CASE HasPayment(b)
    BY <1>1, PaymentStays
<1>2. CASE ~HasPayment(b)
    <2>1. status[b] \notin Settled
        BY <1>2 DEF SettledIsPaidFor
    <2>2. ASSUME NEW s \in Session, WebhookPay(s)
          PROVE  HasPayment(b)'
        <3> DEFINE i == sent[txn[s].transfer].ref
        <3>1. i \in Intent /\ status' = [status EXCEPT ![BookingOf[i]] = "PAID"]
            BY <2>2, WebhookShape DEF WebhookPay
        <3>2. BookingOf[i] = b
            BY <2>1, <3>1, ConstantsAssumption DEF TypeOK
        <3>3. Len(payments) + 1 \in 1..Len(payments')
            BY <2>2, CreditAppends
        <3>4. payments'[Len(payments) + 1].intent = i
            BY <2>2, CreditAppends
        <3> HIDE DEF i
        <3> QED BY <3>2, <3>3, <3>4 DEF HasPayment
    <2>3. ASSUME NEW s \in Session, MarkTicketed(s) \/ MarkIssueFailed(s)
          PROVE  FALSE
        <3>1. txn[s].kind = "admin" /\ txn[s].booking \in Booking
            BY <2>3, TxnShape DEF MarkTicketed, MarkIssueFailed, AdminTxn
        <3>2. txn[s].booking # b
            BY <3>1, <1>2 DEF SnapshotsHold
        <3> QED BY <2>1, <2>3, <3>1, <3>2 DEF MarkTicketed, MarkIssueFailed, TypeOK
    <2>4. CASE status'[b] = status[b]
        BY <2>1, <2>4
    <2>5. ASSUME NEW s \in Session, NEW i \in Intent, CreateIntentCommit(s, i)
          PROVE  status'[b] = status[b] \/ status'[b] = "PAYMENT_PENDING"
        BY <2>5 DEF CreateIntentCommit, TypeOK
    <2>6. ASSUME NEW s \in Session, ExpireIntentCommit(s)
          PROVE  status'[b] = status[b] \/ status'[b] = "HELD"
        BY <2>6 DEF ExpireIntentCommit, TypeOK
    <2>7. ASSUME NEW s \in Session, NEW c \in Booking, ExpireBooking(s, c)
          PROVE  status'[b] = status[b] \/ status'[b] = "EXPIRED"
        BY <2>7 DEF ExpireBooking, TypeOK
    <2> QED
        BY <2>2, <2>3, <2>4, <2>5, <2>6, <2>7
        DEF Next, vars, Settled, Tick, BankTransfer, CreateIntentRead, CreateIntentSweep,
            WebhookRead, WebhookRecord, ExpireIntentLock, AdminRead, Abort
<1> QED BY <1>1, <1>2

\* A transaction that is open after a step was open before it, or the step is
\* its first read.
LEMMA TxnStep ==
    ASSUME TypeOK, [Next]_vars, NEW s \in Session, txn'[s] # txn[s], txn'[s] # Idle,
           txn'[s].kind # "create"
    PROVE  \/ \E t \in Transfer : WebhookRead(s, t)
           \/ \E i \in Intent : ExpireIntentLock(s, i)
           \/ \E b \in Booking, o \in {"TICKETED", "ISSUE_FAILED"} : AdminRead(s, b, o)
<1> USE DEF TypeOK, Begin, End
<1>1. ASSUME NEW r \in Session, NEW t \in Transfer, WebhookRead(r, t)
      PROVE  r = s
    BY <1>1 DEF WebhookRead
<1>2. ASSUME NEW r \in Session, NEW i \in Intent, ExpireIntentLock(r, i)
      PROVE  r = s
    BY <1>2 DEF ExpireIntentLock
<1>3. ASSUME NEW r \in Session, NEW b \in Booking,
             NEW o \in {"TICKETED", "ISSUE_FAILED"}, AdminRead(r, b, o)
      PROVE  r = s
    BY <1>3 DEF AdminRead
<1>4. ASSUME NEW r \in Session, NEW b \in Booking, CreateIntentRead(r, b)
      PROVE  FALSE
    BY <1>4 DEF CreateIntentRead
<1>5. ASSUME NEW r \in Session, CreateIntentSweep(r)
      PROVE  FALSE
    BY <1>5 DEF CreateIntentSweep
<1>6. ASSUME NEW r \in Session,
             \/ \E i \in Intent : CreateIntentCommit(r, i)
             \/ WebhookRecord(r) \/ WebhookPay(r) \/ ExpireIntentCommit(r)
             \/ MarkTicketed(r) \/ MarkIssueFailed(r) \/ Abort(r)
      PROVE  FALSE
    BY <1>6 DEF CreateIntentCommit, WebhookRecord, WebhookPay, ExpireIntentCommit,
                MarkTicketed, MarkIssueFailed, Abort
<1>7. ASSUME txn' = txn
      PROVE  FALSE
    BY <1>7
<1> HIDE DEF TypeOK, Begin, End
<1> QED
    BY <1>1, <1>2, <1>3, <1>4, <1>5, <1>6, <1>7
    DEF Next, vars, Tick, BankTransfer, ExpireBooking

\* The kind of a transaction tells which read opened it.
LEMMA TxnOpens ==
    ASSUME TypeOK, [Next]_vars, NEW s \in Session, txn'[s] # txn[s]
    PROVE  /\ txn'[s].kind = "webhook" => \E t \in Transfer : WebhookRead(s, t)
           /\ txn'[s].kind = "expire" => \E i \in Intent : ExpireIntentLock(s, i)
           /\ txn'[s].kind = "admin" =>
                 \E b \in Booking, o \in {"TICKETED", "ISSUE_FAILED"} : AdminRead(s, b, o)
<1>1. ASSUME NEW t \in Transfer, WebhookRead(s, t)
      PROVE  txn'[s].kind = "webhook"
    BY <1>1 DEF WebhookRead, Begin, TypeOK
<1>2. ASSUME NEW i \in Intent, ExpireIntentLock(s, i)
      PROVE  txn'[s].kind = "expire"
    BY <1>2 DEF ExpireIntentLock, Begin, TypeOK
<1>3. ASSUME NEW b \in Booking, NEW o \in {"TICKETED", "ISSUE_FAILED"}, AdminRead(s, b, o)
      PROVE  txn'[s].kind = "admin"
    BY <1>3 DEF AdminRead, Begin, TypeOK
<1>4. ASSUME txn'[s].kind \in {"webhook", "expire", "admin"}
      PROVE  txn'[s] # Idle /\ txn'[s].kind # "create"
    BY <1>4
<1> QED BY <1>1, <1>2, <1>3, <1>4, TxnStep

\* The row a cron transaction has locked is left to it.
LEMMA LockedIntentStays ==
    ASSUME TypeOK, SnapshotsHold, [Next]_vars, NEW s \in Session,
           txn[s].kind = "expire", txn'[s] = txn[s]
    PROVE  istatus'[txn[s].intent] = istatus[txn[s].intent]
<1> DEFINE i == txn[s].intent
<1>1. i \in Intent /\ Locked(i) /\ istatus[i] = "PENDING"
    BY TxnShape DEF Locked, ExpireTxn, SnapshotsHold
<1>2. ASSUME NEW r \in Session, NEW j \in Intent, CreateIntentCommit(r, j)
      PROVE  istatus'[i] = istatus[i]
    BY <1>1, <1>2 DEF CreateIntentCommit, StillPending
<1>3. ASSUME NEW r \in Session, WebhookPay(r)
      PROVE  istatus'[i] = istatus[i]
    <2>1. sent[txn[r].transfer].ref # i
        BY <1>1, <1>3 DEF WebhookPay
    <2> HIDE DEF i
    <2> QED BY <1>1, <1>3, <2>1 DEF WebhookPay, TypeOK
<1>4. ASSUME NEW r \in Session, ExpireIntentCommit(r)
      PROVE  istatus'[i] = istatus[i]
    <2>1. r # s
        BY <1>4 DEF ExpireIntentCommit, End, TypeOK
    <2>2. txn[r].intent # i
        BY <1>4, <2>1 DEF ExpireIntentCommit, SnapshotsHold
    <2> HIDE DEF i
    <2> QED BY <1>1, <1>4, <2>2 DEF ExpireIntentCommit, TypeOK
<1>5. ASSUME NEW r \in Session, NEW b \in Booking, ExpireBooking(r, b)
      PROVE  istatus'[i] = istatus[i]
    BY <1>1, <1>5 DEF ExpireBooking, ClosedWith
<1>6. CASE istatus' = istatus
    BY <1>6
<1> QED
    BY <1>2, <1>3, <1>4, <1>5, <1>6
    DEF Next, vars, Tick, BankTransfer, CreateIntentRead, CreateIntentSweep, WebhookRead,
        WebhookRecord, ExpireIntentLock, AdminRead, MarkTicketed, MarkIssueFailed, Abort

\* What the open transactions rely on survives the steps of the others.
LEMMA SnapshotsStep ==
    ASSUME IndInv, [Next]_vars
    PROVE  SnapshotsHold'
<1> USE DEF IndInv
<1> SUFFICES ASSUME NEW s \in Session
             PROVE
        /\ (txn'[s].kind = "webhook" /\ txn'[s].verdict = "PAID") =>
              sent'[txn'[s].transfer] \in [type : {"in"}, ref : Intent, amount : {Price}]
        /\ txn'[s].kind = "expire" =>
              /\ istatus'[txn'[s].intent] = "PENDING"
              /\ \A r \in Session \ {s} :
                    txn'[r].kind = "expire" => txn'[r].intent # txn'[s].intent
        /\ txn'[s].kind = "admin" => HasPayment(txn[s].booking)'
    BY DEF SnapshotsHold
<1>1. ASSUME txn'[s].kind = "webhook", txn'[s].verdict = "PAID"
      PROVE  sent'[txn'[s].transfer] \in [type : {"in"}, ref : Intent, amount : {Price}]
    <2>1. CASE txn'[s] = txn[s]
        <3>1. txn[s].transfer \in Transfer
            BY <1>1, <2>1, TxnShape DEF WebhookTxn
        <3>2. sent[txn[s].transfer] \in [type : {"in"}, ref : Intent, amount : {Price}]
            BY <1>1, <2>1 DEF SnapshotsHold
        <3>3. sent'[txn[s].transfer] = sent[txn[s].transfer]
            BY <3>1, <3>2, SentStays
        <3> QED BY <2>1, <3>2, <3>3
    <2>2. CASE txn'[s] # txn[s]
        <3>1. PICK t \in Transfer : WebhookRead(s, t)
            BY <1>1, <2>2, TxnOpens
        <3>2. txn'[s].transfer = t /\ VerdictOf(sent[t]) = "PAID" /\ sent' = sent
            BY <1>1, <3>1 DEF WebhookRead, Begin, TypeOK
        <3>3. sent[t] \in TransferRow
            BY <3>1 DEF WebhookRead, TypeOK
        <3>4. /\ sent[t].type = "in" /\ sent[t].ref # NoRef
              /\ ~(sent[t].amount < Price) /\ ~(sent[t].amount > Price)
            BY <3>2, <3>3 DEF VerdictOf, TransferRow
        <3>5. sent[t].amount = Price
            <4>1. sent[t].amount \in Nat /\ Price \in Nat
                BY <3>3, ConstantsAssumption DEF TransferRow
            <4> QED BY <3>4, <4>1
        <3> QED BY <3>2, <3>3, <3>4, <3>5 DEF TransferRow
    <2> QED BY <2>1, <2>2
<1>2. ASSUME txn'[s].kind = "expire"
      PROVE  istatus'[txn'[s].intent] = "PENDING"
    <2>1. CASE txn'[s] = txn[s]
        BY <1>2, <2>1, LockedIntentStays DEF SnapshotsHold
    <2>2. CASE txn'[s] # txn[s]
        <3>1. PICK i \in Intent : ExpireIntentLock(s, i)
            BY <1>2, <2>2, TxnOpens
        <3> QED BY <3>1 DEF ExpireIntentLock, OverdueIntent, Begin, TypeOK
    <2> QED BY <2>1, <2>2
<1>3. ASSUME NEW r \in Session \ {s}, txn'[s].kind = "expire", txn'[r].kind = "expire"
      PROVE  txn'[r].intent # txn'[s].intent
    <2>1. CASE txn'[s] = txn[s] /\ txn'[r] = txn[r]
        BY <1>3, <2>1 DEF SnapshotsHold
    <2>2. CASE txn'[s] # txn[s]
        <3>1. PICK i \in Intent : ExpireIntentLock(s, i)
            BY <1>3, <2>2, TxnOpens
        <3>2. txn'[s].intent = i /\ txn'[r] = txn[r] /\ ~Locked(i)
            BY <1>3, <3>1 DEF ExpireIntentLock, Begin, TypeOK
        <3> QED BY <1>3, <3>2 DEF Locked
    <2>3. CASE txn'[r] # txn[r]
        <3>1. PICK i \in Intent : ExpireIntentLock(r, i)
            BY <1>3, <2>3, TxnOpens
        <3>2. txn'[r].intent = i /\ txn'[s] = txn[s] /\ ~Locked(i)
            BY <1>3, <3>1 DEF ExpireIntentLock, Begin, TypeOK
        <3> QED BY <1>3, <3>2 DEF Locked
    <2> QED BY <2>1, <2>2, <2>3
<1>4. ASSUME txn'[s].kind = "admin"
      PROVE  HasPayment(txn[s].booking)'
    <2>1. CASE txn'[s] = txn[s]
        <3>1. txn[s].booking \in Booking /\ HasPayment(txn[s].booking)
            BY <1>4, <2>1, TxnShape DEF AdminTxn, SnapshotsHold
        <3>2. PICK b \in Booking : b = txn[s].booking
            BY <3>1
        <3>3. HasPayment(b)'
            BY <3>1, <3>2, PaymentStays
        <3> QED BY <2>1, <3>2, <3>3 DEF HasPayment
    <2>2. CASE txn'[s] # txn[s]
        <3>1. PICK b \in Booking, o \in {"TICKETED", "ISSUE_FAILED"} : AdminRead(s, b, o)
            BY <1>4, <2>2, TxnOpens
        <3>2. txn'[s].booking = b /\ status[b] = "PAID"
            BY <3>1 DEF AdminRead, Begin, Decidable, TypeOK
        <3>3. HasPayment(b)'
            BY <3>2, PaymentStays DEF SettledIsPaidFor, Settled
        <3> QED BY <3>2, <3>3 DEF HasPayment
    <2> QED BY <2>1, <2>2
<1> QED BY <1>1, <1>2, <1>3, <1>4

\* expireBookings leaves no PENDING intent, and only createIntentForBooking adds
\* one, which reopens the booking in the same transaction.
LEMMA ExpiredStep ==
    ASSUME IndInv, [Next]_vars
    PROVE  ExpiredHasNoLiveQr'
<1> USE DEF IndInv
<1> SUFFICES ASSUME NEW b \in Booking, status'[b] = "EXPIRED",
                    NEW i \in Intent, BookingOf[i] = b, istatus'[i] = "PENDING"
             PROVE  FALSE
    BY DEF ExpiredHasNoLiveQr, Pending
<1>1. ASSUME status[b] = "EXPIRED", istatus[i] = "PENDING"
      PROVE  FALSE
    BY <1>1 DEF ExpiredHasNoLiveQr, Pending
<1>2. ASSUME NEW s \in Session, NEW j \in Intent, CreateIntentCommit(s, j)
      PROVE  FALSE
    BY <1>1, <1>2, TxnShape DEF CreateIntentCommit, CreateTxn, TypeOK
<1>3. ASSUME NEW s \in Session, NEW c \in Booking, ExpireBooking(s, c)
      PROVE  FALSE
    BY <1>1, <1>3 DEF ExpireBooking, ClosedWith, Pending, TypeOK
<1>4. ASSUME NEW s \in Session, WebhookPay(s)
      PROVE  FALSE
    <2> DEFINE j == sent[txn[s].transfer].ref
    <2>1. /\ j \in Intent
          /\ status' = [status EXCEPT ![BookingOf[j]] = "PAID"]
          /\ istatus' = [istatus EXCEPT ![j] = "PAID"]
        BY <1>4, WebhookShape DEF WebhookPay
    <2> HIDE DEF j
    <2> QED BY <1>1, <2>1, ConstantsAssumption DEF TypeOK
<1>5. ASSUME NEW s \in Session, ExpireIntentCommit(s)
      PROVE  FALSE
    BY <1>1, <1>5 DEF ExpireIntentCommit, TypeOK
<1>6. ASSUME NEW s \in Session, MarkTicketed(s) \/ MarkIssueFailed(s)
      PROVE  FALSE
    BY <1>1, <1>6 DEF MarkTicketed, MarkIssueFailed, TypeOK
<1>7. ASSUME status' = status, istatus' = istatus
      PROVE  FALSE
    BY <1>1, <1>7
<1> QED
    BY <1>2, <1>3, <1>4, <1>5, <1>6, <1>7
    DEF Next, vars, Tick, BankTransfer, CreateIntentRead, CreateIntentSweep, WebhookRead,
        WebhookRecord, ExpireIntentLock, AdminRead, Abort

-----------------------------------------------------------------------------
\* The invariant holds before the first request and through every step.
LEMMA InitIndInv == Init => IndInv
<1> SUFFICES ASSUME Init PROVE IndInv
    OBVIOUS
<1>1. TypeOK
    BY ConstantsAssumption DEF Init, TypeOK, BookingStatus, IntentStatus
<1>2. Len(payments) = 0
    BY DEF Init
<1>3. CreditedOnce
    BY <1>2 DEF Init, CreditedOnce
<1>4. SettledIsPaidFor
    BY <1>2 DEF Init, SettledIsPaidFor, Settled
<1>5. SnapshotsHold /\ ExpiredHasNoLiveQr
    BY DEF Init, SnapshotsHold, ExpiredHasNoLiveQr
<1> QED BY <1>1, <1>3, <1>4, <1>5 DEF IndInv

LEMMA IndInvStep == IndInv /\ [Next]_vars => IndInv'
<1> SUFFICES ASSUME IndInv, [Next]_vars PROVE IndInv'
    OBVIOUS
<1>1. TypeOK'
    BY TypeStep DEF IndInv
<1> QED
    BY <1>1, CreditedOnceStep, SettledStep, SnapshotsStep, ExpiredStep DEF IndInv

LEMMA Invariance == Spec => []IndInv
    BY InitIndInv, IndInvStep, PTL DEF Spec

\* Whatever the handlers find in the rows, the rows keep their types.
THEOREM TypeCorrect == Spec => []TypeOK
<1>1. IndInv => TypeOK
    BY DEF IndInv
<1> QED BY <1>1, Invariance, PTL

\* However often and however concurrently SePay delivers a transfer, it is
\* credited at most once, and MATCHED bank rows are exactly the credited ones.
THEOREM NoDoubleCredit == Spec => []CreditedOnce
<1>1. IndInv => CreditedOnce
    BY DEF IndInv
<1> QED BY <1>1, Invariance, PTL

\* No booking is paid, ticketed or failed to issue without a payment, and every
\* payment is the exact price from a transfer naming the booking's order code.
THEOREM SettledMeansPaid == Spec => []SettledIsPaidFor
<1>1. IndInv => SettledIsPaidFor
    BY DEF IndInv
<1> QED BY <1>1, Invariance, PTL

\* An expired booking has no live QR code, however its expiry interleaves with
\* requests for new codes.
THEOREM ExpiredIsDark == Spec => []ExpiredHasNoLiveQr
<1>1. IndInv => ExpiredHasNoLiveQr
    BY DEF IndInv
<1> QED BY <1>1, Invariance, PTL

\* What an open transaction relies on is not undone by the others.
THEOREM SnapshotsAreSafe == Spec => []SnapshotsHold
<1>1. IndInv => SnapshotsHold
    BY DEF IndInv
<1> QED BY <1>1, Invariance, PTL

\* A dead QR code comes back to life in no step, except that a late transfer may
\* still pay it.
LEMMA ExpiredIntentStays ==
    ASSUME TypeOK, [Next]_vars, NEW i \in Intent, istatus[i] = "EXPIRED"
    PROVE  istatus'[i] \in {"EXPIRED", "PAID"}
<1>1. ASSUME NEW s \in Session, NEW j \in Intent, CreateIntentCommit(s, j)
      PROVE  istatus'[i] = "EXPIRED"
    BY <1>1 DEF CreateIntentCommit, TypeOK
<1>2. ASSUME NEW s \in Session, WebhookPay(s)
      PROVE  istatus'[i] \in {"EXPIRED", "PAID"}
    BY <1>2 DEF WebhookPay, TypeOK
<1>3. ASSUME NEW s \in Session, ExpireIntentCommit(s)
      PROVE  istatus'[i] = "EXPIRED"
    BY <1>3 DEF ExpireIntentCommit, TypeOK
<1>4. ASSUME NEW s \in Session, NEW b \in Booking, ExpireBooking(s, b)
      PROVE  istatus'[i] = "EXPIRED"
    BY <1>4 DEF ExpireBooking, TypeOK
<1>5. CASE istatus' = istatus
    BY <1>5
<1> QED
    BY <1>1, <1>2, <1>3, <1>4, <1>5
    DEF Next, vars, Tick, BankTransfer, CreateIntentRead, CreateIntentSweep, WebhookRead,
        WebhookRecord, ExpireIntentLock, AdminRead, MarkTicketed, MarkIssueFailed, Abort

\* Neither a sweep nor the cron expires a paid intent, and no dead one revives.
THEOREM IntentsAdvance == Spec => IntentsOnlyAdvance
<1>1. IndInv /\ [Next]_vars =>
        [\A i \in Intent :
            /\ istatus[i] = "PAID" => istatus'[i] = "PAID"
            /\ istatus[i] = "EXPIRED" => istatus'[i] \in {"EXPIRED", "PAID"}]_vars
    BY PaidIntentStays, ExpiredIntentStays DEF IndInv
<1> QED BY <1>1, Invariance, PTL DEF Spec, IntentsOnlyAdvance

\* The refinement mapping of the ledger, named for the proof.
decided  == [t \in Transfer |-> IF bank[t] = "NONE" THEN "open"
                                ELSE IF bank[t] = "MATCHED" THEN "credited" ELSE "filed"]
credited == [b \in Booking |->
               {t \in Transfer : \E k \in 1..Len(payments) :
                    payments[k].transfer = t /\ BookingOf[payments[k].intent] = b}]

\* A payment row adds its transfer to the account of its booking only.
LEMMA CreditMaps ==
    ASSUME TypeOK, SnapshotsHold, NEW s \in Session, WebhookPay(s)
    PROVE  LET t == txn[s].transfer
               b == BookingOf[sent[t].ref]
           IN  credited' = [credited EXCEPT ![b] = @ \union {t}]
<1> DEFINE t == txn[s].transfer
           i == sent[t].ref
           b == BookingOf[i]
           n == Len(payments)
<1>1. t \in Transfer /\ i \in Intent /\ b \in Booking
    BY WebhookShape, ConstantsAssumption
<1>2. /\ n \in Nat /\ Len(payments') = n + 1
      /\ \A k \in 1..n : payments'[k] = payments[k]
      /\ payments'[n + 1].intent = i /\ payments'[n + 1].transfer = t
    BY CreditAppends
<1> HIDE DEF t, i, n
<1>3. ASSUME NEW c \in Booking, NEW u \in Transfer
      PROVE  (\E k \in 1..(n + 1) :
                  payments'[k].transfer = u /\ BookingOf[payments'[k].intent] = c)
             <=> \/ \E k \in 1..n :
                      payments[k].transfer = u /\ BookingOf[payments[k].intent] = c
                 \/ u = t /\ c = b
    BY <1>2
<1>4. ASSUME NEW c \in Booking
      PROVE  credited'[c] = IF c = b THEN credited[c] \union {t} ELSE credited[c]
    BY <1>1, <1>2, <1>3 DEF credited, n
<1> QED BY <1>1, <1>4 DEF credited, t, i

\* The transactions of the payment code implement the ledger: a transfer is
\* decided once, for good, and credited to one booking.
THEOREM LedgerRefined == Spec => LedgerSpec
<1> USE DEF Ledger!ledgerVars
<1>1. Init => Ledger!Init
    <2> SUFFICES ASSUME Init PROVE Ledger!Init
        OBVIOUS
    <2>1. Len(payments) = 0
        BY DEF Init
    <2> QED BY <2>1 DEF Init, Ledger!Init
<1>2. IndInv /\ [Next]_vars => [Ledger!Next]_(Ledger!ledgerVars)
    <2> SUFFICES ASSUME IndInv, [Next]_vars
                 PROVE  Ledger!Next \/ (decided' = decided /\ credited' = credited)
        BY DEF decided, credited
    <2> USE DEF IndInv
    <2>1. ASSUME NEW s \in Session, WebhookPay(s)
          PROVE  Ledger!Next
        <3>1. PICK t \in Transfer, b \in Booking :
                 t = txn[s].transfer /\ b = BookingOf[sent[t].ref]
            BY <2>1, WebhookShape, ConstantsAssumption
        <3>2. credited' = [credited EXCEPT ![b] = @ \union {t}]
            BY <2>1, <3>1, CreditMaps
        <3>3. bank[t] = "NONE" /\ bank' = [bank EXCEPT ![t] = "MATCHED"]
            BY <2>1, <3>1 DEF WebhookPay, Unrecorded, RowStatusOf
        <3>4. decided[t] = "open" /\ decided' = [decided EXCEPT ![t] = "credited"]
            BY <3>3 DEF decided, TypeOK
        <3>5. Ledger!Credit(t, b)
            BY <3>2, <3>4 DEF Ledger!Credit, decided, credited
        <3> QED BY <3>5, Zenon DEF Ledger!Next
    <2>2. ASSUME NEW s \in Session, WebhookRecord(s)
          PROVE  Ledger!Next
        <3>1. PICK t \in Transfer : t = txn[s].transfer
            BY <2>2, TxnShape DEF WebhookRecord, WebhookTxn
        <3>2. /\ bank[t] = "NONE" /\ payments' = payments
              /\ \E st \in RowStatus \ {"MATCHED"} : bank' = [bank EXCEPT ![t] = st]
            <4>1. RowStatusOf(txn[s].verdict) \in RowStatus \ {"MATCHED"}
                BY <2>2 DEF WebhookRecord, RowStatusOf, RowStatus
            <4> QED BY <2>2, <3>1, <4>1 DEF WebhookRecord, Unrecorded
        <3>3. decided[t] = "open" /\ decided' = [decided EXCEPT ![t] = "filed"]
            BY <3>2 DEF decided, RowStatus, TypeOK
        <3>4. credited' = credited
            BY <3>2 DEF credited
        <3>5. Ledger!File(t)
            BY <3>3, <3>4 DEF Ledger!File, decided, credited
        <3> QED BY <3>5, Zenon DEF Ledger!Next
    <2>3. CASE bank' = bank /\ payments' = payments
        BY <2>3 DEF decided, credited
    <2> QED
        BY <2>1, <2>2, <2>3
        DEF Next, vars, Tick, BankTransfer, CreateIntentRead, CreateIntentSweep,
            CreateIntentCommit, WebhookRead, ExpireIntentLock, ExpireIntentCommit,
            ExpireBooking, AdminRead, MarkTicketed, MarkIssueFailed, Abort
<1> QED BY <1>1, <1>2, Invariance, PTL DEF Spec, LedgerSpec, Ledger!Spec


-----------------------------------------------------------------------------
(* One transaction at a time.                                              *)
(*                                                                         *)
(* With a single session nothing comes between the first statement of a    *)
(* transaction and its commit but the clock and the customers, so what it  *)
(* has read is still so when it commits.                                   *)

Alone == \A r, s \in Session : r = s

StillTrue(s) ==
    /\ txn[s].kind = "create" =>
          /\ status[txn[s].booking] \in Open
          /\ txn[s].stage = "ready" => Pending(txn[s].booking) \subseteq txn[s].sweep
          /\ \A i \in txn[s].sweep : BookingOf[i] = txn[s].booking
    /\ txn[s].kind = "webhook" =>
          LET row == sent[txn[s].transfer]
          IN  /\ row # Unsent
              /\ txn[s].verdict = "PAID" => status[BookingOf[row.ref]] \in Open
              /\ RowStatusOf(txn[s].verdict) = "MANUAL_REVIEW" /\ row.ref # NoRef
                    /\ row.amount = Price => ~Payable(BookingOf[row.ref])
    /\ txn[s].kind = "expire" => txn[s].last
    /\ txn[s].kind = "admin" => status[txn[s].booking] = "PAID"

SerialInv ==
    /\ \A s \in Session : StillTrue(s)
    /\ \A b \in Booking : \A i, j \in Pending(b) : i = j
    /\ AwaitingIffLiveQr
    /\ \A t \in Transfer : bank[t] # "NONE" => sent[t] # Unsent
    /\ ReviewedOnlyIfClosed
    /\ \A b \in Booking : HasPayment(b) => status[b] \in Settled
    /\ PaidAtMostOnce

\* How the status of a booking moves in one step.
LEMMA StatusMoves ==
    ASSUME IndInv, SerialInv, Next, NEW b \in Booking
    PROVE  \/ status'[b] = status[b]
           \/ status[b] \in Open /\ status'[b] \in {"PAYMENT_PENDING", "PAID"}
           \/ status[b] = "PAYMENT_PENDING" /\ status'[b] = "HELD"
           \/ status[b] \in Open /\ Deadline[b] < now /\ status'[b] = "EXPIRED"
           \/ status[b] = "PAID" /\ status'[b] \in {"TICKETED", "ISSUE_FAILED"}
<1> USE DEF IndInv
<1> DEFINE Goal == \/ status'[b] = status[b]
                   \/ status[b] \in Open /\ status'[b] \in {"PAYMENT_PENDING", "PAID"}
                   \/ status[b] = "PAYMENT_PENDING" /\ status'[b] = "HELD"
                   \/ status[b] \in Open /\ Deadline[b] < now /\ status'[b] = "EXPIRED"
                   \/ status[b] = "PAID" /\ status'[b] \in {"TICKETED", "ISSUE_FAILED"}
<1>1. ASSUME NEW s \in Session, NEW i \in Intent, CreateIntentCommit(s, i) PROVE Goal
    BY <1>1 DEF CreateIntentCommit, SerialInv, StillTrue, TypeOK
<1>2. ASSUME NEW s \in Session, WebhookPay(s) PROVE Goal
    <2> DEFINE i == sent[txn[s].transfer].ref
    <2>1. status' = [status EXCEPT ![BookingOf[i]] = "PAID"] /\ status[BookingOf[i]] \in Open
        BY <1>2 DEF WebhookPay, SerialInv, StillTrue
    <2> HIDE DEF i
    <2> QED BY <2>1 DEF TypeOK
<1>3. ASSUME NEW s \in Session, ExpireIntentCommit(s) PROVE Goal
    BY <1>3 DEF ExpireIntentCommit, TypeOK
<1>4. ASSUME NEW s \in Session, NEW c \in Booking, ExpireBooking(s, c) PROVE Goal
    BY <1>4 DEF ExpireBooking, Overdue, TypeOK
<1>5. ASSUME NEW s \in Session, MarkTicketed(s) \/ MarkIssueFailed(s) PROVE Goal
    BY <1>5 DEF MarkTicketed, MarkIssueFailed, SerialInv, StillTrue, TypeOK
<1>6. ASSUME status' = status PROVE Goal
    BY <1>6
<1> HIDE DEF Goal
<1>7. Goal
    BY <1>1, <1>2, <1>3, <1>4, <1>5, <1>6
    DEF Next, Tick, BankTransfer, CreateIntentRead, CreateIntentSweep, WebhookRead,
        WebhookRecord, ExpireIntentLock, AdminRead, Abort
<1> QED BY <1>7 DEF Goal

\* A booking that cannot be paid any more never can be again.
LEMMA UnpayableStays ==
    ASSUME IndInv, SerialInv, Next, NEW b \in Booking, ~Payable(b)
    PROVE  ~Payable(b)'
<1>1. now' = now \/ now' = now + 1
  <2>1. ASSUME NEW s \in Session,
               \/ WebhookRecord(s) \/ WebhookPay(s) \/ ExpireIntentCommit(s) \/ Abort(s)
               \/ MarkTicketed(s) \/ MarkIssueFailed(s) \/ CreateIntentSweep(s)
               \/ \E i \in Intent : CreateIntentCommit(s, i) \/ ExpireIntentLock(s, i)
        PROVE  now' = now
    BY <2>1 DEF WebhookRecord, WebhookPay, ExpireIntentCommit, Abort, MarkTicketed,
                MarkIssueFailed, CreateIntentSweep, CreateIntentCommit, ExpireIntentLock
  <2> QED BY <2>1 DEF Next, Tick, BankTransfer, CreateIntentRead, WebhookRead, ExpireBooking,
                      AdminRead
<1>2. status[b] \notin Open => status'[b] \notin Open
    BY StatusMoves DEF Open
<1>3. Deadline[b] > now' => Deadline[b] > now
    BY <1>1, ConstantsAssumption DEF IndInv, TypeOK
<1> QED BY <1>2, <1>3 DEF Payable

\* Only a commit of createIntentForBooking makes a QR code live.
LEMMA LiveQrs ==
    ASSUME IndInv, Next
    PROVE  \/ \E s \in Session, i \in Intent : CreateIntentCommit(s, i)
           \/ \A b \in Booking : Pending(b)' \subseteq Pending(b)
<1> USE DEF IndInv, Pending
<1> DEFINE Goal == \A b \in Booking : Pending(b)' \subseteq Pending(b)
<1>1. ASSUME NEW s \in Session, WebhookPay(s) PROVE Goal
    BY <1>1 DEF WebhookPay, TypeOK
<1>2. ASSUME NEW s \in Session, ExpireIntentCommit(s) PROVE Goal
    BY <1>2 DEF ExpireIntentCommit, TypeOK
<1>3. ASSUME NEW s \in Session, NEW b \in Booking, ExpireBooking(s, b) PROVE Goal
    BY <1>3 DEF ExpireBooking
<1>4. CASE istatus' = istatus
    BY <1>4
<1> QED
    BY <1>1, <1>2, <1>3, <1>4
    DEF Next, Tick, BankTransfer, CreateIntentRead, CreateIntentSweep, WebhookRead,
        WebhookRecord, ExpireIntentLock, AdminRead, MarkTicketed, MarkIssueFailed, Abort

\* The sweep has seen every live QR code of the booking, so the new one is alone.
LEMMA NewQrIsAlone ==
    ASSUME IndInv, SerialInv, NEW s \in Session, NEW i \in Intent, CreateIntentCommit(s, i)
    PROVE  /\ Pending(BookingOf[i])' = {i}
           /\ status'[BookingOf[i]] = "PAYMENT_PENDING"
           /\ \A b \in Booking \ {BookingOf[i]} :
                 Pending(b)' \subseteq Pending(b) /\ status'[b] = status[b]
<1> USE DEF IndInv
<1>1. /\ BookingOf[i] = txn[s].booking /\ BookingOf[i] \in Booking
      /\ Pending(BookingOf[i]) \subseteq txn[s].sweep
    BY ConstantsAssumption DEF CreateIntentCommit, SerialInv, StillTrue
<1>2. \A j \in Intent : istatus'[j] = IF j = i THEN "PENDING"
                                      ELSE IF j \in StillPending(txn[s].sweep) THEN "EXPIRED"
                                      ELSE istatus[j]
    BY DEF CreateIntentCommit
<1>3. \A j \in Intent : istatus'[j] = "PENDING" => j = i \/ istatus[j] = "PENDING"
    BY <1>2
<1>4. \A j \in Pending(BookingOf[i]) \ {i} : istatus'[j] = "EXPIRED"
    BY <1>1, <1>2 DEF Pending, StillPending
<1>5. /\ status'[BookingOf[i]] = "PAYMENT_PENDING"
      /\ \A b \in Booking \ {BookingOf[i]} : status'[b] = status[b]
    BY <1>1 DEF CreateIntentCommit, TypeOK
<1> QED BY <1>2, <1>3, <1>4, <1>5 DEF Pending

LEMMA OneLiveStep ==
    ASSUME IndInv, SerialInv, Next
    PROVE  \A b \in Booking : \A i, j \in Pending(b)' : i = j
<1>1. ASSUME NEW s \in Session, NEW i \in Intent, CreateIntentCommit(s, i),
             NEW b \in Booking, NEW j \in Pending(b)', NEW k \in Pending(b)'
      PROVE  j = k
    BY <1>1, NewQrIsAlone DEF SerialInv
<1>2. CASE \A b \in Booking : Pending(b)' \subseteq Pending(b)
    BY <1>2 DEF SerialInv
<1> QED BY <1>1, <1>2, LiveQrs

LEMMA AwaitingStep ==
    ASSUME IndInv, SerialInv, Next
    PROVE  AwaitingIffLiveQr'
<1> USE DEF IndInv
<1> SUFFICES ASSUME NEW b \in Booking, status'[b] \in Open
             PROVE  status'[b] = "PAYMENT_PENDING" <=> Pending(b)' # {}
    BY DEF AwaitingIffLiveQr
<1> DEFINE Goal == status'[b] = "PAYMENT_PENDING" <=> Pending(b)' # {}
<1>1. status[b] \in Open /\ (status[b] = "PAYMENT_PENDING" <=> Pending(b) # {})
    <2>1. status[b] \in Open
        BY StatusMoves DEF Open
    <2> QED BY <2>1 DEF SerialInv, AwaitingIffLiveQr
<1>2. ASSUME NEW s \in Session, NEW i \in Intent, CreateIntentCommit(s, i) PROVE Goal
    <2>1. CASE b = BookingOf[i]
        BY <1>2, <2>1, NewQrIsAlone
    <2>2. CASE b # BookingOf[i]
        <3>1. Pending(b)' = Pending(b)
            BY <1>2, <2>2, TxnShape DEF CreateIntentCommit, StillPending, Pending, SerialInv, StillTrue
        <3> QED BY <1>1, <1>2, <2>2, <3>1, NewQrIsAlone
    <2> QED BY <2>1, <2>2
<1>3. ASSUME NEW s \in Session, WebhookPay(s) PROVE Goal
    <2> DEFINE i == sent[txn[s].transfer].ref
    <2>1. /\ status' = [status EXCEPT ![BookingOf[i]] = "PAID"]
          /\ istatus' = [istatus EXCEPT ![i] = "PAID"]
          /\ i \in Intent /\ BookingOf[i] \in Booking
        BY <1>3, WebhookShape, ConstantsAssumption DEF WebhookPay
    <2> HIDE DEF i
    <2>2. b # BookingOf[i]
        BY <2>1 DEF TypeOK, Open
    <2> QED BY <1>1, <2>1, <2>2 DEF TypeOK, Pending
<1>4. ASSUME NEW s \in Session, ExpireIntentCommit(s) PROVE Goal
    <2> DEFINE i == txn[s].intent
    <2>1. /\ i \in Intent /\ istatus[i] = "PENDING" /\ txn[s].last
          /\ istatus' = [istatus EXCEPT ![i] = "EXPIRED"]
        BY <1>4, TxnShape DEF ExpireIntentCommit, ExpireTxn, SnapshotsHold, SerialInv, StillTrue
    <2>2. /\ b # BookingOf[i] => status'[b] = status[b]
          /\ b = BookingOf[i] /\ status[b] = "PAYMENT_PENDING" => status'[b] = "HELD"
        BY <1>4, <2>1 DEF ExpireIntentCommit, TypeOK
    <2> HIDE DEF i
    <2>3. CASE b = BookingOf[i]
        <3>1. Pending(b) = {i}
            BY <2>1, <2>3 DEF SerialInv, Pending
        <3> QED BY <1>1, <2>1, <2>2, <2>3, <3>1 DEF Pending, TypeOK
    <2>4. CASE b # BookingOf[i]
        BY <1>1, <2>1, <2>2, <2>4 DEF Pending, TypeOK
    <2> QED BY <2>3, <2>4
<1>5. ASSUME NEW s \in Session, NEW c \in Booking, ExpireBooking(s, c) PROVE Goal
    <2>1. b # c
        BY <1>5 DEF ExpireBooking, TypeOK, Open
    <2> QED BY <1>1, <1>5, <2>1 DEF ExpireBooking, ClosedWith, Pending, TypeOK
<1>6. ASSUME NEW s \in Session, MarkTicketed(s) \/ MarkIssueFailed(s) PROVE Goal
    BY <1>1, <1>6 DEF MarkTicketed, MarkIssueFailed, Pending, Open, TypeOK
<1>7. ASSUME UNCHANGED <<status, istatus>> PROVE Goal
    BY <1>1, <1>7 DEF Pending
<1> HIDE DEF Goal
<1>8. Goal
    BY <1>2, <1>3, <1>4, <1>5, <1>6, <1>7
    DEF Next, Tick, BankTransfer, CreateIntentRead, CreateIntentSweep, WebhookRead,
        WebhookRecord, ExpireIntentLock, AdminRead, Abort
<1> QED BY <1>8 DEF Goal

\* The steps after which the only session has a transaction open.
LEMMA AloneSteps ==
    ASSUME Alone, TypeOK, Next, NEW s \in Session
    PROVE  \/ txn'[s] = Idle
           \/ txn' = txn /\ (Tick \/ \E t \in Transfer, row \in TransferRow : BankTransfer(t, row))
           \/ \E b \in Booking : CreateIntentRead(s, b)
           \/ CreateIntentSweep(s)
           \/ \E t \in Transfer : WebhookRead(s, t)
           \/ \E i \in Intent : ExpireIntentLock(s, i)
           \/ \E b \in Booking, o \in {"TICKETED", "ISSUE_FAILED"} : AdminRead(s, b, o)
<1>1. ASSUME NEW r \in Session,
             \/ WebhookRecord(r) \/ WebhookPay(r) \/ ExpireIntentCommit(r) \/ Abort(r)
             \/ MarkTicketed(r) \/ MarkIssueFailed(r)
             \/ \E i \in Intent : CreateIntentCommit(r, i)
      PROVE  txn'[s] = Idle
    <2>1. r = s /\ End(r)
        BY <1>1 DEF Alone, WebhookRecord, WebhookPay, ExpireIntentCommit, Abort, MarkTicketed,
                    MarkIssueFailed, CreateIntentCommit
    <2> QED BY <2>1 DEF End, TypeOK
<1>2. ASSUME NEW r \in Session, NEW b \in Booking, ExpireBooking(r, b)
      PROVE  txn'[s] = Idle
    BY <1>2 DEF Alone, ExpireBooking
<1>3. Tick => txn' = txn
    BY DEF Tick
<1>4. ASSUME NEW t \in Transfer, NEW row \in TransferRow, BankTransfer(t, row) PROVE txn' = txn
    BY <1>4 DEF BankTransfer
<1> QED BY <1>1, <1>2, <1>3, <1>4, Zenon DEF Next, Alone

\* A transfer that was made names an order code, or none.
LEMMA TransferShape ==
    ASSUME TypeOK, NEW t \in Transfer, sent[t] # Unsent
    PROVE  /\ sent[t] \in TransferRow
           /\ sent[t].ref = NoRef \/ BookingOf[sent[t].ref] \in Booking
           /\ sent[t].amount \in Nat
    BY ConstantsAssumption DEF TypeOK, TransferRow

\* Booking b cannot be paid after the step.
Closed(b) == status'[b] \notin Open \/ ~(Deadline[b] > now')

LEMMA StillTrueStep ==
    ASSUME Alone, IndInv, SerialInv, Next, NEW s \in Session
    PROVE  StillTrue(s)'
<1> USE DEF IndInv
<1>1. CASE txn'[s] = Idle
    BY <1>1 DEF StillTrue
<1>2. ASSUME txn' = txn, Tick \/ \E t \in Transfer, row \in TransferRow : BankTransfer(t, row)
      PROVE  StillTrue(s)'
    <2>1. UNCHANGED <<status, istatus, txn>>
        BY <1>2 DEF Tick, BankTransfer
    <2>2. StillTrue(s)
        BY DEF SerialInv
    <2>3. ASSUME txn[s].kind = "webhook"
          PROVE  LET row == sent[txn[s].transfer]
                 IN  /\ sent'[txn[s].transfer] = row /\ row # Unsent
                     /\ txn[s].verdict = "PAID" => status[BookingOf[row.ref]] \in Open
                     /\ RowStatusOf(txn[s].verdict) = "MANUAL_REVIEW" /\ row.ref # NoRef
                           /\ row.amount = Price => Closed(BookingOf[row.ref])
        <3> DEFINE t == txn[s].transfer
        <3>1. t \in Transfer /\ sent[t] # Unsent
            BY <2>2, <2>3, TxnShape DEF StillTrue, WebhookTxn
        <3>2. sent'[t] = sent[t]
            BY <3>1, SentStays
        <3>3. ASSUME RowStatusOf(txn[s].verdict) = "MANUAL_REVIEW",
                     sent[t].ref # NoRef, sent[t].amount = Price
              PROVE  Closed(BookingOf[sent[t].ref])
            <4>1. BookingOf[sent[t].ref] \in Booking
                BY <3>1, <3>3, TransferShape
            <4>2. ~Payable(BookingOf[sent[t].ref])
                BY <2>2, <2>3, <3>3 DEF StillTrue
            <4> QED BY <4>1, <4>2, UnpayableStays DEF Payable, Closed
        <3> QED BY <2>2, <2>3, <3>1, <3>2, <3>3 DEF StillTrue
    <2> QED BY <2>1, <2>2, <2>3 DEF StillTrue, Pending, Payable, Closed
<1>3. ASSUME NEW b \in Booking, CreateIntentRead(s, b) PROVE StillTrue(s)'
    <2>1. txn'[s] = [kind |-> "create", booking |-> b, sweep |-> {},
                     stage |-> IF NeedsSweep(b) THEN "sweep" ELSE "ready"]
        BY <1>3 DEF CreateIntentRead, Begin, TypeOK
    <2>2. status'[b] \in Open /\ Pending(b)' = Pending(b)
        BY <1>3 DEF CreateIntentRead, Payable, Pending
    <2> QED BY <2>1, <2>2 DEF StillTrue, NeedsSweep
<1>4. CASE CreateIntentSweep(s)
    <2>1. txn'[s] = [kind |-> "create", booking |-> txn[s].booking,
                     stage |-> "ready", sweep |-> Pending(txn[s].booking)]
        BY <1>4 DEF CreateIntentSweep, TypeOK
    <2>2. status'[txn[s].booking] \in Open /\ \A b : Pending(b)' = Pending(b)
        BY <1>4 DEF CreateIntentSweep, SerialInv, StillTrue, Pending
    <2> QED BY <2>1, <2>2 DEF StillTrue, Pending
<1>5. ASSUME NEW t \in Transfer, WebhookRead(s, t) PROVE StillTrue(s)'
    <2>1. txn'[s] = [kind |-> "webhook", transfer |-> t, verdict |-> VerdictOf(sent[t])]
        BY <1>5 DEF WebhookRead, Begin, TypeOK
    <2>2. sent[t] # Unsent /\ UNCHANGED <<sent, status, now>>
        BY <1>5 DEF WebhookRead
    <2>3. /\ VerdictOf(sent[t]) = "PAID" => status[BookingOf[sent[t].ref]] \in Open
          /\ RowStatusOf(VerdictOf(sent[t])) = "MANUAL_REVIEW" /\ sent[t].ref # NoRef
                /\ sent[t].amount = Price => ~Payable(BookingOf[sent[t].ref])
        BY <2>2, TransferShape, ConstantsAssumption DEF VerdictOf, RowStatusOf, Payable
    <2> QED BY <2>1, <2>2, <2>3 DEF StillTrue, Payable
<1>6. ASSUME NEW i \in Intent, ExpireIntentLock(s, i) PROVE StillTrue(s)'
    <2>1. txn'[s] = [kind |-> "expire", intent |-> i, last |-> LastPending(i)]
        BY <1>6 DEF ExpireIntentLock, Begin, TypeOK
    <2>2. i \in Pending(BookingOf[i]) /\ BookingOf[i] \in Booking
        BY <1>6, ConstantsAssumption DEF ExpireIntentLock, OverdueIntent, Pending
    <2>3. LastPending(i)
        BY <2>2 DEF LastPending, SerialInv
    <2> QED BY <2>1, <2>3 DEF StillTrue
<1>7. ASSUME NEW b \in Booking, NEW o \in {"TICKETED", "ISSUE_FAILED"}, AdminRead(s, b, o)
      PROVE  StillTrue(s)'
    <2>1. txn'[s] = [kind |-> "admin", booking |-> b, outcome |-> o] /\ status'[b] = "PAID"
        BY <1>7 DEF AdminRead, Begin, Decidable, TypeOK
    <2> QED BY <2>1 DEF StillTrue
<1> QED BY <1>1, <1>2, <1>3, <1>4, <1>5, <1>6, <1>7, AloneSteps, Zenon

\* What is filed was sent, and what goes to manual review can never be paid.
LEMMA FiledStep ==
    ASSUME IndInv, SerialInv, Next
    PROVE  /\ \A t \in Transfer : bank'[t] # "NONE" => sent'[t] # Unsent
           /\ ReviewedOnlyIfClosed'
<1> USE DEF IndInv
<1>1. ASSUME NEW t \in Transfer, bank'[t] # "NONE"
      PROVE  /\ sent[t] # Unsent
             /\ bank'[t] = "MANUAL_REVIEW" /\ sent[t].ref # NoRef /\ sent[t].amount = Price
                  => ~Payable(BookingOf[sent[t].ref])
    <2>1. CASE bank'[t] = bank[t]
        BY <1>1, <2>1 DEF SerialInv, ReviewedOnlyIfClosed
    <2>2. ASSUME NEW s \in Session, WebhookPay(s), bank'[t] # bank[t]
          PROVE  sent[t] # Unsent /\ bank'[t] = "MATCHED"
        <3>1. t = txn[s].transfer /\ bank'[t] = "MATCHED"
            BY <2>2, WebhookShape DEF WebhookPay, RowStatusOf, TypeOK
        <3> QED BY <2>2, <3>1, WebhookShape
    <2>3. ASSUME NEW s \in Session, WebhookRecord(s), bank'[t] # bank[t]
          PROVE  /\ sent[t] # Unsent
                 /\ bank'[t] = "MANUAL_REVIEW" /\ sent[t].ref # NoRef /\ sent[t].amount = Price
                      => ~Payable(BookingOf[sent[t].ref])
        <3>1. t = txn[s].transfer /\ bank'[t] = RowStatusOf(txn[s].verdict)
            BY <2>3 DEF WebhookRecord, TypeOK
        <3> QED BY <2>3, <3>1 DEF WebhookRecord, SerialInv, StillTrue
    <2> QED
        BY <2>1, <2>2, <2>3
        DEF Next, Tick, BankTransfer, CreateIntentRead, CreateIntentSweep, CreateIntentCommit,
            WebhookRead, ExpireIntentLock, ExpireIntentCommit, ExpireBooking, AdminRead,
            MarkTicketed, MarkIssueFailed, Abort
<1>2. ASSUME NEW t \in Transfer, bank'[t] # "NONE" PROVE sent'[t] = sent[t]
    BY <1>1, <1>2, SentStays
<1>3. ASSUME NEW t \in Transfer, bank'[t] = "MANUAL_REVIEW", sent'[t].ref # NoRef,
             sent'[t].amount = Price
      PROVE  ~Payable(BookingOf[sent[t].ref])'
    <2>1. sent'[t] = sent[t] /\ sent[t] # Unsent
        BY <1>1, <1>2, <1>3
    <2>2. PICK b \in Booking : b = BookingOf[sent[t].ref]
        BY <1>3, <2>1, TransferShape
    <2>3. ~Payable(b)'
        BY <1>1, <1>3, <2>1, <2>2, UnpayableStays
    <2> QED BY <2>1, <2>2, <2>3 DEF Payable
<1> QED BY <1>1, <1>2, <1>3 DEF ReviewedOnlyIfClosed

\* A paid booking stays settled, so its second transfer finds it closed.
LEMMA PaidOnceStep ==
    ASSUME IndInv, SerialInv, Next
    PROVE  /\ \A b \in Booking : HasPayment(b)' => status'[b] \in Settled
           /\ PaidAtMostOnce'
<1> USE DEF IndInv
<1>1. ASSUME NEW b \in Booking, HasPayment(b) PROVE status'[b] \in Settled
    BY <1>1, StatusMoves DEF SerialInv, Settled, Open
<1>2. ASSUME NEW s \in Session, WebhookPay(s)
      PROVE  /\ \A b \in Booking : HasPayment(b)' => status'[b] \in Settled
             /\ PaidAtMostOnce'
    <2> DEFINE i == sent[txn[s].transfer].ref
               n == Len(payments)
    <2>1. /\ i \in Intent /\ BookingOf[i] \in Booking /\ status[BookingOf[i]] \in Open
          /\ status' = [status EXCEPT ![BookingOf[i]] = "PAID"]
        <3>1. i \in Intent /\ BookingOf[i] \in Booking
            BY <1>2, WebhookShape, ConstantsAssumption
        <3> QED BY <1>2, <3>1 DEF WebhookPay, SerialInv, StillTrue
    <2>2. /\ n \in Nat /\ Len(payments') = n + 1
          /\ \A k \in 1..n : payments'[k] = payments[k]
          /\ payments'[n + 1].intent = i
        BY <1>2, CreditAppends
    <2>3. ~HasPayment(BookingOf[i])
        BY <2>1 DEF SerialInv, Open, Settled
    <2> HIDE DEF i
    <2>4. \A k \in 1..n : BookingOf[payments[k].intent] # BookingOf[i]
        BY <2>3 DEF HasPayment
    <2>5. ASSUME NEW b \in Booking, HasPayment(b)' PROVE status'[b] \in Settled
        <3>1. CASE b = BookingOf[i]
            BY <2>1, <3>1 DEF TypeOK, Settled
        <3>2. CASE b # BookingOf[i]
            <4>1. PICK k \in 1..(n + 1) : BookingOf[payments'[k].intent] = b
                BY <2>2, <2>5 DEF HasPayment
            <4>2. k \in 1..n
                BY <2>2, <3>2, <4>1
            <4>3. HasPayment(b)
                BY <2>2, <4>1, <4>2 DEF HasPayment
            <4> QED BY <1>1, <4>3
        <3> QED BY <3>1, <3>2
    <2>6. ASSUME NEW j \in 1..(n + 1), NEW k \in 1..(n + 1),
                 BookingOf[payments'[j].intent] = BookingOf[payments'[k].intent]
          PROVE  j = k
        <3>1. CASE j \in 1..n /\ k \in 1..n
            BY <2>2, <2>6, <3>1 DEF SerialInv, PaidAtMostOnce
        <3>2. CASE j = n + 1 /\ k \in 1..n
            BY <2>2, <2>4, <2>6, <3>2
        <3>3. CASE j \in 1..n /\ k = n + 1
            BY <2>2, <2>4, <2>6, <3>3
        <3> QED BY <2>2, <3>1, <3>2, <3>3
    <2> QED BY <2>2, <2>5, <2>6 DEF PaidAtMostOnce
<1>3. ASSUME \A s \in Session : ~WebhookPay(s)
      PROVE  /\ \A b \in Booking : HasPayment(b)' => status'[b] \in Settled
             /\ PaidAtMostOnce'
    <2>1. payments' = payments
        BY <1>3, OtherSteps
    <2> QED BY <1>1, <2>1 DEF HasPayment, SerialInv, PaidAtMostOnce
<1> QED BY <1>2, <1>3

LEMMA SerialStarts == Init => SerialInv
<1> SUFFICES ASSUME Init PROVE SerialInv
    OBVIOUS
<1>1. Len(payments) = 0
    BY DEF Init
<1>2. PaidAtMostOnce /\ \A b \in Booking : ~HasPayment(b)
    BY <1>1 DEF PaidAtMostOnce, HasPayment
<1>3. AwaitingIffLiveQr /\ ReviewedOnlyIfClosed /\ \A b \in Booking : Pending(b) = {}
    BY DEF Init, AwaitingIffLiveQr, ReviewedOnlyIfClosed, Pending
<1>4. \A s \in Session : StillTrue(s)
    BY DEF Init, StillTrue
<1> QED BY <1>2, <1>3, <1>4 DEF Init, SerialInv

LEMMA SerialStep == ASSUME Alone PROVE IndInv /\ SerialInv /\ [Next]_vars => SerialInv'
<1> SUFFICES ASSUME IndInv, SerialInv, [Next]_vars PROVE SerialInv'
    OBVIOUS
<1>1. CASE Next
    BY <1>1, StillTrueStep, OneLiveStep, AwaitingStep, FiledStep, PaidOnceStep DEF SerialInv
<1>2. CASE UNCHANGED vars
    BY <1>2 DEF vars, SerialInv, StillTrue, Pending, Payable, AwaitingIffLiveQr,
                ReviewedOnlyIfClosed, HasPayment, PaidAtMostOnce
<1> QED BY <1>1, <1>2

\* With one transaction at a time a customer who transfers twice is not charged twice: the
\* second transfer finds the booking closed (handleWebhook, isBookingPayable).
THEOREM NobodyPaysTwice == ASSUME Alone PROVE Spec => []PaidAtMostOnce
<1>1. SerialInv => PaidAtMostOnce
    BY DEF SerialInv
<1>2. IndInv /\ SerialInv /\ [Next]_vars => SerialInv'
    BY SerialStep
<1> QED BY <1>1, <1>2, SerialStarts, Invariance, PTL DEF Spec

\* With one transaction at a time the customer is always told what is true of the booking:
\* one live QR code at most, announced by the status exactly while it lives, and no full
\* price put aside while the booking can be paid (createIntentForBooking, expireIntents,
\* handleWebhook).
THEOREM CustomersAreToldTheTruth == ASSUME Alone PROVE Spec => []QrAndStatusAgree
<1>1. SerialInv => QrAndStatusAgree
    <2> SUFFICES ASSUME SerialInv, NEW b \in Booking PROVE Cardinality(Pending(b)) <= 1
        BY DEF SerialInv, QrAndStatusAgree, OneLiveQr
    <2>1. CASE Pending(b) = {}
        BY <2>1, FS_EmptySet
    <2>2. ASSUME NEW i \in Pending(b) PROVE Cardinality(Pending(b)) <= 1
        <3>1. Pending(b) = {i}
            BY <2>2 DEF SerialInv
        <3> QED BY <3>1, FS_Singleton
    <2> QED BY <2>1, <2>2
<1>2. IndInv /\ SerialInv /\ [Next]_vars => SerialInv'
    BY SerialStep
<1> QED BY <1>1, <1>2, SerialStarts, Invariance, PTL DEF Spec

\* With one transaction at a time a booking lives the life it is meant to: open until it is
\* paid or overdue, and decided once it is paid.
THEOREM BookingsFollowLifecycle == ASSUME Alone PROVE Spec => LifecycleSpec
<1>1. Init => Lifecycle!Init
    BY DEF Init, Lifecycle!Init
<1>2. IndInv /\ SerialInv /\ [Next]_vars => [Lifecycle!Next]_<<status, now>>
    <2> SUFFICES ASSUME IndInv, SerialInv, Next
                 PROVE  Lifecycle!Next \/ UNCHANGED <<status, now>>
        BY DEF vars
    <2>1. CASE Tick
        BY <2>1 DEF Tick, Lifecycle!Next, Lifecycle!Elapse
    <2>2. ASSUME NEW s \in Session, NEW i \in Intent, CreateIntentCommit(s, i)
          PROVE  Lifecycle!Next \/ UNCHANGED <<status, now>>
        <3> DEFINE b == BookingOf[i]
        <3>1. b \in Booking /\ status[b] \in Open /\ now' = now
              /\ status' = [status EXCEPT ![b] = "PAYMENT_PENDING"]
            BY <2>2, ConstantsAssumption DEF CreateIntentCommit, SerialInv, StillTrue
        <3> HIDE DEF b
        <3>2. CASE status[b] = "HELD"
            <4>1. Lifecycle!AskForQr(b)
                BY <3>1, <3>2 DEF Lifecycle!AskForQr, Lifecycle!Move
            <4> QED BY <3>1, <4>1, Zenon DEF Lifecycle!Next
        <3>3. CASE status[b] = "PAYMENT_PENDING"
            BY <3>1, <3>3 DEF IndInv, TypeOK
        <3> QED BY <3>1, <3>2, <3>3 DEF Open
    <2>3. ASSUME NEW s \in Session, WebhookPay(s) PROVE Lifecycle!Next
        <3> DEFINE b == BookingOf[sent[txn[s].transfer].ref]
        <3>1. b \in Booking
            BY <2>3, WebhookShape, ConstantsAssumption DEF IndInv
        <3>2. status[b] \in Open /\ now' = now /\ status' = [status EXCEPT ![b] = "PAID"]
            BY <2>3 DEF WebhookPay, SerialInv, StillTrue
        <3> HIDE DEF b
        <3>3. Lifecycle!Pay(b)
            BY <3>2 DEF Lifecycle!Pay, Lifecycle!Move, Lifecycle!Unpaid, Open
        <3> QED BY <3>1, <3>3, Zenon DEF Lifecycle!Next
    <2>4. ASSUME NEW s \in Session, ExpireIntentCommit(s)
          PROVE  Lifecycle!Next \/ UNCHANGED <<status, now>>
        <3> DEFINE b == BookingOf[txn[s].intent]
        <3>1. b \in Booking
            BY <2>4, TxnShape, ConstantsAssumption DEF ExpireIntentCommit, ExpireTxn, IndInv
        <3>2. /\ now' = now
              /\ \/ status' = status
                 \/ status[b] = "PAYMENT_PENDING" /\ status' = [status EXCEPT ![b] = "HELD"]
            BY <2>4 DEF ExpireIntentCommit
        <3> HIDE DEF b
        <3>3. UNCHANGED <<status, now>> \/ Lifecycle!QrRunsOut(b)
            BY <3>2 DEF Lifecycle!QrRunsOut, Lifecycle!Move
        <3> QED BY <3>1, <3>3, Zenon DEF Lifecycle!Next
    <2>5. ASSUME NEW s \in Session, NEW b \in Booking, ExpireBooking(s, b)
          PROVE  Lifecycle!Next
        <3>1. Lifecycle!Expire(b)
            BY <2>5 DEF ExpireBooking, Overdue, Open, Lifecycle!Expire, Lifecycle!Move,
                        Lifecycle!Unpaid
        <3> QED BY <3>1, Zenon DEF Lifecycle!Next
    <2>6. ASSUME NEW s \in Session, MarkTicketed(s) \/ MarkIssueFailed(s)
          PROVE  Lifecycle!Next
        <3> DEFINE b == txn[s].booking
        <3>1. b \in Booking
            BY <2>6, TxnShape DEF MarkTicketed, MarkIssueFailed, AdminTxn, IndInv
        <3>2. /\ status[b] = "PAID" /\ now' = now
              /\ \E to \in {"TICKETED", "ISSUE_FAILED"} : status' = [status EXCEPT ![b] = to]
            BY <2>6 DEF MarkTicketed, MarkIssueFailed, SerialInv, StillTrue
        <3> HIDE DEF b
        <3>3. Lifecycle!Decide(b)
            BY <3>2 DEF Lifecycle!Decide, Lifecycle!Move
        <3> QED BY <3>1, <3>3, Zenon DEF Lifecycle!Next
    <2>7. ASSUME UNCHANGED <<status, now>>
          PROVE  Lifecycle!Next \/ UNCHANGED <<status, now>>
        BY <2>7
    <2> QED
        BY <2>1, <2>2, <2>3, <2>4, <2>5, <2>6, <2>7
        DEF Next, BankTransfer, CreateIntentRead, CreateIntentSweep, WebhookRead,
            WebhookRecord, ExpireIntentLock, AdminRead, Abort
<1>3. IndInv /\ SerialInv /\ [Next]_vars => SerialInv'
    BY SerialStep
<1> QED BY <1>1, <1>2, <1>3, SerialStarts, Invariance, PTL
        DEF Spec, LifecycleSpec, Lifecycle!Spec
=============================================================================
