---------------------------- MODULE PaymentLedger ----------------------------
(***************************************************************************)
(* What handleWebhook promises of money, without intents, statuses or      *)
(* transactions: a bank transfer is decided once and for good, and the one *)
(* that is credited is credited to one booking.                            *)
(***************************************************************************)
CONSTANTS Transfer, Booking

VARIABLES
    decision,  \* what became of each transfer: open, filed or credited
    account    \* the transfers credited to each booking

ledgerVars == <<decision, account>>

Init ==
    /\ decision = [t \in Transfer |-> "open"]
    /\ account = [b \in Booking |-> {}]

File(t) ==
    /\ decision[t] = "open"
    /\ decision' = [decision EXCEPT ![t] = "filed"]
    /\ UNCHANGED account

Credit(t, b) ==
    /\ decision[t] = "open"
    /\ decision' = [decision EXCEPT ![t] = "credited"]
    /\ account' = [account EXCEPT ![b] = @ \union {t}]

Next == \E t \in Transfer : File(t) \/ \E b \in Booking : Credit(t, b)

Spec == Init /\ [][Next]_ledgerVars
=============================================================================
