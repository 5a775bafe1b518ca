----------------------------- MODULE MCServices -----------------------------
(* Nine parts that share no state and never call one another.  A behaviour *)
(* is about one of them, its focus, and the others keep their initial       *)
(* state: their interleavings would show nothing.                           *)
EXTENDS MCHunterScan, OtpChallenge, VoucherClaim, ProfilePrimary, MuadiTokens, WebInbox, PaymentScreen, HunterDesk, BookingFlow

VARIABLE focus

services == <<focus, scanVars, otpVars, voucherVars, profileVars, tokenVars, inboxVars, screenVars, deskVars, flowVars>>

\* The unfocused start in one state, so that they multiply nothing.
ServicesInit ==
    /\ focus \in {"scan", "otp", "voucher", "profile", "tokens", "inbox", "screen", "desk", "flow"}
    /\ ScanInit /\ OtpInit /\ VoucherInit /\ ProfileInit /\ TokensInit /\ InboxInit /\ ScreenInit /\ DeskInit /\ FlowInit
    /\ focus = "scan" \/ hunt = CHOOSE h \in Hunts : TRUE
    /\ focus = "voucher" \/ gold = User
    /\ focus = "desk" \/ hunts = [h \in HuntId |-> "none"]
    /\ focus = "tokens" \/ of = [c \in Caller |-> CHOOSE p \in ApiProcess : TRUE]
    \* The processes are alike: the first caller is of the first of them.
    /\ of[CHOOSE c \in Caller : TRUE] = CHOOSE p \in ApiProcess : TRUE

ServicesNext ==
    /\ UNCHANGED focus
    /\ \/ focus = "scan" /\ ScanNext /\ UNCHANGED <<otpVars, voucherVars, profileVars, tokenVars, inboxVars, screenVars, deskVars, flowVars>>
       \/ focus = "otp" /\ OtpNext /\ UNCHANGED <<scanVars, voucherVars, profileVars, tokenVars, inboxVars, screenVars, deskVars, flowVars>>
       \/ focus = "voucher" /\ VoucherNext /\ UNCHANGED <<scanVars, otpVars, profileVars, tokenVars, inboxVars, screenVars, deskVars, flowVars>>
       \/ focus = "profile" /\ ProfileNext /\ UNCHANGED <<scanVars, otpVars, voucherVars, tokenVars, inboxVars, screenVars, deskVars, flowVars>>
       \/ focus = "tokens" /\ TokensNext /\ UNCHANGED <<scanVars, otpVars, voucherVars, profileVars, inboxVars, screenVars, deskVars, flowVars>>
       \/ focus = "inbox" /\ InboxNext /\ UNCHANGED <<scanVars, otpVars, voucherVars, profileVars, tokenVars, screenVars, deskVars, flowVars>>
       \/ focus = "screen" /\ ScreenNext /\ UNCHANGED <<scanVars, otpVars, voucherVars, profileVars, tokenVars, inboxVars, deskVars, flowVars>>
       \/ focus = "desk" /\ DeskNext /\ UNCHANGED <<scanVars, otpVars, voucherVars, profileVars, tokenVars, inboxVars, screenVars, flowVars>>
       \/ focus = "flow" /\ FlowNext /\ UNCHANGED <<scanVars, otpVars, voucherVars, profileVars, tokenVars, inboxVars, screenVars, deskVars>>

\* Once nothing is under way, the pages of the web client that keep a copy of the
\* server's rows show what the server has: the inbox (useInbox.ts) and the hunts
\* (useHunts.ts), each with the exceptions its own part names.
PagesAreTrue == InboxIsTrue /\ HuntsAreTrue

ServicesSpec == ServicesInit /\ [][ServicesNext]_services

=============================================================================
