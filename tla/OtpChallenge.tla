---------------------------- MODULE OtpChallenge ----------------------------
(***************************************************************************)
(* One-time passwords (auth/otp.service.ts): a challenge is verified with  *)
(* a read, an increment of the attempts, a comparison of hashes and a      *)
(* write, four awaits without a transaction.  The service is complete but  *)
(* no controller calls it.                                                 *)
(***************************************************************************)
EXTENDS Integers, FiniteSets

CONSTANTS
    Verifier,     \* Requests that verify or ask for a voice call.
    Challenge,    \* Challenges a run may create.
    MaxAttempts,  \* MAX_OTP_ATTEMPTS
    MaxRequests,  \* Bound on the verifications.
    NoChallenge

ASSUME OtpAssumption ==
    /\ MaxAttempts \in Nat \ {0} /\ MaxRequests \in Nat
    /\ NoChallenge \notin Challenge

VARIABLES
    otp,        \* The rows: [there, attempts, consumed, revoked, expired, fresh].
    verifying,  \* Each request: idle, or the challenge it read and its next step.
    judged,     \* Comparisons made per challenge.
    accepted,   \* Verifications that answered with the phone, per challenge.
    overlap,    \* The most requests that were past their read at once, per challenge.
    otpRequests

otpVars == <<otp, verifying, judged, accepted, overlap, otpRequests>>

OtpRow(there) == [there |-> there, attempts |-> 0, consumed |-> FALSE, revoked |-> FALSE, expired |-> FALSE, fresh |-> TRUE]
NewChallenge == OtpRow(TRUE)
OtpIdle == [on |-> NoChallenge, step |-> "idle"]

OtpInit ==
    /\ otp = [c \in Challenge |-> OtpRow(FALSE)]
    /\ verifying = [v \in Verifier |-> OtpIdle]
    /\ judged = [c \in Challenge |-> 0] /\ accepted = [c \in Challenge |-> 0]
    /\ overlap = [c \in Challenge |-> 0] /\ otpRequests = 0

Exists(c) == otp[c].there
Alive(c) == Exists(c) /\ ~otp[c].consumed /\ ~otp[c].revoked /\ ~otp[c].expired
Past(c) == {v \in Verifier : verifying[v].on = c}

CreateChallenge(c) ==
    /\ ~Exists(c)
    /\ otp' = [otp EXCEPT ![c] = NewChallenge]
    /\ UNCHANGED <<verifying, judged, accepted, overlap, otpRequests>>

\* Sixty seconds after its creation a call may be asked for; after five minutes it ends.
ChallengeAges(c) ==
    /\ Exists(c) /\ ~otp[c].expired
    /\ otp' = [otp EXCEPT ![c] = IF @.fresh THEN [@ EXCEPT !.fresh = FALSE] ELSE [@ EXCEPT !.expired = TRUE]]
    /\ UNCHANGED <<verifying, judged, accepted, overlap, otpRequests>>

RevokeChallenge(c) ==
    /\ Exists(c)
    /\ otp' = [otp EXCEPT ![c] = [@ EXCEPT !.revoked = TRUE]]
    /\ UNCHANGED <<verifying, judged, accepted, overlap, otpRequests>>

Goes(v, c, step) == verifying' = [verifying EXCEPT ![v] = [on |-> c, step |-> step]]
Widest(c, n) == IF n > overlap[c] THEN n ELSE overlap[c]

FaultNoLimit(c) == Alive(c)
MayVerify(c) == Alive(c) /\ otp[c].attempts < MaxAttempts

\* The read and its checks; a request that fails one is over.
ReadChallenge(v, c) ==
    /\ verifying[v] = OtpIdle /\ otpRequests < MaxRequests
    /\ MayVerify(c)
    /\ Goes(v, c, "increment")
    /\ overlap' = [overlap EXCEPT ![c] = Widest(c, Cardinality(Past(c)) + 1)]
    /\ otpRequests' = otpRequests + 1
    /\ UNCHANGED <<otp, judged, accepted>>

Attempted(row) == [row EXCEPT !.attempts = @ + 1]

Increment(v) ==
    LET c == verifying[v].on IN
    /\ verifying[v].step = "increment"
    /\ otp' = [otp EXCEPT ![c] = Attempted(@)]
    /\ Goes(v, c, "compare")
    /\ UNCHANGED <<judged, accepted, overlap, otpRequests>>

\* The comparison does not look at the row again.
Compare(v) ==
    LET c == verifying[v].on IN
    /\ verifying[v].step = "compare"
    /\ judged' = [judged EXCEPT ![c] = @ + 1]
    /\ \/ Goes(v, c, "consume")
       \/ verifying' = [verifying EXCEPT ![v] = OtpIdle]
    /\ UNCHANGED <<otp, accepted, overlap, otpRequests>>

Consumed(row) == [row EXCEPT !.consumed = TRUE]

Consume(v) ==
    LET c == verifying[v].on IN
    /\ verifying[v].step = "consume"
    /\ otp' = [otp EXCEPT ![c] = Consumed(@)]
    /\ accepted' = [accepted EXCEPT ![c] = @ + 1]
    /\ verifying' = [verifying EXCEPT ![v] = OtpIdle]
    /\ UNCHANGED <<judged, overlap, otpRequests>>

\* Any of the writes throws, or the process dies.
VerifyFails(v) ==
    /\ verifying[v] # OtpIdle
    /\ verifying' = [verifying EXCEPT ![v] = OtpIdle]
    /\ UNCHANGED <<otp, judged, accepted, overlap, otpRequests>>

\* createVoiceChallenge: one transaction revokes the old challenge and creates another,
\* whatever became of the old one since it was read.
ReadForVoice(v, c) ==
    /\ verifying[v] = OtpIdle /\ otpRequests < MaxRequests
    /\ Alive(c) /\ ~otp[c].fresh
    /\ Goes(v, c, "voice")
    /\ overlap' = [overlap EXCEPT ![c] = Widest(c, Cardinality(Past(c)) + 1)]
    /\ otpRequests' = otpRequests + 1
    /\ UNCHANGED <<otp, judged, accepted>>

VoiceChallenge(v) ==
    /\ verifying[v].step = "voice"
    /\ \E n \in {c \in Challenge : ~Exists(c)} :
          otp' = [otp EXCEPT ![verifying[v].on] = [@ EXCEPT !.revoked = TRUE], ![n] = NewChallenge]
    /\ verifying' = [verifying EXCEPT ![v] = OtpIdle]
    /\ UNCHANGED <<judged, accepted, overlap, otpRequests>>

OtpNext ==
    \/ \E c \in Challenge : CreateChallenge(c) \/ ChallengeAges(c) \/ RevokeChallenge(c)
    \/ \E v \in Verifier, c \in Challenge : ReadChallenge(v, c) \/ ReadForVoice(v, c)
    \/ \E v \in Verifier : Increment(v) \/ Compare(v) \/ Consume(v) \/ VerifyFails(v) \/ VoiceChallenge(v)

OtpSpec == OtpInit /\ [][OtpNext]_otpVars

-----------------------------------------------------------------------------
(* Properties. *)

\* The limit of attempts and the single use of a challenge hold up to the requests that
\* were under way together (verifyChallenge reads before it writes), and no further: n
\* overlapping requests get at most n - 1 comparisons beyond the limit and n acceptances.
OtpLimitsHold ==
    \A c \in Challenge : Exists(c) =>
        /\ judged[c] <= otp[c].attempts
        /\ overlap[c] > 0 => otp[c].attempts <= MaxAttempts + overlap[c] - 1
        /\ accepted[c] <= overlap[c]
=============================================================================
