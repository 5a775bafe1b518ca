--------------------------- MODULE ServicesProofs ---------------------------
(***************************************************************************)
(* Proofs about the small services whose writes are not guarded by what    *)
(* they have read: what a limit is still worth when requests overlap.      *)
(* Then about the copies the web client keeps of the server's rows: a page *)
(* whose requests are over shows what the server has, and a booking whose  *)
(* payment page nobody saw is explained by what became of the screen that  *)
(* asked for it.  Last about what a run of a hunt says of what it saw.     *)
(***************************************************************************)
EXTENDS MCServices, BookingFlow, FiniteSetTheorems, WellFoundedInduction, TLAPS

-----------------------------------------------------------------------------
(* Vouchers.                                                               *)
(*                                                                         *)
(* A claim past its count has found room for itself; the vouchers issued   *)
(* and the claims under way together exceed the quantity by those that     *)
(* counted together, less one.                                             *)

VoucherInv ==
    /\ claiming \in [Claimer -> User \cup {Nobody}]
    /\ IsFiniteSet(issued) /\ IsFiniteSet(Counted)
    /\ together \in Nat /\ Cardinality(Counted) <= together
    /\ IF together = 0 THEN issued = {}
       ELSE Cardinality(issued) + Cardinality(Counted) <= Quantity + together - 1

LEMMA VoucherStarts == VoucherInit => VoucherInv
<1> SUFFICES ASSUME VoucherInit PROVE VoucherInv
  OBVIOUS
<1>1. Counted = {}
  BY DEF VoucherInit, Counted
<1> QED BY <1>1, FS_EmptySet DEF VoucherInit, VoucherInv

\* A claim that is over, with or without its voucher.
LEMMA ClaimEnds ==
    ASSUME VoucherInv, NEW r \in Claimer, claiming[r] # Nobody,
           claiming' = [claiming EXCEPT ![r] = Nobody], UNCHANGED together,
           issued' = issued \/ issued' = issued \cup {claiming[r]}
    PROVE  VoucherInv'
<1>1. Counted' = Counted \ {r} /\ r \in Counted
  BY DEF VoucherInv, Counted
<1>2. /\ IsFiniteSet(Counted') /\ Cardinality(Counted') = Cardinality(Counted) - 1
      /\ IsFiniteSet(issued') /\ Cardinality(issued') <= Cardinality(issued) + 1
  BY <1>1, FS_RemoveElement, FS_AddElement, FS_CardinalityType DEF VoucherInv
<1>3. /\ Cardinality(issued) \in Nat /\ Cardinality(issued') \in Nat
      /\ Cardinality(Counted) \in Nat /\ Cardinality(Counted') \in Nat
  BY <1>2, FS_CardinalityType DEF VoucherInv
<1>4. together > 0
  BY <1>2, <1>3 DEF VoucherInv
<1> QED BY <1>2, <1>3, <1>4, VoucherAssumption DEF VoucherInv

LEMMA VoucherStep == VoucherInv /\ [VoucherNext]_voucherVars => VoucherInv'
<1> SUFFICES ASSUME VoucherInv, [VoucherNext]_voucherVars PROVE VoucherInv'
  OBVIOUS
<1>1. ASSUME NEW r \in Claimer, NEW u \in User, CountIssued(r, u) PROVE VoucherInv'
  <2>1. /\ r \notin Counted /\ u # Nobody /\ Cardinality(issued) < Quantity
        /\ claiming' = [claiming EXCEPT ![r] = u] /\ UNCHANGED issued
    BY <1>1, VoucherAssumption DEF CountIssued, Counted, MayClaim
  <2>2. Counted' = Counted \cup {r}
    BY <2>1 DEF Counted, VoucherInv
  <2>3. IsFiniteSet(Counted') /\ Cardinality(Counted') = Cardinality(Counted) + 1
    BY <2>1, <2>2, FS_AddElement DEF VoucherInv
  <2>4. Cardinality(issued) \in Nat /\ Cardinality(Counted) \in Nat
    BY FS_CardinalityType DEF VoucherInv
  <2>5. together' \in Nat /\ together' >= Cardinality(Counted) + 1
    BY <1>1, <2>4 DEF CountIssued, VoucherInv
  <2>6. claiming' \in [Claimer -> User \cup {Nobody}]
    BY <2>1 DEF VoucherInv
  <2> QED BY <2>1, <2>3, <2>4, <2>5, <2>6, VoucherAssumption DEF VoucherInv
<1>2. ASSUME NEW r \in Claimer, InsertVoucher(r) \/ ClaimFails(r) PROVE VoucherInv'
  BY <1>2, ClaimEnds DEF InsertVoucher, ClaimFails
<1>3. CASE TemplateChanges \/ UNCHANGED voucherVars
  BY <1>3 DEF TemplateChanges, voucherVars, VoucherInv, Counted
<1> QED BY <1>1, <1>2, <1>3 DEF VoucherNext

\* A template gives out more vouchers than its quantity only to claims that overlapped:
\* n claims past their count together issue at most n - 1 too many (voucher.service.ts, claim).
THEOREM OverIssueIsBounded == VoucherSpec => []OverIssueMeansOverlap
<1>1. VoucherInv => OverIssueMeansOverlap
  <2> SUFFICES ASSUME VoucherInv PROVE OverIssueMeansOverlap
    OBVIOUS
  <2>1. Cardinality(issued) \in Nat /\ Cardinality(Counted) \in Nat
    BY FS_CardinalityType DEF VoucherInv
  <2> QED BY <2>1, FS_EmptySet, VoucherAssumption DEF VoucherInv, OverIssueMeansOverlap
<1> QED BY <1>1, VoucherStarts, VoucherStep, PTL DEF VoucherSpec

-----------------------------------------------------------------------------
(* One-time passwords.                                                     *)
(*                                                                         *)
(* A request that has read a challenge and not yet counted its attempt is  *)
(* one the limit does not know of; so is one that was read before the      *)
(* challenge was consumed.  There are no more of them than overlapped.     *)

OtpRows == [there : BOOLEAN, attempts : Nat, consumed : BOOLEAN, revoked : BOOLEAN,
            expired : BOOLEAN, fresh : BOOLEAN]
OtpSteps == {"idle", "increment", "compare", "consume", "voice"}
Incrementing(c) == {v \in Past(c) : verifying[v].step = "increment"}
Comparing(c) == {v \in Past(c) : verifying[v].step = "compare"}

OtpTypes ==
    /\ otp \in [Challenge -> OtpRows]
    /\ verifying \in [Verifier -> [on : Challenge \cup {NoChallenge}, step : OtpSteps]]
    /\ judged \in [Challenge -> Nat]
    /\ accepted \in [Challenge -> Nat]
    /\ overlap \in [Challenge -> Nat]
    /\ \A v \in Verifier : verifying[v].step # "idle" => verifying[v].on \in Challenge

\* What is known of challenge c.
LimitKept(c) ==
    /\ IsFiniteSet(Past(c))
    /\ ~Exists(c) => ~otp[c].consumed /\ overlap[c] = 0
    /\ overlap[c] = 0 => otp[c].attempts = 0
    /\ accepted[c] + Cardinality(Past(c)) <= overlap[c]
    /\ ~otp[c].consumed => accepted[c] = 0
    /\ judged[c] + Cardinality(Comparing(c)) <= otp[c].attempts
    /\ overlap[c] > 0 => otp[c].attempts + Cardinality(Incrementing(c))
                            <= MaxAttempts + overlap[c] - 1

OtpInv == OtpTypes /\ \A c \in Challenge : LimitKept(c)

\* The step leaves what limits challenge c as it is; the row may come to exist.
RowKept(c) ==
    /\ otp'[c] \in OtpRows
    /\ otp'[c].attempts = otp[c].attempts /\ otp'[c].consumed = otp[c].consumed
    /\ Exists(c) => otp'[c].there

\* A verifier that is at a step of challenge c counts once there and nowhere else.
LEMMA VerifierMoves ==
    ASSUME NEW v \in Verifier, NEW c \in Challenge,
           \A u \in Verifier \ {v} : verifying'[u] = verifying[u]
    PROVE  /\ verifying'[v].on # c => Past(c)' = Past(c) \ {v}
           /\ verifying'[v].on = c => Past(c)' = Past(c) \cup {v}
           /\ verifying'[v].on # c \/ verifying'[v].step # "compare" => Comparing(c)' = Comparing(c) \ {v}
           /\ verifying'[v].on = c /\ verifying'[v].step = "compare" => Comparing(c)' = Comparing(c) \cup {v}
           /\ verifying'[v].on # c \/ verifying'[v].step # "increment" => Incrementing(c)' = Incrementing(c) \ {v}
           /\ verifying'[v].on = c /\ verifying'[v].step = "increment" => Incrementing(c)' = Incrementing(c) \cup {v}
  BY DEF Past, Comparing, Incrementing

LEMMA KeptApart ==
    ASSUME NEW c \in Challenge, LimitKept(c), RowKept(c), Past(c)' = Past(c),
           Comparing(c)' = Comparing(c),
           Incrementing(c)' = Incrementing(c),
           judged'[c] = judged[c], accepted'[c] = accepted[c], overlap'[c] = overlap[c]
    PROVE  LimitKept(c)'
  BY DEF LimitKept, RowKept, Exists

LEMMA OneLess ==
    ASSUME NEW S, IsFiniteSet(S), NEW v
    PROVE  /\ IsFiniteSet(S \ {v}) /\ Cardinality(S \ {v}) \in Nat
           /\ Cardinality(S \ {v}) = IF v \in S THEN Cardinality(S) - 1 ELSE Cardinality(S)
           /\ Cardinality(S \ {v}) <= Cardinality(S)
BY FS_RemoveElement, FS_CardinalityType

LEMMA OneMore ==
    ASSUME NEW S, IsFiniteSet(S), NEW v
    PROVE  /\ IsFiniteSet(S \cup {v}) /\ Cardinality(S \cup {v}) \in Nat
           /\ Cardinality(S \cup {v}) = IF v \in S THEN Cardinality(S) ELSE Cardinality(S) + 1
BY FS_AddElement, FS_CardinalityType

LEMMA Counts ==
    ASSUME OtpInv, NEW c \in Challenge
    PROVE  /\ otp[c].attempts \in Nat /\ judged[c] \in Nat /\ accepted[c] \in Nat
           /\ overlap[c] \in Nat /\ MaxAttempts \in Nat /\ MaxAttempts > 0
           /\ otp[c].consumed \in BOOLEAN /\ otp[c].there \in BOOLEAN
           /\ IsFiniteSet(Past(c)) /\ Cardinality(Past(c)) \in Nat
           /\ IsFiniteSet(Comparing(c)) /\ Cardinality(Comparing(c)) \in Nat
           /\ IsFiniteSet(Incrementing(c)) /\ Cardinality(Incrementing(c)) \in Nat
<1>1. IsFiniteSet(Past(c))
  BY DEF OtpInv, LimitKept
<1>2. /\ IsFiniteSet(Comparing(c)) /\ Cardinality(Comparing(c)) \in Nat
      /\ IsFiniteSet(Incrementing(c)) /\ Cardinality(Incrementing(c)) \in Nat
      /\ Cardinality(Past(c)) \in Nat
  BY <1>1, FS_Subset, FS_CardinalityType DEF Comparing, Incrementing
<1> QED BY <1>1, <1>2, OtpAssumption DEF OtpInv, OtpTypes, OtpRows

\* A verifier that goes elsewhere, with nothing written that the limit of c is about.
LEMMA VerifierLeaves ==
    ASSUME OtpInv, NEW v \in Verifier, NEW c \in Challenge,
           \A u \in Verifier \ {v} : verifying'[u] = verifying[u],
           verifying'[v].on # c, RowKept(c),
           judged'[c] = judged[c], accepted'[c] = accepted[c], overlap'[c] = overlap[c]
    PROVE  LimitKept(c)'
<1>1. /\ Past(c)' = Past(c) \ {v}
      /\ Comparing(c)' = Comparing(c) \ {v}
      /\ Incrementing(c)' = Incrementing(c) \ {v}
  BY VerifierMoves, Zenon
<1>2. /\ IsFiniteSet(Past(c) \ {v}) /\ Cardinality(Past(c) \ {v}) \in Nat
      /\ Cardinality(Past(c) \ {v}) <= Cardinality(Past(c))
  BY Counts, OneLess, Zenon
<1>3. /\ Cardinality(Comparing(c) \ {v}) \in Nat
      /\ Cardinality(Comparing(c) \ {v}) <= Cardinality(Comparing(c))
  BY Counts, OneLess, Zenon
<1>4. /\ Cardinality(Incrementing(c) \ {v}) \in Nat
      /\ Cardinality(Incrementing(c) \ {v}) <= Cardinality(Incrementing(c))
  BY Counts, OneLess, Zenon
<1>5. LimitKept(c)
  BY DEF OtpInv
<1>6. /\ IsFiniteSet(Past(c)')
      /\ accepted[c] + Cardinality(Past(c) \ {v}) <= overlap[c]
      /\ judged[c] + Cardinality(Comparing(c) \ {v}) <= otp[c].attempts
      /\ overlap[c] > 0 => otp[c].attempts + Cardinality(Incrementing(c) \ {v})
                              <= MaxAttempts + overlap[c] - 1
  BY <1>1, <1>2, <1>3, <1>4, <1>5, Counts DEF LimitKept
<1>7. ~Exists(c)' => ~Exists(c)
  BY DEF RowKept, Exists
<1> QED BY <1>1, <1>5, <1>6, <1>7, Zenon DEF LimitKept, RowKept

\* Everything that is not a verification leaves alone what the limits are about.
LEMMA QuietOtpSteps ==
    ASSUME OtpInv, NEW d \in Challenge,
           \/ CreateChallenge(d) \/ ChallengeAges(d) \/ RevokeChallenge(d)
    PROVE  OtpInv'
<1>1. UNCHANGED <<verifying, judged, accepted, overlap>>
  BY DEF CreateChallenge, ChallengeAges, RevokeChallenge
<1>2. otp[d] \in OtpRows /\ otp \in [Challenge -> OtpRows]
  BY DEF OtpInv, OtpTypes
<1>3. /\ \A c \in Challenge \ {d} : otp'[c] = otp[c]
      /\ otp'[d] \in OtpRows /\ otp' \in [Challenge -> OtpRows]
      /\ Exists(d) => /\ otp'[d].attempts = otp[d].attempts
                      /\ otp'[d].consumed = otp[d].consumed /\ otp'[d].there
      /\ ~Exists(d) => otp'[d].attempts = 0 /\ otp'[d].consumed = FALSE
  <2>1. CASE CreateChallenge(d)
    BY <2>1, <1>2 DEF CreateChallenge, NewChallenge, OtpRow, OtpRows
  <2>2. CASE ChallengeAges(d)
    <3>1. otp'[d] = IF otp[d].fresh THEN [otp[d] EXCEPT !.fresh = FALSE] ELSE [otp[d] EXCEPT !.expired = TRUE]
      BY <2>2, <1>2 DEF ChallengeAges
    <3>2. otp'[d] \in OtpRows /\ Exists(d) /\ otp'[d].attempts = otp[d].attempts
          /\ otp'[d].consumed = otp[d].consumed /\ otp'[d].there = otp[d].there
      BY <2>2, <3>1, <1>2 DEF ChallengeAges, OtpRows
    <3> QED BY <2>2, <3>2, <1>2 DEF ChallengeAges, Exists
  <2>3. CASE RevokeChallenge(d)
    BY <2>3, <1>2 DEF RevokeChallenge, Exists, OtpRows
  <2> QED BY <2>1, <2>2, <2>3
<1>4. OtpTypes'
  BY <1>1, <1>3 DEF OtpInv, OtpTypes
<1>5. ASSUME NEW c \in Challenge PROVE LimitKept(c)'
  <2>1. LimitKept(c) /\ LimitKept(d)
    BY DEF OtpInv
  <2>2. otp[c] \in OtpRows
    BY DEF OtpInv, OtpTypes
  <2>3. ~Exists(c) => otp[c].attempts = 0 /\ otp[c].consumed = FALSE
    BY <2>1, <2>2 DEF LimitKept, OtpRows
  <2>4. RowKept(c)
    BY <2>1, <2>2, <2>3, <1>3 DEF RowKept, Exists
  <2>5. /\ Past(c)' = Past(c) /\ Comparing(c)' = Comparing(c) /\ Incrementing(c)' = Incrementing(c)
    BY <1>1 DEF Past, Comparing, Incrementing
  <2> QED BY <1>1, <2>1, <2>4, <2>5, KeptApart
<1> QED BY <1>4, <1>5 DEF OtpInv

\* One more verifier is past its read.
LEMMA OtpReads ==
    ASSUME OtpInv, NEW v \in Verifier, NEW d \in Challenge, ReadChallenge(v, d) \/ ReadForVoice(v, d)
    PROVE  OtpInv'
<1>1. /\ verifying[v] = OtpIdle /\ ~otp[d].consumed /\ Exists(d)
      /\ otp' = otp /\ judged' = judged /\ accepted' = accepted
      /\ overlap' = [overlap EXCEPT ![d] = Widest(d, Cardinality(Past(d)) + 1)]
  BY DEF ReadChallenge, ReadForVoice, MayVerify, Alive
<1>2. PICK step \in {"increment", "voice"} :
          /\ Goes(v, d, step)
          /\ step = "increment" => otp[d].attempts < MaxAttempts
  BY DEF ReadChallenge, ReadForVoice, MayVerify
<1>3. /\ \A u \in Verifier \ {v} : verifying'[u] = verifying[u]
      /\ verifying'[v].on = d /\ verifying'[v].step = step
      /\ verifying' \in [Verifier -> [on : Challenge \cup {NoChallenge}, step : OtpSteps]]
  BY <1>2 DEF Goes, OtpInv, OtpTypes, OtpSteps
<1>4. /\ \A c \in Challenge \ {d} : overlap'[c] = overlap[c]
      /\ overlap'[d] = Widest(d, Cardinality(Past(d)) + 1)
      /\ overlap' \in [Challenge -> Nat]
  BY <1>1, Counts DEF OtpInv, OtpTypes, Widest
<1>5. OtpTypes'
  BY <1>1, <1>3, <1>4 DEF OtpInv, OtpTypes
<1>6. ASSUME NEW c \in Challenge, c # d PROVE LimitKept(c)'
  <2>1. RowKept(c)
    BY <1>1 DEF RowKept, OtpInv, OtpTypes, Exists
  <2> QED BY <1>1, <1>3, <1>4, <1>6, <2>1, VerifierLeaves
<1>7. LimitKept(d)'
  <2>1. v \notin Past(d) /\ v \notin Comparing(d) /\ v \notin Incrementing(d)
    BY <1>1, OtpAssumption DEF Past, Comparing, Incrementing, OtpIdle
  <2>2. /\ Past(d)' = Past(d) \cup {v} /\ Comparing(d)' = Comparing(d)
        /\ step = "increment" => Incrementing(d)' = Incrementing(d) \cup {v}
        /\ step # "increment" => Incrementing(d)' = Incrementing(d)
    <3>1. /\ Past(d)' = Past(d) \cup {v}
          /\ step # "compare" => Comparing(d)' = Comparing(d) \ {v}
          /\ step # "increment" => Incrementing(d)' = Incrementing(d) \ {v}
          /\ step = "increment" => Incrementing(d)' = Incrementing(d) \cup {v}
      BY <1>3, VerifierMoves, Zenon
    <3>2. Comparing(d) \ {v} = Comparing(d) /\ Incrementing(d) \ {v} = Incrementing(d)
      BY <2>1
    <3>3. step # "compare"
      OBVIOUS
    <3> QED BY <3>1, <3>2, <3>3
  <2>3. /\ IsFiniteSet(Past(d) \cup {v})
        /\ Cardinality(Past(d) \cup {v}) = Cardinality(Past(d)) + 1
        /\ Cardinality(Incrementing(d) \cup {v}) = Cardinality(Incrementing(d)) + 1
    BY <2>1, Counts, FS_AddElement
  <2>4. Cardinality(Incrementing(d)) <= Cardinality(Past(d))
    BY Counts, FS_Subset DEF Incrementing
  <2>5. LimitKept(d)
    BY DEF OtpInv
  <2>6. accepted[d] = 0
    BY <1>1, <2>5 DEF LimitKept
  <2>7. /\ overlap'[d] \in Nat /\ overlap'[d] >= overlap[d]
        /\ overlap'[d] >= Cardinality(Past(d)) + 1 /\ overlap'[d] > 0
    BY <1>4, Counts DEF Widest
  <2>8. otp[d].attempts + Cardinality(Incrementing(d)') <= MaxAttempts + overlap'[d] - 1
    <3>1. CASE step = "increment"
      <4>1. /\ otp[d].attempts < MaxAttempts
            /\ Cardinality(Incrementing(d)') = Cardinality(Incrementing(d)) + 1
        BY <3>1, <1>2, <2>2, <2>3
      <4> QED BY <4>1, <2>4, <2>7, Counts
    <3>2. CASE step # "increment" /\ overlap[d] > 0
      BY <3>2, <2>2, <2>5, <2>7, Counts DEF LimitKept
    <3>3. CASE step # "increment" /\ overlap[d] = 0
      BY <3>3, <2>2, <2>4, <2>5, <2>7, Counts DEF LimitKept
    <3> QED BY <3>1, <3>2, <3>3, Counts
  <2>9. accepted[d] + Cardinality(Past(d)') <= overlap'[d] /\ IsFiniteSet(Past(d)')
    BY <2>2, <2>3, <2>6, <2>7, Counts
  <2>10. /\ Exists(d)' /\ judged'[d] = judged[d] /\ accepted'[d] = accepted[d]
         /\ overlap'[d] # 0 /\ otp'[d].attempts = otp[d].attempts
         /\ judged[d] + Cardinality(Comparing(d)') <= otp[d].attempts
    BY <1>1, <2>2, <2>5, <2>7, Counts DEF LimitKept, Exists
  <2> QED BY <2>6, <2>8, <2>9, <2>10, Zenon DEF LimitKept
<1> QED BY <1>5, <1>6, <1>7 DEF OtpInv

\* The attempt is counted.
LEMMA OtpIncrements ==
    ASSUME OtpInv, NEW v \in Verifier, Increment(v)
    PROVE  OtpInv'
<1>0. PICK d \in Challenge : d = verifying[v].on
  BY DEF Increment, OtpInv, OtpTypes
<1>1. v \in Past(d) /\ v \in Incrementing(d) /\ v \notin Comparing(d)
  BY <1>0 DEF Increment, Past, Incrementing, Comparing
<1>2. /\ \A c \in Challenge \ {d} : otp'[c] = otp[c]
      /\ otp'[d] = Attempted(otp[d]) /\ otp' \in [Challenge -> OtpRows]
  <2>1. otp[d] \in OtpRows /\ otp \in [Challenge -> OtpRows]
    BY DEF OtpInv, OtpTypes
  <2>2. /\ \A c \in Challenge \ {d} : otp'[c] = otp[c]
        /\ otp'[d] = Attempted(otp[d])
        /\ otp' = [c \in Challenge |-> otp'[c]]
    BY <1>0, <2>1 DEF Increment
  <2>3. Attempted(otp[d]) \in OtpRows
    BY <2>1 DEF OtpRows, Attempted
  <2> QED BY <2>1, <2>2, <2>3
<1>3. /\ otp'[d].attempts = otp[d].attempts + 1
      /\ otp'[d].consumed = otp[d].consumed /\ otp'[d].there = otp[d].there
  BY <1>1, <1>2 DEF OtpInv, OtpTypes, OtpRows, Attempted
<1>4. /\ \A u \in Verifier \ {v} : verifying'[u] = verifying[u]
      /\ verifying'[v] = [on |-> d, step |-> "compare"]
      /\ verifying' \in [Verifier -> [on : Challenge \cup {NoChallenge}, step : OtpSteps]]
      /\ judged' = judged /\ accepted' = accepted /\ overlap' = overlap
  BY <1>0 DEF Increment, Goes, OtpInv, OtpTypes, OtpSteps
<1>5. OtpTypes'
  BY <1>1, <1>2, <1>4 DEF OtpInv, OtpTypes
<1>6. ASSUME NEW c \in Challenge, c # d PROVE LimitKept(c)'
  <2>1. RowKept(c)
    BY <1>2, <1>6 DEF RowKept, OtpInv, OtpTypes, Exists
  <2> QED BY <1>4, <1>6, <2>1, VerifierLeaves
<1>7. LimitKept(d)'
  <2>1. /\ Past(d)' = Past(d) \cup {v} /\ Comparing(d)' = Comparing(d) \cup {v}
        /\ Incrementing(d)' = Incrementing(d) \ {v}
    BY <1>1, <1>4, VerifierMoves
  <2>2. /\ Past(d)' = Past(d) /\ Cardinality(Past(d)) > 0
        /\ Cardinality(Comparing(d)') = Cardinality(Comparing(d)) + 1
        /\ Cardinality(Incrementing(d)') = Cardinality(Incrementing(d)) - 1
    <3>1. Past(d)' = Past(d) /\ Past(d) # {}
      BY <1>1, <2>1
    <3>2. Cardinality(Past(d)) > 0
      BY <3>1, Counts, FS_EmptySet
    <3>3. Cardinality(Comparing(d) \cup {v}) = Cardinality(Comparing(d)) + 1
      BY <1>1, Counts, FS_AddElement
    <3>4. Cardinality(Incrementing(d) \ {v}) = Cardinality(Incrementing(d)) - 1
      BY <1>1, Counts, FS_RemoveElement
    <3> QED BY <2>1, <3>1, <3>2, <3>3, <3>4
  <2>3. LimitKept(d)
    BY <1>1 DEF OtpInv
  <2>4. overlap[d] > 0
    BY <1>1, <2>2, <2>3, Counts DEF LimitKept
  <2>5. Exists(d)'
    BY <1>1, <1>3, <2>3, <2>4, Counts DEF LimitKept, Exists
  <2>6. /\ judged'[d] + Cardinality(Comparing(d)') <= otp'[d].attempts
        /\ otp'[d].attempts + Cardinality(Incrementing(d)') <= MaxAttempts + overlap'[d] - 1
        /\ overlap'[d] # 0
    BY <1>1, <1>3, <1>4, <2>2, <2>3, <2>4, Counts DEF LimitKept
  <2> QED BY <1>3, <1>4, <2>2, <2>3, <2>5, <2>6, Zenon DEF LimitKept
<1> QED BY <1>5, <1>6, <1>7 DEF OtpInv

\* The code is compared, and the verification goes on or is over.
LEMMA OtpCompares ==
    ASSUME OtpInv, NEW v \in Verifier, Compare(v)
    PROVE  OtpInv'
<1>0. PICK d \in Challenge : d = verifying[v].on
  BY DEF Compare, OtpInv, OtpTypes
<1>1. v \in Past(d) /\ v \notin Incrementing(d) /\ v \in Comparing(d)
  BY <1>0 DEF Compare, Past, Incrementing, Comparing
<1>2. /\ \A c \in Challenge \ {d} : judged'[c] = judged[c]
      /\ judged'[d] = judged[d] + 1 /\ judged' \in [Challenge -> Nat]
      /\ otp' = otp /\ accepted' = accepted /\ overlap' = overlap
  BY <1>0 DEF Compare, OtpInv, OtpTypes
<1>3. verifying' = [verifying EXCEPT ![v] = [on |-> d, step |-> "consume"]]
      \/ verifying' = [verifying EXCEPT ![v] = OtpIdle]
  BY <1>0 DEF Compare, Goes
<1>4. /\ \A u \in Verifier \ {v} : verifying'[u] = verifying[u]
      /\ verifying'[v].on = d \/ verifying'[v].on = NoChallenge
      /\ verifying'[v].step # "compare" /\ verifying'[v].step # "increment"
      /\ verifying' \in [Verifier -> [on : Challenge \cup {NoChallenge}, step : OtpSteps]]
      /\ verifying'[v].step # "idle" => verifying'[v].on \in Challenge
  BY <1>1, <1>3 DEF OtpInv, OtpTypes, OtpSteps, OtpIdle
<1>5. OtpTypes'
  BY <1>1, <1>2, <1>4 DEF OtpInv, OtpTypes
<1>6. ASSUME NEW c \in Challenge, c # d PROVE LimitKept(c)'
  <2>1. RowKept(c)
    BY <1>2, <1>6 DEF RowKept, OtpInv, OtpTypes, Exists
  <2>2. verifying'[v].on # c
    BY <1>4, <1>6, OtpAssumption
  <2> QED BY <1>2, <1>4, <1>6, <2>1, <2>2, VerifierLeaves
<1>7. LimitKept(d)'
  <2>1. /\ Past(d)' = Past(d) \/ Past(d)' = Past(d) \ {v}
        /\ Comparing(d)' = Comparing(d) \ {v} /\ Incrementing(d)' = Incrementing(d)
    <3>1. /\ verifying'[v].on # d => Past(d)' = Past(d) \ {v}
          /\ verifying'[v].on = d => Past(d)' = Past(d) \cup {v}
          /\ Comparing(d)' = Comparing(d) \ {v}
          /\ Incrementing(d)' = Incrementing(d) \ {v}
      BY <1>1, <1>4, VerifierMoves, Zenon
    <3> QED BY <3>1, <1>1
  <2>2. /\ IsFiniteSet(Past(d)') /\ Cardinality(Past(d)') \in Nat
        /\ Cardinality(Past(d)') <= Cardinality(Past(d))
        /\ Cardinality(Comparing(d)') = Cardinality(Comparing(d)) - 1
    BY <1>1, <2>1, Counts, OneLess
  <2>3. LimitKept(d)
    BY <1>1 DEF OtpInv
  <2>4. /\ judged'[d] + Cardinality(Comparing(d)') <= otp[d].attempts
        /\ accepted[d] + Cardinality(Past(d)') <= overlap[d]
    BY <1>1, <1>2, <2>2, <2>3, Counts DEF LimitKept
  <2> QED BY <1>2, <2>1, <2>2, <2>3, <2>4, Zenon DEF LimitKept, Exists
<1> QED BY <1>5, <1>6, <1>7 DEF OtpInv

\* The challenge is consumed, by however many have come so far.
LEMMA OtpConsumes ==
    ASSUME OtpInv, NEW v \in Verifier, Consume(v)
    PROVE  OtpInv'
<1>0. PICK d \in Challenge : d = verifying[v].on
  BY DEF Consume, OtpInv, OtpTypes
<1>1. v \in Past(d) /\ v \notin Incrementing(d) /\ v \notin Comparing(d)
  BY <1>0 DEF Consume, Past, Incrementing, Comparing
<1>2. /\ \A c \in Challenge \ {d} : otp'[c] = otp[c] /\ accepted'[c] = accepted[c]
      /\ otp'[d] = [otp[d] EXCEPT !.consumed = TRUE] /\ otp' \in [Challenge -> OtpRows]
      /\ accepted'[d] = accepted[d] + 1 /\ accepted' \in [Challenge -> Nat]
      /\ judged' = judged /\ overlap' = overlap
  <2>1. otp[d] \in OtpRows /\ otp \in [Challenge -> OtpRows] /\ accepted \in [Challenge -> Nat]
    BY DEF OtpInv, OtpTypes
  <2>2. /\ otp' = [otp EXCEPT ![d] = [otp[d] EXCEPT !.consumed = TRUE]]
        /\ accepted' = [accepted EXCEPT ![d] = @ + 1] /\ judged' = judged /\ overlap' = overlap
    BY <1>0 DEF Consume, Consumed
  <2>3. [otp[d] EXCEPT !.consumed = TRUE] \in OtpRows
    BY <2>1 DEF OtpRows
  <2>4. /\ \A c \in Challenge \ {d} : otp'[c] = otp[c]
        /\ otp'[d] = [otp[d] EXCEPT !.consumed = TRUE] /\ otp' \in [Challenge -> OtpRows]
    BY <2>1, <2>2, <2>3
  <2>5. /\ \A c \in Challenge \ {d} : accepted'[c] = accepted[c]
        /\ accepted'[d] = accepted[d] + 1 /\ accepted' \in [Challenge -> Nat]
    BY <2>1, <2>2
  <2> QED BY <2>2, <2>4, <2>5
<1>3. /\ otp'[d].attempts = otp[d].attempts
      /\ otp'[d].consumed = TRUE /\ otp'[d].there = otp[d].there
  BY <1>1, <1>2 DEF OtpInv, OtpTypes, OtpRows
<1>4. /\ \A u \in Verifier \ {v} : verifying'[u] = verifying[u]
      /\ verifying'[v].on = NoChallenge /\ verifying'[v].step = "idle"
      /\ verifying' \in [Verifier -> [on : Challenge \cup {NoChallenge}, step : OtpSteps]]
  BY <1>0 DEF Consume, OtpInv, OtpTypes, OtpSteps, OtpIdle
<1>5. OtpTypes'
  BY <1>1, <1>2, <1>4 DEF OtpInv, OtpTypes
<1>6. ASSUME NEW c \in Challenge, c # d PROVE LimitKept(c)'
  <2>1. RowKept(c)
    BY <1>2, <1>6 DEF RowKept, OtpInv, OtpTypes, Exists
  <2>2. verifying'[v].on # c
    BY <1>4, OtpAssumption
  <2> QED BY <1>2, <1>4, <1>6, <2>1, <2>2, VerifierLeaves
<1>7. LimitKept(d)'
  <2>1. /\ Past(d)' = Past(d) \ {v} /\ Comparing(d)' = Comparing(d) /\ Incrementing(d)' = Incrementing(d)
    <3>1. /\ Past(d)' = Past(d) \ {v} /\ Comparing(d)' = Comparing(d) \ {v}
          /\ Incrementing(d)' = Incrementing(d) \ {v}
      BY <1>1, <1>4, OtpAssumption, VerifierMoves
    <3> QED BY <3>1, <1>1
  <2>2. /\ IsFiniteSet(Past(d)') /\ Cardinality(Past(d)) > 0
        /\ Cardinality(Past(d)') = Cardinality(Past(d)) - 1
    BY <1>1, <2>1, Counts, OneLess, FS_EmptySet
  <2>3. LimitKept(d)
    BY <1>1 DEF OtpInv
  <2>4. overlap[d] # 0 /\ Exists(d)' /\ accepted'[d] + Cardinality(Past(d)') <= overlap[d]
    BY <1>1, <1>2, <1>3, <2>2, <2>3, Counts DEF LimitKept, Exists
  <2> QED BY <1>2, <1>3, <2>1, <2>2, <2>3, <2>4, Zenon DEF LimitKept
<1> QED BY <1>5, <1>6, <1>7 DEF OtpInv

\* A verification fails, or asks for a call, and is over.
LEMMA OtpEnds ==
    ASSUME OtpInv, NEW v \in Verifier, VerifyFails(v) \/ VoiceChallenge(v)
    PROVE  OtpInv'
<1>1. /\ \A u \in Verifier \ {v} : verifying'[u] = verifying[u]
      /\ verifying'[v].on = NoChallenge /\ verifying'[v].step = "idle"
      /\ verifying' \in [Verifier -> [on : Challenge \cup {NoChallenge}, step : OtpSteps]]
      /\ judged' = judged /\ accepted' = accepted /\ overlap' = overlap
  BY DEF VerifyFails, VoiceChallenge, OtpInv, OtpTypes, OtpSteps, OtpIdle
<1>2. otp' \in [Challenge -> OtpRows] /\ \A c \in Challenge : RowKept(c)
  <2>1. CASE VerifyFails(v)
    BY <2>1 DEF VerifyFails, OtpInv, OtpTypes, RowKept, Exists
  <2>2. CASE VoiceChallenge(v)
    <3> DEFINE d == verifying[v].on
    <3>1. PICK n \in Challenge :
              /\ ~Exists(n)
              /\ otp' = [otp EXCEPT ![d] = [@ EXCEPT !.revoked = TRUE], ![n] = NewChallenge]
      BY <2>2 DEF VoiceChallenge
    <3>2. d \in Challenge /\ otp \in [Challenge -> OtpRows]
      BY <2>2 DEF VoiceChallenge, OtpInv, OtpTypes
    <3> HIDE DEF d
    <3>3. /\ \A c \in Challenge \ {d, n} : otp'[c] = otp[c]
          /\ otp'[n] = NewChallenge
          /\ d # n => otp'[d] = [otp[d] EXCEPT !.revoked = TRUE]
      BY <3>1, <3>2
    <3>4. NewChallenge \in OtpRows /\ NewChallenge.attempts = 0 /\ NewChallenge.consumed = FALSE
          /\ NewChallenge.there
      BY DEF NewChallenge, OtpRow, OtpRows
    <3>5. /\ [otp[d] EXCEPT !.revoked = TRUE] \in OtpRows
          /\ [otp[d] EXCEPT !.revoked = TRUE].attempts = otp[d].attempts
          /\ [otp[d] EXCEPT !.revoked = TRUE].consumed = otp[d].consumed
          /\ [otp[d] EXCEPT !.revoked = TRUE].there = otp[d].there
      BY <3>2 DEF OtpRows
    <3>6. otp[n].attempts = 0 /\ otp[n].consumed = FALSE
      BY <3>1, <3>2 DEF OtpInv, LimitKept, OtpRows
    <3>7. ASSUME NEW c \in Challenge PROVE RowKept(c)
      <4>1. CASE c = n
        BY <4>1, <3>1, <3>3, <3>4, <3>6 DEF RowKept
      <4>2. CASE c = d /\ d # n
        BY <4>2, <3>3, <3>5, Zenon DEF RowKept, Exists
      <4>3. CASE c # n /\ c # d
        BY <4>3, <3>2, <3>3 DEF RowKept, Exists
      <4> QED BY <4>1, <4>2, <4>3
    <3>8. otp' \in [Challenge -> OtpRows]
      <4>1. \A c \in Challenge : otp'[c] \in OtpRows
        BY <3>7 DEF RowKept
      <4>2. DOMAIN otp' = Challenge /\ otp' = [c \in DOMAIN otp' |-> otp'[c]]
        BY <3>1, <3>2
      <4> QED BY <4>1, <4>2
    <3> QED BY <3>7, <3>8
  <2> QED BY <2>1, <2>2
<1>3. OtpTypes'
  BY <1>1, <1>2 DEF OtpInv, OtpTypes
<1>4. ASSUME NEW c \in Challenge PROVE LimitKept(c)'
  <2>1. verifying'[v].on # c
    BY <1>1, OtpAssumption
  <2> QED BY <1>1, <1>2, <2>1, VerifierLeaves
<1> QED BY <1>3, <1>4 DEF OtpInv

LEMMA OtpStarts == OtpInit => OtpInv
<1> SUFFICES ASSUME OtpInit PROVE OtpInv
  OBVIOUS
<1>1. OtpTypes
  BY DEF OtpInit, OtpTypes, OtpRow, OtpRows, OtpIdle, OtpSteps
<1>2. \A c \in Challenge : Past(c) = {} /\ Comparing(c) = {} /\ Incrementing(c) = {}
  BY OtpAssumption DEF OtpInit, OtpIdle, Past, Comparing, Incrementing
<1> QED BY <1>1, <1>2, FS_EmptySet DEF OtpInit, OtpInv, LimitKept, OtpRow

LEMMA OtpStep == OtpInv /\ [OtpNext]_otpVars => OtpInv'
<1> SUFFICES ASSUME OtpInv, [OtpNext]_otpVars PROVE OtpInv'
  OBVIOUS
<1>1. CASE UNCHANGED otpVars
  BY <1>1 DEF otpVars, OtpInv, OtpTypes, LimitKept, Exists, Past, Comparing, Incrementing
<1> QED BY <1>1, QuietOtpSteps, OtpReads, OtpIncrements, OtpCompares, OtpConsumes, OtpEnds DEF OtpNext

\* A challenge is judged no more often than its attempts were counted, and the limit of
\* attempts and its single use are exceeded by no more requests than overlapped
\* (otp.service.ts, verifyChallenge and createVoiceChallenge).
THEOREM OtpLimits == OtpSpec => []OtpLimitsHold
<1>1. OtpInv => OtpLimitsHold
  <2> SUFFICES ASSUME OtpInv, NEW c \in Challenge
               PROVE  /\ judged[c] <= otp[c].attempts
                      /\ overlap[c] > 0 => otp[c].attempts <= MaxAttempts + overlap[c] - 1
                      /\ accepted[c] <= overlap[c]
    BY DEF OtpLimitsHold
  <2>1. LimitKept(c)
    BY DEF OtpInv
  <2> QED BY <2>1, Counts DEF LimitKept
<1> QED BY <1>1, OtpStarts, OtpStep, PTL DEF OtpSpec

-----------------------------------------------------------------------------
(* The tokens of an agent session.                                         *)
(*                                                                         *)
(* A process that nothing has overtaken uses the pair the gateway accepts, *)
(* or one of its calls is about to store it.                               *)

Pairs == Token \cup {NoToken}
CallSteps == {"idle", "send", "refresh", "login", "storeRefreshed", "storeLogin"}
Storing(c) == At(c, "storeRefreshed") \/ At(c, "storeLogin")
UpToDate(p) ==
    \/ Loaded(p) = valid
    \/ \E c \in Caller : of[c] = p /\ Storing(c) /\ calls[c].got = valid

TokenTypes ==
    /\ stored \in Pairs /\ valid \in Pairs
    /\ cached \in [ApiProcess -> Pairs]
    /\ calls \in [Caller -> [step : CallSteps, had : Pairs, got : Pairs, retried : BOOLEAN]]
    /\ of \in [Caller -> ApiProcess]

TokensInv == TokenTypes /\ \A p \in ApiProcess \ overtaken : UpToDate(p)

\* A call that only goes on, with no new pair and none about to be stored.
LEMMA CallGoesOn ==
    ASSUME TokensInv, NEW c \in Caller, ~Storing(c), NEW call,
           call \in [step : CallSteps, had : Pairs, got : Pairs, retried : BOOLEAN],
           calls' = [calls EXCEPT ![c] = call], cached' = cached \/ Load(of[c]),
           UNCHANGED <<stored, valid, overtaken, of>>
    PROVE  TokensInv'
<1>1. /\ cached' \in [ApiProcess -> Pairs]
      /\ \A p \in ApiProcess : Loaded(p)' = Loaded(p)
  BY DEF TokensInv, TokenTypes, Load, Loaded, Pairs
<1>2. TokenTypes'
  BY <1>1 DEF TokensInv, TokenTypes
<1>3. \A d \in Caller : Storing(d) => d # c /\ calls'[d] = calls[d]
  BY DEF TokensInv, TokenTypes
<1>4. ASSUME NEW p \in ApiProcess \ overtaken PROVE UpToDate(p)'
  <2>1. UpToDate(p)
    BY DEF TokensInv
  <2>2. CASE Loaded(p) = valid
    BY <2>2, <1>1 DEF UpToDate
  <2>3. CASE \E d \in Caller : of[d] = p /\ Storing(d) /\ calls[d].got = valid
    BY <2>3, <1>3 DEF UpToDate, Storing, At
  <2> QED BY <2>1, <2>2, <2>3 DEF UpToDate
<1> QED BY <1>2, <1>4 DEF TokensInv

\* A new pair: the call that got it is about to store it, the other processes are overtaken.
LEMMA PairIssued ==
    ASSUME TokensInv, NEW c \in Caller, NEW step \in {"storeRefreshed", "storeLogin"},
           Issue(c, step), UNCHANGED <<stored, cached, of>>
    PROVE  TokensInv'
<1>1. valid' \in Token
  BY DEF Issue, Unused
<1>2. /\ calls' = [calls EXCEPT ![c] = [@ EXCEPT !.got = valid', !.step = step]]
      /\ \A p \in ApiProcess \ overtaken' : p = of[c]
  BY DEF Issue
<1>3. /\ [calls[c] EXCEPT !.got = valid', !.step = step]
             \in [step : CallSteps, had : Pairs, got : Pairs, retried : BOOLEAN]
      /\ [calls[c] EXCEPT !.got = valid', !.step = step].got = valid'
      /\ [calls[c] EXCEPT !.got = valid', !.step = step].step = step
  BY <1>1 DEF TokensInv, TokenTypes, CallSteps, Pairs
<1>4. TokenTypes' /\ calls'[c].got = valid' /\ calls'[c].step = step
  BY <1>1, <1>2, <1>3 DEF TokensInv, TokenTypes, Pairs
<1>5. UpToDate(of[c])'
  BY <1>4 DEF UpToDate, Storing, At
<1> QED BY <1>2, <1>4, <1>5 DEF TokensInv

LEMMA TokensStored ==
    ASSUME TokensInv, NEW c \in Caller, StoreTokens(c)
    PROVE  TokensInv'
<1>1. /\ stored' = calls[c].got /\ cached' = [cached EXCEPT ![of[c]] = calls[c].got]
      /\ calls' = [calls EXCEPT ![c] = [CallIdle EXCEPT !.step = "send", !.retried = calls[c].retried]]
      /\ valid' = valid /\ of' = of
      /\ IF calls[c].got = valid THEN overtaken' = overtaken \ {of[c]} ELSE overtaken' = ApiProcess
  BY DEF StoreTokens, Renewed
<1>2. /\ [CallIdle EXCEPT !.step = "send", !.retried = calls[c].retried]
             \in [step : CallSteps, had : Pairs, got : Pairs, retried : BOOLEAN]
      /\ calls[c].got \in Pairs /\ of[c] \in ApiProcess
  BY DEF TokensInv, TokenTypes, CallIdle, CallSteps, Pairs
<1>3. TokenTypes'
  BY <1>1, <1>2 DEF TokensInv, TokenTypes
<1>4. ASSUME NEW p \in ApiProcess \ overtaken', calls[c].got = valid PROVE UpToDate(p)'
  <2>1. CASE p = of[c]
    BY <2>1, <1>1, <1>2, <1>4 DEF UpToDate, Loaded, TokensInv, TokenTypes
  <2>2. CASE p # of[c]
    <3>1. UpToDate(p)
      BY <2>2, <1>1, <1>4 DEF TokensInv
    <3>2. CASE Loaded(p) = valid
      BY <2>2, <3>2, <1>1, <1>4 DEF UpToDate, Loaded, TokensInv, TokenTypes
    <3>3. CASE \E d \in Caller : of[d] = p /\ Storing(d) /\ calls[d].got = valid
      BY <2>2, <3>3, <1>1 DEF UpToDate, Storing, At, TokensInv, TokenTypes
    <3> QED BY <3>1, <3>2, <3>3 DEF UpToDate
  <2> QED BY <2>1, <2>2
<1> QED BY <1>1, <1>3, <1>4 DEF TokensInv

LEMMA StoreLost ==
    ASSUME TokensInv, NEW c \in Caller, StoreFails(c)
    PROVE  TokensInv'
<1>1. PICK call \in [step : CallSteps, had : Pairs, got : Pairs, retried : BOOLEAN] :
          calls' = [calls EXCEPT ![c] = call]
  <2>1. /\ [calls[c] EXCEPT !.step = "refresh", !.got = NoToken]
              \in [step : CallSteps, had : Pairs, got : Pairs, retried : BOOLEAN]
        /\ CallIdle \in [step : CallSteps, had : Pairs, got : Pairs, retried : BOOLEAN]
    BY DEF TokensInv, TokenTypes, CallIdle, CallSteps, Pairs
  <2> QED BY <2>1, Zenon DEF StoreFails
<1>2. /\ overtaken' = overtaken \cup {of[c]} /\ UNCHANGED <<stored, cached, valid, of>>
      /\ \A d \in Caller \ {c} : calls'[d] = calls[d]
  BY <1>1 DEF StoreFails, TokensInv, TokenTypes
<1>3. TokenTypes'
  BY <1>1, <1>2 DEF TokensInv, TokenTypes
<1>4. ASSUME NEW p \in ApiProcess \ overtaken' PROVE UpToDate(p)'
  <2>1. UpToDate(p) /\ p # of[c]
    BY <1>2 DEF TokensInv
  <2> QED BY <2>1, <1>2 DEF UpToDate, Loaded, Storing, At
<1> QED BY <1>3, <1>4 DEF TokensInv

LEMMA ProcessRestarts ==
    ASSUME TokensInv, NEW p \in ApiProcess, Restart(p)
    PROVE  TokensInv'
<1>1. /\ cached' = [cached EXCEPT ![p] = NoToken] /\ UNCHANGED <<stored, valid, of>>
      /\ calls' = [c \in Caller |-> IF of[c] = p THEN CallIdle ELSE calls[c]]
      /\ overtaken' = IF stored = valid THEN overtaken \ {p} ELSE overtaken \cup {p}
  BY DEF Restart
<1>2. TokenTypes'
  BY <1>1 DEF TokensInv, TokenTypes, CallIdle, CallSteps, Pairs
<1>3. ASSUME NEW q \in ApiProcess \ overtaken' PROVE UpToDate(q)'
  <2>1. CASE q = p
    BY <2>1, <1>1 DEF UpToDate, Loaded, TokensInv, TokenTypes
  <2>2. CASE q # p
    <3>1. UpToDate(q)
      BY <2>2, <1>1 DEF TokensInv
    <3>2. Loaded(q)' = Loaded(q) /\ \A d \in Caller : of[d] = q => calls'[d] = calls[d]
      BY <2>2, <1>1 DEF Loaded, TokensInv, TokenTypes
    <3> QED BY <3>1, <3>2, <1>1 DEF UpToDate, Storing, At
  <2> QED BY <2>1, <2>2
<1> QED BY <1>2, <1>3 DEF TokensInv

LEMMA TokensStart == TokensInit => TokensInv
BY TokensAssumption
   DEF TokensInit, TokensInv, TokenTypes, CallIdle, CallSteps, Pairs, UpToDate, Loaded

LEMMA TokensStep == TokensInv /\ [TokensNext]_tokenVars => TokensInv'
<1> SUFFICES ASSUME TokensInv, [TokensNext]_tokenVars PROVE TokensInv'
  OBVIOUS
<1> DEFINE Calls == [step : CallSteps, had : Pairs, got : Pairs, retried : BOOLEAN]
<1>1. ASSUME NEW c \in Caller, Ensure(c) PROVE TokensInv'
  <2>1. /\ [CallIdle EXCEPT !.step = "send"] \in Calls
        /\ [CallIdle EXCEPT !.step = "refresh", !.had = Loaded(of[c])] \in Calls
    BY DEF TokensInv, TokenTypes, CallIdle, CallSteps, Pairs, Loaded
  <2>2. \/ calls' = [calls EXCEPT ![c] = [CallIdle EXCEPT !.step = "send"]]
        \/ calls' = [calls EXCEPT ![c] = [CallIdle EXCEPT !.step = "refresh", !.had = Loaded(of[c])]]
    BY <1>1, Zenon DEF Ensure
  <2>3. ~Storing(c) /\ Load(of[c]) /\ UNCHANGED <<stored, valid, overtaken, of>>
    BY <1>1 DEF Ensure, Storing, At
  <2> HIDE DEF Calls
  <2>4. PICK call \in Calls : calls' = [calls EXCEPT ![c] = call]
    BY <2>1, <2>2, Zenon
  <2> QED BY <2>3, <2>4, CallGoesOn DEF Calls
<1>2. ASSUME NEW c \in Caller, Refresh(c) \/ Login(c) PROVE TokensInv'
  BY <1>2, PairIssued DEF Refresh, Login
<1>3. ASSUME NEW c \in Caller, RefreshRefused(c) \/ CallFails(c) PROVE TokensInv'
  <2>1. CallIdle \in Calls /\ [calls[c] EXCEPT !.step = "login"] \in Calls
    BY DEF TokensInv, TokenTypes, CallIdle, CallSteps, Pairs
  <2>2. \/ calls' = [calls EXCEPT ![c] = CallIdle]
        \/ calls' = [calls EXCEPT ![c] = [calls[c] EXCEPT !.step = "login"]]
    BY <1>3, Zenon DEF RefreshRefused, CallFails, CallGoes
  <2>3. ~Storing(c) /\ cached' = cached /\ UNCHANGED <<stored, valid, overtaken, of>>
    BY <1>3 DEF RefreshRefused, CallFails, Storing, At
  <2> HIDE DEF Calls
  <2>4. PICK call \in Calls : calls' = [calls EXCEPT ![c] = call]
    BY <2>1, <2>2, Zenon
  <2> QED BY <2>3, <2>4, CallGoesOn DEF Calls
<1>4. ASSUME NEW c \in Caller, StoreTokens(c) \/ StoreFails(c) PROVE TokensInv'
  BY <1>4, TokensStored, StoreLost
<1>5. ASSUME NEW c \in Caller, SendAccepted(c) \/ SendRefused(c) PROVE TokensInv'
  <2> DEFINE Again == [calls[c] EXCEPT !.step = "refresh", !.retried = TRUE,
                                       !.had = Loaded(of[c]), !.got = NoToken]
  <2>1. CallIdle \in Calls /\ Again \in Calls
    BY DEF TokensInv, TokenTypes, CallIdle, CallSteps, Pairs, Loaded
  <2>2. \/ calls' = [calls EXCEPT ![c] = CallIdle]
        \/ calls' = [calls EXCEPT ![c] = Again]
    BY <1>5, Zenon DEF SendAccepted, SendRefused
  <2>3. ~Storing(c) /\ Load(of[c]) /\ UNCHANGED <<stored, valid, overtaken, of>>
    BY <1>5 DEF SendAccepted, SendRefused, Storing, At
  <2> HIDE DEF Calls, Again
  <2>4. PICK call \in Calls : calls' = [calls EXCEPT ![c] = call]
    BY <2>1, <2>2, Zenon
  <2> QED BY <2>3, <2>4, CallGoesOn DEF Calls
<1>6. ASSUME NEW p \in ApiProcess, Restart(p) PROVE TokensInv'
  BY <1>6, ProcessRestarts
<1>7. CASE TokenExpires \/ UNCHANGED tokenVars
  BY <1>7 DEF TokenExpires, tokenVars, TokensInv, TokenTypes, UpToDate, Loaded, Storing, At
<1> QED BY <1>1, <1>2, <1>3, <1>4, <1>5, <1>6, <1>7 DEF TokensNext

\* A process at rest whose copy the gateway refuses was overtaken: another caller's renewal
\* crossed its own, or a renewed pair was lost (muadi-client.service.ts, sessionCache).
THEOREM StaleCopiesWereOvertaken == TokensSpec => []StaleMeansOvertaken
<1>1. TokensInv => StaleMeansOvertaken
  BY DEF TokensInv, TokenTypes, StaleMeansOvertaken, UpToDate, Loaded, Storing, At
<1> QED BY <1>1, TokensStart, TokensStep, PTL DEF TokensSpec

-----------------------------------------------------------------------------
(* The primary record of a user.                                           *)
(*                                                                         *)
(* A transaction that has been alone since it began has cleared, or is     *)
(* about to write, every record that is primary.                           *)

TxSteps == {"idle", "clear", "clearing", "write"}
TxRows == [on : Record \cup {None}, creates : BOOLEAN, primary : BOOLEAN,
           cleared : SUBSET Record, step : TxSteps]
ProfileTypes ==
    /\ rows \in [Record -> [there : BOOLEAN, primary : BOOLEAN]]
    /\ tx \in [Writer -> TxRows]
    /\ \A r \in Record : rows[r].primary => rows[r].there
    /\ \A w \in Writer : tx[w].step = "idle" \/ tx[w].on \in Record
Covered(w) ==
    tx[w].primary /\ tx[w].step \in {"clearing", "write"}
    => PrimaryRecords \subseteq tx[w].cleared \cup {tx[w].on}

ProfileInv ==
    /\ ProfileTypes
    /\ \A w \in Writer : lone = w => OpenTx = {w} /\ Covered(w)

LEMMA ProfileStarts == ProfileInit => ProfileInv
BY ProfileAssumption
   DEF ProfileInit, ProfileInv, ProfileTypes, Absent, TxIdle, TxRows, TxSteps

LEMMA WriteBegins ==
    ASSUME ProfileInv, NEW w \in Writer, NEW r \in Record, BeginWrite(w, r)
    PROVE  ProfileInv'
<1>1. PICK creates \in BOOLEAN, primary \in BOOLEAN :
          tx' = [tx EXCEPT ![w] = [on |-> r, creates |-> creates, primary |-> primary, cleared |-> {},
                                   step |-> IF primary THEN "clear" ELSE "write"]]
  BY DEF BeginWrite
<1>2. /\ tx[w] = TxIdle /\ rows' = rows
      /\ lone' = IF OpenTx = {} THEN w ELSE None
  BY DEF BeginWrite
<1>3. /\ \A v \in Writer \ {w} : tx'[v] = tx[v]
      /\ tx'[w] \in TxRows /\ tx'[w].on \in Record /\ tx'[w].step # "idle"
      /\ ~(tx'[w].primary /\ tx'[w].step \in {"clearing", "write"})
      /\ tx' \in [Writer -> TxRows]
  BY <1>1 DEF ProfileInv, ProfileTypes, TxRows, TxSteps
<1>4. ProfileTypes'
  BY <1>2, <1>3 DEF ProfileInv, ProfileTypes
<1>5. ASSUME NEW v \in Writer, lone' = v PROVE OpenTx' = {v} /\ Covered(v)'
  <2>1. v = w /\ OpenTx = {}
    BY <1>2, <1>5, ProfileAssumption
  <2>2. tx'[w] # TxIdle
    BY <1>3 DEF TxIdle
  <2> QED BY <1>3, <2>1, <2>2 DEF OpenTx, Covered
<1> QED BY <1>4, <1>5 DEF ProfileInv

LEMMA ClearingGoesOn ==
    ASSUME ProfileInv, NEW w \in Writer, StartClearing(w) \/ FinishClearing(w)
    PROVE  ProfileInv'
<1>1. rows' = rows /\ lone' = lone /\ PrimaryRecords \subseteq Record
  BY DEF StartClearing, FinishClearing, PrimaryRecords
<1>3. tx[w].step # "idle" /\ tx[w] \in TxRows /\ tx[w] # TxIdle /\ tx \in [Writer -> TxRows]
  BY DEF StartClearing, FinishClearing, ProfileInv, ProfileTypes, TxIdle
<1>4. /\ \A v \in Writer \ {w} : tx'[v] = tx[v]
      /\ tx' = [v \in Writer |-> tx'[v]]
  <2>1. CASE StartClearing(w)
    BY <2>1, <1>3 DEF StartClearing
  <2>2. CASE FinishClearing(w)
    BY <2>2, <1>3 DEF FinishClearing
  <2> QED BY <2>1, <2>2
<1>5. \/ tx'[w] = [tx[w] EXCEPT !.cleared = Others(w), !.step = "clearing"]
      \/ /\ tx'[w] = [tx[w] EXCEPT !.cleared = StillPrimary(w), !.step = "write"]
         /\ tx[w].step = "clearing"
  <2>1. CASE StartClearing(w)
    BY <2>1, <1>3 DEF StartClearing
  <2>2. CASE FinishClearing(w)
    BY <2>2, <1>3 DEF FinishClearing
  <2> QED BY <2>1, <2>2
<1>6. /\ tx'[w] \in TxRows /\ tx'[w].on = tx[w].on /\ tx'[w].primary = tx[w].primary
      /\ tx'[w].step # "idle"
      /\ \/ tx'[w].cleared = PrimaryRecords \ {tx[w].on}
         \/ tx'[w].cleared = tx[w].cleared \cap PrimaryRecords /\ tx[w].step = "clearing"
  <2>1. Others(w) \subseteq Record /\ StillPrimary(w) \subseteq Record
    BY <1>1 DEF Others, StillPrimary
  <2>2. CASE tx'[w] = [tx[w] EXCEPT !.cleared = Others(w), !.step = "clearing"]
    <3>1. /\ tx'[w] \in TxRows /\ tx'[w].on = tx[w].on /\ tx'[w].primary = tx[w].primary
          /\ tx'[w].step = "clearing" /\ tx'[w].cleared = Others(w)
      BY <1>3, <2>1, <2>2 DEF TxRows, TxSteps
    <3> QED BY <3>1 DEF Others
  <2>3. CASE /\ tx'[w] = [tx[w] EXCEPT !.cleared = StillPrimary(w), !.step = "write"]
             /\ tx[w].step = "clearing"
    <3>1. /\ tx'[w] \in TxRows /\ tx'[w].on = tx[w].on /\ tx'[w].primary = tx[w].primary
          /\ tx'[w].step = "write" /\ tx'[w].cleared = StillPrimary(w)
      BY <1>3, <2>1, <2>3 DEF TxRows, TxSteps
    <3> QED BY <2>3, <3>1 DEF StillPrimary
  <2> QED BY <1>5, <2>2, <2>3
<1>7. ProfileTypes'
  BY <1>1, <1>3, <1>4, <1>6 DEF ProfileInv, ProfileTypes
<1>8. ASSUME NEW v \in Writer, lone' = v PROVE OpenTx' = {v} /\ Covered(v)'
  <2>1. w \in OpenTx /\ OpenTx = {v} /\ Covered(v)
    BY <1>1, <1>3, <1>8, Zenon DEF ProfileInv, OpenTx
  <2>0. v = w
    BY <2>1
  <2>2. tx'[w] # TxIdle
    BY <1>6 DEF TxIdle
  <2>3. OpenTx' = {w}
    BY <1>4, <2>0, <2>1, <2>2 DEF OpenTx
  <2>4. PrimaryRecords' = PrimaryRecords
    BY <1>1 DEF PrimaryRecords
  <2>5. tx[w].primary => PrimaryRecords \subseteq tx'[w].cleared \cup {tx[w].on}
    BY <1>6, <2>0, <2>1 DEF Covered
  <2> QED BY <1>6, <2>0, <2>3, <2>4, <2>5 DEF Covered
<1> QED BY <1>7, <1>8 DEF ProfileInv

LEMMA WriteEnds ==
    ASSUME ProfileInv, NEW w \in Writer, CommitWrite(w) \/ RollBack(w)
    PROVE  ProfileInv'
<1>1. /\ tx[w] # TxIdle /\ tx' = [tx EXCEPT ![w] = TxIdle]
      /\ lone' = IF lone = w THEN None ELSE lone
  <2>1. CASE CommitWrite(w)
    BY <2>1 DEF CommitWrite, TxIdle
  <2>2. CASE RollBack(w)
    BY <2>2 DEF RollBack
  <2> QED BY <2>1, <2>2
<1>2. /\ rows' \in [Record -> [there : BOOLEAN, primary : BOOLEAN]]
      /\ \A r \in Record : rows'[r].primary => rows'[r].there
  <2>1. CASE CommitWrite(w)
    <3>1. tx[w].primary \in BOOLEAN
      BY DEF ProfileInv, ProfileTypes, TxRows
    <3> DEFINE Good(rw) == rw \in [there : BOOLEAN, primary : BOOLEAN] /\ (rw.primary => rw.there)
    <3>2. /\ rows' = [r \in Record |-> IF r = tx[w].on THEN Row(tx[w].primary)
                                       ELSE IF r \in tx[w].cleared /\ rows[r].there THEN Row(FALSE)
                                       ELSE rows[r]]
      BY <2>1 DEF CommitWrite
    <3>3. Good(Row(tx[w].primary)) /\ Good(Row(FALSE)) /\ \A r \in Record : Good(rows[r])
      BY <3>1 DEF Row, ProfileInv, ProfileTypes
    <3> HIDE DEF Good
    <3>4. \A r \in Record : Good(rows'[r])
      BY <3>2, <3>3
    <3>5. rows' = [r \in Record |-> rows'[r]]
      BY <3>2
    <3> QED BY <3>4, <3>5 DEF Good
  <2>2. CASE RollBack(w)
    BY <2>2 DEF RollBack, ProfileInv, ProfileTypes
  <2> QED BY <2>1, <2>2
<1>3. TxIdle \in TxRows /\ TxIdle.step = "idle"
  BY DEF TxIdle, TxRows, TxSteps
<1>4. ProfileTypes'
  BY <1>1, <1>2, <1>3 DEF ProfileInv, ProfileTypes
<1>5. \A v \in Writer : lone' # v
  BY <1>1, ProfileAssumption DEF ProfileInv, OpenTx
<1> QED BY <1>4, <1>5 DEF ProfileInv

LEMMA RecordDeleted ==
    ASSUME ProfileInv, NEW r \in Record, DeleteRecord(r)
    PROVE  ProfileInv'
<1>1. rows' = [rows EXCEPT ![r] = Absent] /\ tx' = tx /\ lone' = lone
  BY DEF DeleteRecord
<1>2. ProfileTypes'
  BY <1>1 DEF ProfileInv, ProfileTypes, Absent
<1>3. PrimaryRecords' \subseteq PrimaryRecords
  BY <1>1 DEF PrimaryRecords, Absent, ProfileInv, ProfileTypes
<1> QED BY <1>1, <1>2, <1>3 DEF ProfileInv, OpenTx, Covered

LEMMA ProfileStep == ProfileInv /\ [ProfileNext]_profileVars => ProfileInv'
<1> SUFFICES ASSUME ProfileInv, [ProfileNext]_profileVars PROVE ProfileInv'
  OBVIOUS
<1>1. CASE UNCHANGED profileVars
  BY <1>1 DEF profileVars, ProfileInv, ProfileTypes, OpenTx, Covered, PrimaryRecords
<1> QED BY <1>1, WriteBegins, ClearingGoesOn, WriteEnds, RecordDeleted DEF ProfileNext

\* A write that makes a record primary and meets no other leaves it the only primary record,
\* whatever overlapping writes had left behind; a write that does not make its record primary
\* adds none (profile.controller.ts, addPassenger and updatePassenger).
THEOREM LoneWritesHeal == ProfileSpec => LoneWriteHeals
<1> DEFINE Heals(w) ==
        tx[w].step = "write" /\ tx'[w].step = "idle" /\ rows' # rows
        => IF tx[w].primary THEN lone = w => PrimaryRecords' = {tx[w].on}
                            ELSE PrimaryRecords' \subseteq PrimaryRecords
<1>1. ASSUME ProfileInv, [ProfileNext]_profileVars, NEW w \in Writer PROVE Heals(w)
  <2> SUFFICES ASSUME tx[w].step = "write", tx'[w].step = "idle", rows' # rows
               PROVE  IF tx[w].primary THEN lone = w => PrimaryRecords' = {tx[w].on}
                                       ELSE PrimaryRecords' \subseteq PrimaryRecords
    OBVIOUS
  <2>1. CommitWrite(w)
    <3>1. ASSUME NEW v \in Writer, CommitWrite(v) PROVE v = w
      BY <3>1 DEF CommitWrite, ProfileInv, ProfileTypes
    <3>2. ~UNCHANGED tx
      OBVIOUS
    <3>3. PICK v \in Writer : CommitWrite(v)
      BY <1>1, <3>2 DEF ProfileNext, profileVars, BeginWrite, StartClearing, FinishClearing,
                        RollBack, DeleteRecord
    <3> QED BY <3>1, <3>3
  <2>2. /\ tx[w].on \in Record /\ tx[w].primary \in BOOLEAN
        /\ \A r \in Record : rows[r].primary \in BOOLEAN
    BY <1>1 DEF ProfileInv, ProfileTypes, TxRows
  <2>3. /\ rows'[tx[w].on].primary = tx[w].primary
        /\ \A r \in Record : r # tx[w].on =>
              IF r \in tx[w].cleared /\ rows[r].there THEN rows'[r].primary = FALSE
                                                      ELSE rows'[r] = rows[r]
    BY <2>1, <2>2 DEF CommitWrite, Row
  <2>4. CASE ~tx[w].primary
    <3>1. PrimaryRecords' \subseteq PrimaryRecords
      BY <2>2, <2>3, <2>4 DEF PrimaryRecords
    <3> QED BY <2>4, <3>1
  <2>5. CASE tx[w].primary /\ lone = w
    <3>1. PrimaryRecords \subseteq tx[w].cleared \cup {tx[w].on}
      BY <1>1, <2>5 DEF ProfileInv, Covered
    <3>2. ASSUME NEW r \in Record PROVE r \in PrimaryRecords' <=> r = tx[w].on
      BY <1>1, <2>2, <2>3, <2>5, <3>1 DEF PrimaryRecords, ProfileInv, ProfileTypes
    <3>3. PrimaryRecords' = {tx[w].on}
      BY <2>2, <3>2 DEF PrimaryRecords
    <3> QED BY <2>5, <3>3
  <2>6. CASE tx[w].primary /\ lone # w
    BY <2>6
  <2> QED BY <2>2, <2>4, <2>5, <2>6
<1>2. ProfileInv /\ [ProfileNext]_profileVars => [\A w \in Writer : Heals(w)]_profileVars
  BY <1>1
<1>3. ProfileSpec => [][\A w \in Writer : Heals(w)]_profileVars
  BY <1>2, ProfileStarts, ProfileStep, PTL DEF ProfileSpec
<1> QED BY <1>3 DEF LoneWriteHeals


-----------------------------------------------------------------------------
(* The inbox.                                                              *)
(*                                                                         *)
(* A mark under way may have been written without the copy, or the copy    *)
(* without the write; when it ends it asks for the list again.  So only    *)
(* while no mark is under way need the copy, or the answer that will       *)
(* replace it, agree with the rows; and off screen a stale copy need not,  *)
(* for it is fetched when the inbox is opened.                             *)

Lists == [items : SUBSET Notice, unread : SUBSET Notice]
Earlier(list, these) == list \in Lists /\ list.items \subseteq these

InboxTypes ==
    /\ there \subseteq Notice /\ unread \subseteq Notice /\ stale \in BOOLEAN /\ behind \in BOOLEAN
    /\ onScreen \in BOOLEAN
    /\ shown = NoList \/ Earlier(shown, there)
    /\ \/ listing \in {NoListing, Asked}
       \/ listing = [step |-> "answered", list |-> listing.list] /\ Earlier(listing.list, there)
    /\ marks = [m \in Mark |-> marks[m]]
    /\ \A m \in Mark :
          \/ marks[m] = MarkIdle
          \/ /\ marks[m] = [on |-> marks[m].on, prev |-> marks[m].prev, step |-> marks[m].step]
             /\ marks[m].step \in {"sent", "applied"} /\ Earlier(marks[m].prev, there)

Agrees(list, fresh) == list.unread = fresh \cap list.items
Unmarked == \A m \in Mark : marks[m] = MarkIdle

CopyAgrees ==
    Unmarked /\ ~behind =>
        /\ listing = NoListing /\ shown # NoList => Agrees(shown, unread) \/ (stale /\ ~onScreen)
        /\ listing.step = "answered" => Agrees(listing.list, unread)

InboxInv == InboxTypes /\ CopyAgrees

LEMMA InboxStart == InboxInit => InboxInv
  <1> SUFFICES ASSUME InboxInit PROVE InboxInv
    OBVIOUS
  <1>1. shown = NoList /\ listing = NoListing /\ listing.step = "none"
    BY DEF InboxInit, NoListing
  <1>2. marks = [m \in Mark |-> marks[m]] /\ \A m \in Mark : marks[m] = MarkIdle
    BY DEF InboxInit
  <1>3. there = {} /\ unread = {} /\ stale = FALSE /\ behind = FALSE /\ onScreen = FALSE
    BY DEF InboxInit
  <1>4. InboxTypes
    BY <1>1, <1>2, <1>3 DEF InboxTypes
  <1>5. CopyAgrees
    BY <1>1 DEF CopyAgrees
  <1> QED
    BY <1>4, <1>5 DEF InboxInv

LEMMA MarksApart ==
  ASSUME InboxTypes, NEW m \in Mark, marks[m] # MarkIdle
  PROVE  marks[m].step \in {"sent", "applied"} /\ Earlier(marks[m].prev, there)
  BY DEF InboxTypes

\* Rows are only added, and what arrives is on no copy yet.
LEMMA InboxArrive == InboxInv /\ Arrive => InboxInv'
  <1> SUFFICES ASSUME InboxInv, Arrive PROVE InboxInv'
    OBVIOUS
  <1>1. PICK n \in Notice \ there : there' = there \cup {n} /\ unread' = unread \cup {n}
    BY DEF Arrive
  <1>2. UNCHANGED <<onScreen, shown, stale, listing, marks, behind>>
    BY DEF Arrive
  <1>3. ASSUME NEW list, Earlier(list, there)
        PROVE  Earlier(list, there') /\ (Agrees(list, unread) => Agrees(list, unread'))
    BY <1>1, <1>3 DEF Earlier, Agrees, Lists
  <1>4. InboxTypes'
    BY <1>1, <1>2, <1>3 DEF InboxInv, InboxTypes
  <1>5. CopyAgrees'
    <2> SUFFICES ASSUME Unmarked, ~behind
                 PROVE  /\ listing = NoListing /\ shown # NoList =>
                               Agrees(shown, unread') \/ (stale /\ ~onScreen)
                        /\ listing.step = "answered" => Agrees(listing.list, unread')
      BY <1>2 DEF CopyAgrees, Unmarked
    <2>1. /\ listing = NoListing /\ shown # NoList => Agrees(shown, unread) \/ (stale /\ ~onScreen)
          /\ listing.step = "answered" => Agrees(listing.list, unread)
      BY DEF InboxInv, CopyAgrees
    <2>2. /\ shown # NoList => Earlier(shown, there)
          /\ listing.step = "answered" => Earlier(listing.list, there)
      BY DEF InboxInv, InboxTypes, NoListing, Asked
    <2> QED
      BY <2>1, <2>2, <1>3
  <1> QED
    BY <1>4, <1>5 DEF InboxInv

\* Opened, left or aged: what is stale is fetched when the inbox comes on screen.
LEMMA InboxPages ==
  InboxInv /\ (OpenInbox \/ AskAgain \/ LeaveInbox \/ CopyAges) => InboxInv'
  <1> SUFFICES ASSUME InboxInv, OpenInbox \/ AskAgain \/ LeaveInbox \/ CopyAges PROVE InboxInv'
    OBVIOUS
  <1>1. /\ UNCHANGED <<there, unread, shown, marks, behind>>
        /\ onScreen' \in BOOLEAN /\ stale' \in BOOLEAN /\ (stale => stale')
        /\ listing' = listing \/ listing' = Asked
    BY DEF InboxInv, InboxTypes, OpenInbox, AskAgain, LeaveInbox, CopyAges
  <1>2. InboxTypes'
    BY <1>1 DEF InboxInv, InboxTypes, Earlier
  <1>3. listing' = NoListing /\ shown # NoList /\ stale /\ ~onScreen => stale' /\ ~onScreen'
    <2>1. OpenInbox /\ listing' = NoListing => shown = NoList \/ ~stale
      BY DEF OpenInbox, Wanted, NoListing, Asked
    <2>2. AskAgain => onScreen
      BY DEF AskAgain
    <2>3. CopyAges => ~stale
      BY DEF CopyAges
    <2>4. LeaveInbox => onScreen
      BY DEF LeaveInbox
    <2> QED
      BY <2>1, <2>2, <2>3, <2>4
  <1>4. CopyAgrees'
    BY <1>1, <1>3 DEF InboxInv, CopyAgrees, Unmarked, Agrees, NoListing, Asked
  <1> QED
    BY <1>2, <1>4 DEF InboxInv

LEMMA InboxLists ==
  InboxInv /\ (ReadList \/ ShowList \/ ListFails) => InboxInv'
  <1> SUFFICES ASSUME InboxInv, ReadList \/ ShowList \/ ListFails PROVE InboxInv'
    OBVIOUS
  <1> USE DEF InboxInv, InboxTypes
  <1>1. UNCHANGED <<there, unread, onScreen, marks>>
    BY DEF ReadList, ShowList, ListFails
  <1>3. CASE ReadList
    <2> DEFINE list == [items |-> Page, unread |-> unread \cap Page]
    <2>1. /\ listing' = [step |-> "answered", list |-> list] /\ behind' = FALSE
          /\ UNCHANGED <<there, unread, onScreen, shown, stale, marks>>
      BY <1>3 DEF ReadList
    <2>2. list \in Lists /\ list.items \subseteq there /\ list.unread = unread \cap list.items
      BY DEF Page, Lists
    <2> HIDE DEF list
    <2>3. Earlier(list, there) /\ Agrees(list, unread)
      BY <2>2 DEF Earlier, Agrees
    <2>4. listing'.list = list /\ listing'.step = "answered"
      BY <2>1
    <2>5. InboxTypes'
      BY <2>1, <2>3, <2>4 DEF Earlier, Lists
    <2>6. CopyAgrees'
      BY <2>1, <2>3, <2>4 DEF CopyAgrees, NoListing
    <2> QED
      BY <2>5, <2>6
  <1>4. CASE ShowList
    <2>1. /\ listing.step = "answered" /\ shown' = listing.list /\ listing' = NoListing
          /\ stale' = FALSE /\ UNCHANGED <<there, unread, onScreen, marks, behind>>
      BY <1>4 DEF ShowList
    <2>2. Earlier(listing.list, there)
      BY <2>1 DEF NoListing, Asked
    <2> QED
      BY <2>1, <2>2 DEF Earlier, CopyAgrees, Unmarked, Agrees, NoListing
  <1>5. CASE ListFails
    <2>1. /\ listing' = NoListing /\ behind' = TRUE
          /\ UNCHANGED <<there, unread, onScreen, shown, stale, marks>>
      BY <1>5 DEF ListFails
    <2> QED
      BY <2>1 DEF Earlier, CopyAgrees
  <1> QED
    BY <1>3, <1>4, <1>5

\* While a mark is under way the copy may say anything, and its end fetches the list.
LEMMA InboxMarks ==
  ASSUME InboxInv, NEW m \in Mark, StartMark(m) \/ ApplyMark(m) \/ MarkSucceeds(m) \/ MarkFails(m)
  PROVE  InboxInv'
  <1> USE DEF InboxInv, InboxTypes
  <1>1. CASE StartMark(m)
    <2>1. PICK on \in {{n} : n \in shown.unread} \cup {Notice} :
              /\ marks' = [marks EXCEPT ![m] = [on |-> on, prev |-> shown, step |-> "sent"]]
              /\ shown' = [shown EXCEPT !.unread = @ \ on]
      BY <1>1 DEF StartMark
    <2>2. shown # NoList /\ listing' = NoListing /\ stale' = FALSE
          /\ UNCHANGED <<there, unread, onScreen, behind>>
      BY <1>1 DEF StartMark
    <2>3. Earlier(shown, there) /\ Earlier(shown', there)
      BY <2>1, <2>2 DEF Earlier, Lists
    <2>4. marks'[m].step = "sent" /\ marks'[m] # MarkIdle
      BY <2>1 DEF MarkIdle
    <2>5. InboxTypes'
      BY <2>1, <2>2, <2>3 DEF Earlier, Lists
    <2>6. CopyAgrees'
      BY <2>4 DEF CopyAgrees, Unmarked
    <2> QED
      BY <2>5, <2>6
  <1>2. CASE ApplyMark(m)
    <2>1. /\ marks[m].step = "sent" /\ unread' = unread \ marks[m].on
          /\ marks' = [marks EXCEPT ![m] = [@ EXCEPT !.step = "applied"]]
          /\ UNCHANGED <<there, onScreen, shown, stale, listing, behind>>
      BY <1>2 DEF ApplyMark
    <2>2. marks[m] # MarkIdle /\ Earlier(marks[m].prev, there)
      BY <2>1, MarksApart DEF MarkIdle
    <2>3. marks'[m].step = "applied" /\ marks'[m] # MarkIdle
      BY <2>1, <2>2 DEF MarkIdle
    <2>4. InboxTypes'
      BY <2>1, <2>2 DEF Earlier, Lists
    <2>5. CopyAgrees'
      BY <2>3 DEF CopyAgrees, Unmarked
    <2> QED
      BY <2>4, <2>5
  <1>3. CASE MarkSucceeds(m) \/ MarkFails(m)
    <2>1. /\ marks' = [marks EXCEPT ![m] = MarkIdle] /\ UNCHANGED <<there, unread, onScreen>>
          /\ shown' = shown \/ (marks[m] # MarkIdle /\ shown' = marks[m].prev)
          /\ Invalidate
      BY <1>3 DEF MarkSucceeds, MarkFails
    <2>2. shown' = shown \/ Earlier(shown', there)
      BY <2>1, MarksApart
    <2>3. /\ stale' = TRUE /\ behind' \in BOOLEAN
          /\ listing' = IF onScreen THEN Asked ELSE listing
          /\ ~onScreen /\ listing.step = "answered" => behind'
      BY <2>1 DEF Invalidate, Refetched
    <2>4. InboxTypes'
      BY <2>1, <2>2, <2>3 DEF Earlier
    <2>5. CopyAgrees'
      BY <2>1, <2>3 DEF CopyAgrees, NoListing, Asked
    <2> QED
      BY <2>4, <2>5
  <1> QED
    BY <1>1, <1>2, <1>3

LEMMA InboxStep == InboxInv /\ [InboxNext]_inboxVars => InboxInv'
  <1> SUFFICES ASSUME InboxInv, [InboxNext]_inboxVars PROVE InboxInv'
    OBVIOUS
  <1>1. CASE LateWrite
    <2>1. (\E w \in late : unread' = unread \ w)
      BY <1>1 DEF LateWrite
    <2>2. behind' = TRUE /\ UNCHANGED <<there, onScreen, shown, stale, listing, marks>>
      BY <1>1 DEF LateWrite
    <2> QED
      BY <2>1, <2>2 DEF InboxInv, InboxTypes, Earlier, CopyAgrees
  <1>2. CASE UNCHANGED inboxVars
    BY <1>2 DEF inboxVars, InboxInv, InboxTypes, Earlier, CopyAgrees, Unmarked, Agrees
  <1> QED
    BY <1>1, <1>2, InboxArrive, InboxPages, InboxLists, InboxMarks DEF InboxNext

LEMMA InboxShown == InboxInv => InboxIsTrue
  BY DEF InboxInv, CopyAgrees, Unmarked, InboxIsTrue, Agrees

-----------------------------------------------------------------------------
(* The pages of the hunts.                                                 *)

Updates == {"pause", "resume", "cancel"}

DeskTypes ==
    /\ hunts = [f \in HuntId |-> hunts[f]] /\ page \in Query \cup {"create"}
    /\ copy = [q \in Query |-> copy[q]] /\ asking = [q \in Query |-> asking[q]]
    /\ commands = [c \in Command |-> commands[c]]
    /\ \A q \in Query : asking[q] = NotAsked \/ asking[q].step \in {"asked", "answered"}

CommandFits(c) ==
    LET k == commands[c]
    IN  /\ k = [do |-> k.do, on |-> k.on, step |-> k.step, found |-> k.found,
                mine |-> k.mine, heard |-> k.heard]
        /\ k.mine \in BOOLEAN /\ k.heard \in BOOLEAN
        /\ k.do \in Updates \cup {"create", "none"}
        /\ k.do = "none" => k.step \in {"idle", "over"}
        /\ k.do = "create" => k.step # "found"
        /\ k.do \in Updates => k.on \in HuntId /\ k.step \notin {"reserved", "created"}
        \* Its page is on screen, which is not the list.
        /\ k.mine => k.do # "none" /\ page # List

\* Nothing is kept of a hunt that does not exist.
Unknown(f) ==
    hunts[f] = "none" => copy[f] = NoCopy /\ asking[f] = NotAsked /\ page # f

\* A command has written rows that query q shows, and is still to tell the client.
Tells(c, q) ==
    /\ commands[c].step \in {"created", "done"}
    /\ q = List \/ (commands[c].do # "create" /\ q = commands[c].on)
Owed(q) == \E c \in Command : Tells(c, q)

\* An answer on its way is true, and without one the copy is, or it is fetched again
\* before it is looked at.
CopyIsFresh(q) ==
    /\ asking[q].step = "answered" => asking[q].copy = Seen(q)
    /\ asking[q] = NotAsked =>
          copy[q] \in {NoCopy, Seen(q)} \/ (q \in old /\ ~Displayed(q))

CopiesAreFresh == \A q \in Query \ drifted : Owed(q) \/ CopyIsFresh(q)

DeskInv ==
    /\ DeskTypes /\ CopiesAreFresh
    /\ \A c \in Command : CommandFits(c)
    /\ \A f \in HuntId : Unknown(f)

LEMMA DeskStart == DeskInit => DeskInv
  <1> SUFFICES ASSUME DeskInit PROVE DeskInv
    OBVIOUS
  <1>1. /\ hunts \in [HuntId -> {"none", "HUNTING"}] /\ page = List
        /\ copy = [q \in Query |-> NoCopy] /\ asking = [q \in Query |-> NotAsked]
        /\ commands = [c \in Command |-> Resting]
    BY DEF DeskInit
  <1>2. DeskTypes
    BY <1>1 DEF DeskTypes, Query
  <1>3. CopiesAreFresh
    BY <1>1 DEF CopiesAreFresh, CopyIsFresh, NotAsked
  <1>4. ASSUME NEW c \in Command PROVE CommandFits(c)
    BY <1>1 DEF CommandFits, Resting, Updates
  <1>5. ASSUME NEW f \in HuntId PROVE Unknown(f)
    BY <1>1, DeskAssumption DEF Unknown, Query
  <1> QED
    BY <1>2, <1>3, <1>4, <1>5 DEF DeskInv

\* What Open, Start and a command that ends do to the requests.
LEMMA MountedIs ==
  ASSUME DeskTypes, NEW p, NEW aged
  PROVE  LET after == Mounted(p, aged)
         IN  /\ after = [q \in Query |-> after[q]]
             /\ \A q \in Query : after[q] \in {asking[q], Ask} /\ (q # p => after[q] = asking[q])
             /\ p \in Query /\ after[p] = NotAsked => copy[p] # NoCopy /\ p \notin aged
  BY DEF Mounted, DeskTypes, Ask, NotAsked

LEMMA SeenAlone ==
  ASSUME NEW q \in HuntId, hunts'[q] = hunts[q]
  PROVE  Seen(q)' = Seen(q)
  BY DeskAssumption DEF Seen

LEMMA SeenSame ==
  ASSUME UNCHANGED hunts, NEW q \in Query
  PROVE  Seen(q)' = Seen(q)
  BY DEF Seen, Listed

\* A command goes a step further: what it stops telling has been given up.
OnlyCommand(c) ==
    /\ UNCHANGED <<hunts, page, copy, asking, old>> /\ drifted \subseteq drifted'
    /\ \E k : commands' = [commands EXCEPT ![c] = k]

LEMMA CommandMoves ==
  ASSUME DeskInv, NEW c \in Command, OnlyCommand(c), CommandFits(c)',
         \A q \in Query \ drifted' : Tells(c, q) => Tells(c, q)'
  PROVE  DeskInv'
  <1>0. UNCHANGED <<hunts, page, copy, asking, old>> /\ drifted \subseteq drifted'
    BY DEF OnlyCommand
  <1>1. DeskTypes'
    BY <1>0 DEF DeskInv, DeskTypes, OnlyCommand
  <1>2. ASSUME NEW d \in Command, d # c PROVE commands'[d] = commands[d]
    <2>1. (\E k : commands' = [commands EXCEPT ![c] = k]) /\ commands = [x \in Command |-> commands[x]]
      BY DEF DeskInv, DeskTypes, OnlyCommand
    <2> QED
      BY <2>1, <1>2
  <1>3. ASSUME NEW d \in Command PROVE CommandFits(d)'
    BY <1>0, <1>2 DEF CommandFits, DeskInv
  <1>4. ASSUME NEW f \in HuntId PROVE Unknown(f)'
    BY <1>0 DEF Unknown, DeskInv
  <1>5. ASSUME NEW q \in Query \ drifted' PROVE Owed(q)' \/ CopyIsFresh(q)'
    <2>1. q \in Query \ drifted
      BY <1>0
    <2>2. CASE Owed(q)
      <3>1. PICK d \in Command : Tells(d, q)
        BY <2>2 DEF Owed
      <3>2. Tells(d, q)'
        BY <3>1, <1>2 DEF Tells
      <3> QED
        BY <3>2 DEF Owed
    <2>3. CASE CopyIsFresh(q)
      BY <1>0, <2>3, SeenSame DEF CopyIsFresh, Displayed
    <2> QED
      BY <2>1, <2>2, <2>3 DEF DeskInv, CopiesAreFresh
  <1> QED
    BY <1>1, <1>3, <1>4, <1>5 DEF DeskInv, CopiesAreFresh

LEMMA DeskSends ==
  ASSUME DeskInv, NEW c \in Command, SendCreate(c) \/ SendUpdate(c) \/ SendCancel(c)
  PROVE  DeskInv'
  <1>1. PICK do, on :
            /\ do \in Updates \cup {"create"} /\ Send(c, do, on) /\ page # List
            /\ do \in Updates => on \in HuntId
    BY DeskAssumption DEF SendCreate, SendUpdate, SendCancel, Updates
  <1>2. /\ commands[c] = Resting
        /\ commands' = [commands EXCEPT ![c] = [Resting EXCEPT !.do = do, !.on = on, !.step = "sent", !.mine = TRUE]]
        /\ UNCHANGED <<hunts, page, copy, asking, old, drifted>>
    BY <1>1 DEF Send
  <1>3. commands'[c] = [do |-> do, on |-> on, step |-> "sent", found |-> "none", mine |-> TRUE, heard |-> TRUE]
    BY <1>2 DEF Resting, DeskInv, DeskTypes
  <1> DEFINE k == commands'[c]
  <1>4. page' # List /\ k = [do |-> do, on |-> on, step |-> "sent", found |-> "none", mine |-> TRUE, heard |-> TRUE]
    BY <1>1, <1>2, <1>3
  <1>7. CommandFits(c)'
    BY <1>1, <1>4 DEF CommandFits, Updates
  <1>5. OnlyCommand(c)
    BY <1>2 DEF OnlyCommand
  <1>6. ASSUME NEW q \in Query PROVE ~Tells(c, q)
    BY <1>2 DEF Tells, Resting
  <1> QED
    BY <1>7, <1>5, <1>6, CommandMoves

LEMMA DeskGoes ==
  ASSUME DeskInv, NEW c \in Command,
         ReserveKey(c) \/ RecordHunt(c) \/ FindHunt(c) \/ LoseAnswer(c)
  PROVE  DeskInv'
  <1> DEFINE k == commands[c]
  <1>1. CommandFits(c) /\ commands = [d \in Command |-> commands[d]]
    BY DEF DeskInv, DeskTypes
  <1>2. UNCHANGED <<hunts, page, copy, asking, old, drifted>>
    BY DEF ReserveKey, RecordHunt, FindHunt, LoseAnswer
  <1>3. /\ OnlyCommand(c) /\ commands'[c].do = k.do /\ commands'[c].on = k.on
        /\ commands'[c].mine => k.mine
        /\ commands'[c].mine \in BOOLEAN /\ commands'[c].heard \in BOOLEAN
        /\ \/ k.do = "create" /\ k.step = "sent" /\ commands'[c].step = "reserved"
           \/ k.step = "created" /\ commands'[c].step = "done"
           \/ k.do \notin {"create", "none"} /\ k.step = "sent" /\ commands'[c].step = "found"
           \/ commands'[c].step = k.step
        /\ commands'[c] = [do |-> commands'[c].do, on |-> commands'[c].on, step |-> commands'[c].step,
                           found |-> commands'[c].found, mine |-> commands'[c].mine, heard |-> commands'[c].heard]
    <2>0. k = [do |-> k.do, on |-> k.on, step |-> k.step, found |-> k.found, mine |-> k.mine, heard |-> k.heard]
         /\ k.mine \in BOOLEAN /\ k.heard \in BOOLEAN
      BY <1>1 DEF CommandFits
    <2>1. CASE ReserveKey(c)
      <3>1. k.do = "create" /\ k.step = "sent" /\ commands' = [commands EXCEPT ![c] = [@ EXCEPT !.step = "reserved"]]
        BY <2>1 DEF ReserveKey, CommandGoes
      <3>2. commands'[c] = [k EXCEPT !.step = "reserved"]
        BY <1>1, <3>1
      <3>4. OnlyCommand(c)
        BY <1>2, <3>1 DEF OnlyCommand
      <3> QED
        BY <2>0, <3>1, <3>2, <3>4
    <2>2. CASE RecordHunt(c)
      <3>1. k.step = "created" /\ commands' = [commands EXCEPT ![c] = [@ EXCEPT !.step = "done"]]
        BY <2>2 DEF RecordHunt, CommandGoes
      <3>2. commands'[c] = [k EXCEPT !.step = "done"]
        BY <1>1, <3>1
      <3>4. OnlyCommand(c)
        BY <1>2, <3>1 DEF OnlyCommand
      <3> QED
        BY <2>0, <3>1, <3>2, <3>4
    <2>3. CASE FindHunt(c)
      <3>1. /\ k.do # "create" /\ k.step = "sent"
            /\ commands' = [commands EXCEPT ![c] = [@ EXCEPT !.step = "found", !.found = hunts[k.on]]]
        BY <2>3 DEF FindHunt
      <3>2. commands'[c] = [k EXCEPT !.step = "found", !.found = hunts[k.on]]
        BY <1>1, <3>1
      <3>3. k.do # "none"
        BY <1>1, <3>1 DEF CommandFits
      <3>4. OnlyCommand(c)
        BY <1>2, <3>1 DEF OnlyCommand
      <3>5. commands'[c] = [do |-> k.do, on |-> k.on, step |-> "found", found |-> hunts[k.on],
                            mine |-> k.mine, heard |-> k.heard]
        BY <2>0, <3>2
      <3> QED
        BY <2>0, <3>1, <3>3, <3>4, <3>5
    <2>4. CASE LoseAnswer(c)
      <3>1. commands' = [commands EXCEPT ![c] = [@ EXCEPT !.heard = FALSE, !.mine = FALSE]]
        BY <2>4 DEF LoseAnswer
      <3>2. commands'[c] = [k EXCEPT !.heard = FALSE, !.mine = FALSE]
        BY <1>1, <3>1
      <3>4. OnlyCommand(c)
        BY <1>2, <3>1 DEF OnlyCommand
      <3>5. commands'[c] = [do |-> k.do, on |-> k.on, step |-> k.step, found |-> k.found,
                            mine |-> FALSE, heard |-> FALSE]
        BY <2>0, <3>2
      <3> QED
        BY <3>4, <3>5
    <2> QED
      BY <2>1, <2>2, <2>3, <2>4
  <1>5. CommandFits(c)'
    <2> DEFINE after == commands'[c]
    <2>1. page' = page /\ CommandFits(c)
      BY <1>1, <1>2
    <2> QED
      BY <1>3, <2>1 DEF CommandFits, Updates
  <1>7. ASSUME NEW q \in Query, Tells(c, q) PROVE Tells(c, q)'
    BY <1>3, <1>7 DEF Tells
  <1> QED
    BY <1>3, <1>5, <1>7, CommandMoves

LEMMA DeskEnds ==
  ASSUME DeskInv, NEW c \in Command, Refused(c) \/ RecordFails(c) \/ EndsUnheard(c)
  PROVE  DeskInv'
  <1>1. CommandFits(c) /\ commands = [d \in Command |-> commands[d]]
    BY DEF DeskInv, DeskTypes
  <1>2. commands' = [commands EXCEPT ![c] = Over] /\ UNCHANGED <<hunts, page, copy, asking, old>>
    BY DEF Refused, RecordFails, EndsUnheard
  <1>3. commands'[c] = Over
    BY <1>1, <1>2
  <1>4. CommandFits(c)'
    BY <1>3 DEF CommandFits, Over, Resting, Updates
  <1>5. drifted \subseteq drifted'
    BY DEF Refused, RecordFails, EndsUnheard
  <1>6. OnlyCommand(c)
    BY <1>2, <1>3, <1>5 DEF OnlyCommand
  <1>7. ASSUME NEW q \in Query, Tells(c, q) PROVE q \in drifted'
    BY <1>7 DEF Tells, Refused, RecordFails, EndsUnheard, Touched
  <1> QED
    BY <1>4, <1>6, <1>7, CommandMoves

\* A query is asked, answered, shown or given up; the commands stay where they are.
LEMMA DeskAsks ==
  ASSUME DeskInv, NEW q \in Query, Answer(q) \/ Show(q) \/ AskFails(q)
  PROVE  DeskInv'
  <1>0. DeskTypes /\ UNCHANGED <<hunts, page, commands>>
    BY DEF DeskInv, Answer, Show, AskFails
  <1>1. /\ asking[q] # NotAsked
        /\ \E k : asking' = [asking EXCEPT ![q] = k]
        /\ \E k : copy' = [copy EXCEPT ![q] = k]
    BY <1>0 DEF Answer, Show, AskFails, DeskTypes, NotAsked
  <1>2. \A r \in Query : r # q => asking'[r] = asking[r] /\ copy'[r] = copy[r]
    BY <1>0, <1>1 DEF DeskTypes
  <1>3. /\ asking'[q] = NotAsked \/ asking'[q].step = "answered"
        /\ q \notin drifted' /\ asking'[q].step = "answered" => asking'[q].copy = Seen(q)
        /\ q \notin drifted' /\ asking'[q] = NotAsked =>
              /\ q \notin drifted /\ asking[q].step = "answered" /\ copy'[q] = asking[q].copy
    BY <1>0 DEF Answer, Show, AskFails, DeskTypes, NotAsked
  <1>4. \A r \in Query : r # q => (r \in old' <=> r \in old) /\ (r \in drifted' <=> r \in drifted)
    BY DEF Answer, Show, AskFails
  <1>5. DeskTypes'
    BY <1>0, <1>1, <1>2, <1>3 DEF DeskTypes
  <1>6. ASSUME NEW c \in Command PROVE CommandFits(c)'
    BY <1>0 DEF DeskInv, CommandFits
  <1>7. ASSUME NEW f \in HuntId PROVE Unknown(f)'
    BY <1>0, <1>1, <1>2 DEF DeskInv, Unknown, Query
  <1>8. ASSUME NEW r \in Query \ drifted' PROVE Owed(r)' \/ CopyIsFresh(r)'
    <2>1. CASE Owed(r)
      BY <1>0, <2>1 DEF Owed, Tells
    <2>2. CASE ~Owed(r) /\ r # q
      <3>1. CopyIsFresh(r)
        BY <1>4, <2>2 DEF DeskInv, CopiesAreFresh
      <3> QED
        BY <1>0, <1>2, <1>4, <2>2, <3>1, SeenSame DEF CopyIsFresh, Displayed
    <2>3. CASE ~Owed(r) /\ r = q
      <3>1. Seen(q)' = Seen(q)
        BY <1>0, SeenSame
      <3>2. asking'[q].step = "answered" => asking'[q].copy = Seen(q)
        BY <1>3, <2>3
      <3>3. asking'[q] = NotAsked => copy'[q] = Seen(q)
        <4> SUFFICES ASSUME asking'[q] = NotAsked PROVE copy'[q] = Seen(q)
          OBVIOUS
        <4>1. q \notin drifted /\ asking[q].step = "answered" /\ copy'[q] = asking[q].copy
          BY <1>3, <2>3
        <4>2. CopyIsFresh(q)
          BY <4>1, <2>3 DEF DeskInv, CopiesAreFresh
        <4> QED
          BY <4>1, <4>2 DEF CopyIsFresh
      <3> QED
        BY <2>3, <3>1, <3>2, <3>3 DEF CopyIsFresh
    <2> QED
      BY <2>1, <2>2, <2>3
  <1> QED
    BY <1>5, <1>6, <1>7, <1>8 DEF DeskInv, CopiesAreFresh

\* A page comes on screen: what is old of it is fetched before anybody looks.
LEMMA DeskPages ==
  ASSUME DeskInv, Start \/ Age \/ \E p \in Query \cup {"create"} : Open(p)
  PROVE  DeskInv'
  <1>0. DeskTypes /\ UNCHANGED <<hunts, copy, drifted>>
    BY DEF DeskInv, Start, Age, Open
  <1>1. PICK p, aged :
            /\ asking' = asking \/ asking' = Mounted(p, aged)
            /\ page' = page \/ (page' = p /\ asking' = Mounted(p, aged) /\ aged = old)
            /\ p \in HuntId => hunts[p] # "none"
            /\ p \in Query \cup {"create"}
    BY DeskAssumption DEF Start, Age, Open, Query
  <1>2. \/ commands' = commands /\ page' = page
        \/ commands' = Left
    BY DEF Start, Age, Open
  <1>3. \A q \in Query : copy[q] = NoCopy \/ q \notin old \/ q \in old'
    BY DEF Start, Age, Open
  <1>4. /\ asking' = [q \in Query |-> asking'[q]]
        /\ \A q \in Query : asking'[q] \in {asking[q], Ask} /\ (q # p => asking'[q] = asking[q])
        /\ page' # page /\ p \in Query /\ asking'[p] = NotAsked => copy[p] # NoCopy /\ p \notin old
    BY <1>0, <1>1, MountedIs DEF DeskTypes
  <1>5. DeskTypes'
    BY <1>0, <1>1, <1>2, <1>4 DEF DeskTypes, Left, Ask
  <1>6. ASSUME NEW c \in Command
        PROVE  /\ CommandFits(c)'
               /\ commands'[c].step = commands[c].step /\ commands'[c].do = commands[c].do
               /\ commands'[c].on = commands[c].on
    <2>1. CommandFits(c)
      BY DEF DeskInv
    <2>2. CASE commands' = commands /\ page' = page
      BY <2>1, <2>2 DEF CommandFits
    <2>3. CASE commands' = Left
      <3> DEFINE k == commands[c]
      <3>1. commands'[c] = [k EXCEPT !.mine = FALSE]
        BY <2>3 DEF Left
      <3>2. commands'[c] = [do |-> k.do, on |-> k.on, step |-> k.step, found |-> k.found,
                            mine |-> FALSE, heard |-> k.heard]
        BY <2>1, <3>1 DEF CommandFits
      <3> QED
        BY <2>1, <3>2 DEF CommandFits
    <2> QED
      BY <1>2, <2>2, <2>3
  <1>7. ASSUME NEW f \in HuntId PROVE Unknown(f)'
    <2>1. Unknown(f)
      BY DEF DeskInv
    <2>2. hunts[f] = "none" => f # p
      BY <1>1
    <2> QED
      BY <1>0, <1>1, <1>4, <2>1, <2>2 DEF Unknown, Query
  <1>8. ASSUME NEW q \in Query \ drifted' PROVE Owed(q)' \/ CopyIsFresh(q)'
    <2>1. CASE Owed(q)
      BY <1>6, <2>1 DEF Owed, Tells
    <2>2. CASE ~Owed(q)
      <3>1. CopyIsFresh(q)
        BY <1>0, <2>2 DEF DeskInv, CopiesAreFresh
      <3>2. Seen(q)' = Seen(q)
        BY <1>0, SeenSame
      <3>3. asking'[q] \in {asking[q], Ask} /\ Ask.step = "asked" /\ Ask # NotAsked
        BY <1>4 DEF Ask, NotAsked
      <3>4. asking'[q].step = "answered" => asking'[q].copy = Seen(q)'
        BY <3>1, <3>2, <3>3 DEF CopyIsFresh
      <3>5. asking'[q] = NotAsked => copy[q] \in {NoCopy, Seen(q)} \/ (q \in old' /\ page' # q)
        <4> SUFFICES ASSUME asking'[q] = NotAsked, copy[q] \notin {NoCopy, Seen(q)}
                     PROVE  q \in old' /\ page' # q
          OBVIOUS
        <4>1. asking[q] = NotAsked
          BY <3>3
        <4>2. q \in old /\ page # q
          BY <3>1, <4>1 DEF CopyIsFresh, Displayed
        <4>3. page' = q => FALSE
          BY <1>1, <1>4, <4>2
        <4> QED
          BY <1>3, <4>2, <4>3
      <3> QED
        BY <1>0, <3>2, <3>4, <3>5 DEF CopyIsFresh, Displayed
    <2> QED
      BY <2>1, <2>2
  <1> QED
    BY <1>5, <1>6, <1>7, <1>8 DEF DeskInv, CopiesAreFresh

\* Hunt f is written; command c goes to k, which will tell of it.
HuntWritten(f) ==
    \E s : hunts' = [hunts EXCEPT ![f] = s] /\ (s = "none" => hunts[f] = "none")
WillTell(c, k, f) ==
    /\ commands' = [commands EXCEPT ![c] = k]
    /\ k = [do |-> k.do, on |-> k.on, step |-> k.step, found |-> k.found,
            mine |-> k.mine, heard |-> k.heard]
    /\ k.do = commands[c].do /\ k.mine = commands[c].mine /\ k.heard = commands[c].heard
    /\ k.step \in {"created", "done"} /\ commands[c].step \notin {"created", "done"}
    /\ IF k.do = "create" THEN hunts[f] = "none"
       ELSE k.do \in Updates /\ k.on = f /\ k.step = "done"

\* Rows are written: the queries that show them have drifted, or the command will tell,
\* or nothing is kept of a hunt that has just come to be.
LEMMA DeskWrites ==
  ASSUME DeskInv,
         \/ \E c \in Command : CreateHunt(c) \/ WriteHunt(c)
         \/ \E f \in HuntId : RunMoves(f)
  PROVE  DeskInv'
  <1>0. DeskTypes /\ UNCHANGED <<page, copy, asking, old>> /\ drifted \subseteq drifted'
    BY DEF DeskInv, CreateHunt, WriteHunt, RunMoves
  <1>1. PICK f \in HuntId :
            /\ HuntWritten(f)
            /\ \/ UNCHANGED commands /\ {f, List} \subseteq drifted'
               \/ \E c \in Command : \E k : WillTell(c, k, f)
    <2>1. ASSUME NEW c \in Command
          PROVE  /\ commands[c] =
                      [do |-> commands[c].do, on |-> commands[c].on, step |-> commands[c].step,
                       found |-> commands[c].found, mine |-> commands[c].mine, heard |-> commands[c].heard]
                 /\ commands[c].mine \in BOOLEAN /\ commands[c].heard \in BOOLEAN
      BY DEF DeskInv, CommandFits
    <2>2. CASE \E c \in Command : CreateHunt(c)
      <3>1. PICK c \in Command : CreateHunt(c)
        BY <2>2
      <3>2. PICK f \in HuntId :
                /\ hunts' = [hunts EXCEPT ![f] = "HUNTING"] /\ hunts[f] = "none"
                /\ commands' = [commands EXCEPT ![c] = [@ EXCEPT !.on = f, !.step = "created"]]
        BY <3>1 DEF CreateHunt
      <3>3. commands[c].step = "reserved" /\ commands[c].do = "create"
        BY <3>1 DEF CreateHunt, DeskInv, CommandFits
      <3>4. PICK k : k = [commands[c] EXCEPT !.on = f, !.step = "created"]
        OBVIOUS
      <3>5. k = [do |-> commands[c].do, on |-> f, step |-> "created", found |-> commands[c].found,
                 mine |-> commands[c].mine, heard |-> commands[c].heard]
        <4>1. commands[c] =
                  [do |-> commands[c].do, on |-> commands[c].on, step |-> commands[c].step,
                   found |-> commands[c].found, mine |-> commands[c].mine, heard |-> commands[c].heard]
          BY <2>1
        <4> QED
          BY <2>1, <3>4, <4>1
      <3>6. commands' = [commands EXCEPT ![c] = k]
        BY <3>2, <3>4
      <3>7. WillTell(c, k, f)
        BY <3>2, <3>3, <3>5, <3>6 DEF WillTell
      <3>8. HuntWritten(f)
        BY <3>2 DEF HuntWritten
      <3> QED
        BY <3>7, <3>8
    <2>3. CASE \E c \in Command : WriteHunt(c)
      <3>1. PICK c \in Command : WriteHunt(c)
        BY <2>3
      <3>2. PICK f : f = commands[c].on
        OBVIOUS
      <3>3. /\ commands[c].step = "found"
            /\ hunts' = [hunts EXCEPT ![f] = Commanded(commands[c].do, commands[c].found, @)]
            /\ commands' = [commands EXCEPT ![c] = [@ EXCEPT !.step = "done"]]
        BY <3>1, <3>2 DEF WriteHunt, CommandGoes
      <3>4. commands[c].do \in Updates /\ f \in HuntId
        BY <3>2, <3>3 DEF DeskInv, CommandFits
      <3>5. PICK k : k = [commands[c] EXCEPT !.step = "done"]
        OBVIOUS
      <3>6. k = [do |-> commands[c].do, on |-> f, step |-> "done", found |-> commands[c].found,
                 mine |-> commands[c].mine, heard |-> commands[c].heard]
        <4>1. commands[c] =
                  [do |-> commands[c].do, on |-> commands[c].on, step |-> commands[c].step,
                   found |-> commands[c].found, mine |-> commands[c].mine, heard |-> commands[c].heard]
          BY <2>1
        <4> QED
          BY <3>2, <3>5, <4>1
      <3>7. commands' = [commands EXCEPT ![c] = k]
        BY <3>3, <3>5
      <3>8. WillTell(c, k, f)
        BY <3>3, <3>4, <3>6, <3>7 DEF WillTell, Updates
      <3>9. HuntWritten(f)
        <4>1. PICK s : s = Commanded(commands[c].do, commands[c].found, hunts[f])
          OBVIOUS
        <4>2. hunts' = [hunts EXCEPT ![f] = s]
          BY <3>3, <4>1
        <4>3. s = "none" => hunts[f] = "none"
          BY <4>1 DEF Commanded
        <4> QED
          BY <4>2, <4>3 DEF HuntWritten
      <3> QED
        BY <3>4, <3>8, <3>9
    <2>4. CASE \E f \in HuntId : RunMoves(f)
      <3>1. PICK f \in HuntId : RunMoves(f)
        BY <2>4
      <3>2. HuntWritten(f)
        BY <3>1 DEF RunMoves, HuntWritten
      <3> QED
        BY <3>1, <3>2 DEF RunMoves
    <2> QED
      BY <2>2, <2>3, <2>4
  <1>2. /\ \A h \in HuntId : h # f => hunts'[h] = hunts[h]
        /\ \A h \in HuntId : hunts'[h] = "none" => hunts[h] = "none"
    BY <1>0, <1>1 DEF DeskTypes, HuntWritten
  <1>3. DeskTypes'
    BY <1>0, <1>1 DEF DeskTypes, HuntWritten, WillTell
  <1>4. ASSUME NEW c \in Command PROVE CommandFits(c)'
    <2>1. CommandFits(c)
      BY DEF DeskInv
    <2>2. CASE commands'[c] = commands[c]
      BY <1>0, <2>1, <2>2 DEF CommandFits
    <2>3. CASE commands'[c] # commands[c]
      <3>1. PICK k : WillTell(c, k, f)
        <4>1. PICK d, k : d \in Command /\ WillTell(d, k, f)
          BY <1>1, <2>3
        <4>2. d = c
          BY <1>0, <2>3, <4>1 DEF DeskTypes, WillTell
        <4> QED
          BY <4>1, <4>2
      <3>2. commands'[c] = k
        BY <1>0, <3>1 DEF DeskTypes, WillTell
      <3>3. /\ k = [do |-> k.do, on |-> k.on, step |-> k.step, found |-> k.found,
                    mine |-> k.mine, heard |-> k.heard]
            /\ k.do = commands[c].do /\ k.mine = commands[c].mine /\ k.heard = commands[c].heard
            /\ k.step \in {"created", "done"}
            /\ k.do = "create" \/ (k.do \in Updates /\ k.on = f /\ k.step = "done")
        BY <3>1 DEF WillTell
      <3> QED
        BY <1>0, <2>1, <3>2, <3>3 DEF CommandFits, Updates
    <2> QED
      BY <2>2, <2>3
  <1>5. ASSUME NEW h \in HuntId PROVE Unknown(h)'
    BY <1>0, <1>2 DEF DeskInv, Unknown
  <1>6. ASSUME NEW q \in Query, Owed(q) PROVE Owed(q)'
    <2>1. PICK d \in Command : Tells(d, q)
      BY <1>6 DEF Owed
    <2>2. commands'[d] = commands[d]
      BY <1>0, <1>1, <2>1 DEF DeskTypes, Tells, WillTell
    <2> QED
      BY <2>1, <2>2 DEF Owed, Tells
  <1>7. ASSUME NEW q \in Query \ drifted' PROVE Owed(q)' \/ CopyIsFresh(q)'
    <2>1. CASE Owed(q)
      BY <1>6, <2>1
    <2>2. CASE q \in HuntId /\ q # f /\ ~Owed(q)
      <3>1. CopyIsFresh(q) /\ Seen(q)' = Seen(q)
        BY <1>0, <1>2, <2>2, SeenAlone DEF DeskInv, CopiesAreFresh
      <3> QED
        BY <1>0, <3>1 DEF CopyIsFresh, Displayed
    <2>3. CASE q \in {f, List}
      <3>1. PICK c, k : c \in Command /\ WillTell(c, k, f)
        BY <1>1, <2>3
      <3>2. commands'[c] = k
        BY <1>0, <3>1 DEF DeskTypes, WillTell
      <3>3. CASE q = List \/ k.do # "create"
        BY <2>3, <3>1, <3>2, <3>3 DEF Owed, Tells, WillTell
      <3>4. CASE q = f /\ hunts[f] = "none"
        BY <1>0, <3>4 DEF DeskInv, Unknown, CopyIsFresh, NotAsked
      <3> QED
        BY <2>3, <3>1, <3>3, <3>4 DEF WillTell
    <2> QED
      BY <2>1, <2>2, <2>3 DEF Query
  <1> QED
    BY <1>3, <1>4, <1>5, <1>7 DEF DeskInv, CopiesAreFresh

\* A command that tells: what it wrote is fetched at once, fetched when it is next on
\* screen, or crossed by an answer that was on its way.
LEMMA DeskTells ==
  ASSUME DeskInv, NEW c \in Command, CommandSucceeds(c)
  PROVE  DeskInv'
  <1> DEFINE k == commands[c]
             qs == Invalidates(k)
             back == k.mine /\ k.do \in {"create", "cancel"}
  <1>0. DeskTypes /\ UNCHANGED <<hunts, copy>>
    BY DEF DeskInv, CommandSucceeds
  <1>1. /\ k.step = "done" /\ CommandFits(c)
        /\ old' = old \cup {q \in qs : copy[q] # NoCopy}
        /\ drifted' = drifted \cup Crossed(qs) \cup (IF k.do = "cancel" THEN {k.on} ELSE {})
        /\ IF back
           THEN page' = List /\ asking' = Mounted(List, old') /\ commands' = [Left EXCEPT ![c] = Over]
           ELSE /\ page' = page /\ commands' = [commands EXCEPT ![c] = Over]
                /\ asking' = [q \in Query |-> IF q \in qs /\ Displayed(q) /\ ~GoesOn(q) THEN Ask ELSE asking[q]]
    BY DEF DeskInv, CommandSucceeds
  <1>2. List \in qs /\ (back => qs = {List} /\ page # List)
    BY <1>1 DEF Invalidates, CommandFits
  <1>3. \A q \in Query \ drifted' : Tells(c, q) => q \in qs
    BY <1>1 DEF Tells, Invalidates, CommandFits, Updates
  <1> HIDE DEF qs
  <1>4. /\ asking' = [q \in Query |-> asking'[q]]
        /\ \A q \in Query : asking'[q] \in {asking[q], Ask}
        /\ \A q \in Query : (back => q # List) /\ (~back => q \notin qs \/ page # q) => asking'[q] = asking[q]
        /\ back /\ asking'[List] = NotAsked => copy[List] # NoCopy /\ List \notin old'
        /\ ~back => \A q \in qs : q \in Query /\ page = q => GoesOn(q) \/ asking'[q] = Ask
    <2>1. CASE back
      <3>1. asking' = Mounted(List, old')
        BY <1>1, <2>1
      <3>2. /\ asking' = [q \in Query |-> asking'[q]]
            /\ \A q \in Query : asking'[q] \in {asking[q], Ask} /\ (q # List => asking'[q] = asking[q])
            /\ List \in Query /\ asking'[List] = NotAsked => copy[List] # NoCopy /\ List \notin old'
        BY <1>0, <3>1, MountedIs
      <3> QED
        BY <2>1, <3>2 DEF Query
    <2>2. CASE ~back
      <3>1. asking' = [q \in Query |-> IF q \in qs /\ Displayed(q) /\ ~GoesOn(q) THEN Ask ELSE asking[q]]
        BY <1>1, <2>2
      <3> QED
        BY <1>0, <2>2, <3>1 DEF Displayed, DeskTypes
    <2> QED
      BY <2>1, <2>2
  <1>5. /\ commands' = [d \in Command |-> commands'[d]] /\ commands'[c] = Over
        /\ \A d \in Command : d # c =>
              commands'[d] = commands[d] \/ commands'[d] = [commands[d] EXCEPT !.mine = FALSE]
        /\ back => \A d \in Command : d # c => commands'[d] = [commands[d] EXCEPT !.mine = FALSE]
        /\ ~back => \A d \in Command : d # c => commands'[d] = commands[d]
    BY <1>0, <1>1 DEF DeskTypes, Left
  <1>6. DeskTypes'
    <2>1. page' \in Query \cup {"create"}
      BY <1>0, <1>1 DEF DeskTypes, Query
    <2>2. \A q \in Query : asking'[q] = NotAsked \/ asking'[q].step \in {"asked", "answered"}
      BY <1>0, <1>4 DEF DeskTypes, Ask
    <2> QED
      BY <1>0, <1>4, <1>5, <2>1, <2>2 DEF DeskTypes
  <1>7. ASSUME NEW d \in Command, d # c
        PROVE  /\ CommandFits(d)'
               /\ commands'[d].step = commands[d].step /\ commands'[d].do = commands[d].do
               /\ commands'[d].on = commands[d].on
    <2>1. CommandFits(d)
      BY DEF DeskInv
    <2>2. CASE back
      <3> DEFINE j == commands[d]
      <3>1. commands'[d] = [j EXCEPT !.mine = FALSE]
        BY <1>5, <1>7, <2>2
      <3>2. commands'[d] = [do |-> j.do, on |-> j.on, step |-> j.step, found |-> j.found,
                            mine |-> FALSE, heard |-> j.heard]
        BY <2>1, <3>1 DEF CommandFits
      <3> QED
        BY <2>1, <3>2 DEF CommandFits
    <2>3. CASE ~back
      <3>1. commands'[d] = commands[d] /\ page' = page
        BY <1>1, <1>5, <1>7, <2>3
      <3> QED
        BY <2>1, <3>1 DEF CommandFits
    <2> QED
      BY <2>2, <2>3
  <1>8. CommandFits(c)'
    BY <1>5 DEF CommandFits, Over, Resting, Updates
  <1>9. ASSUME NEW f \in HuntId PROVE Unknown(f)'
    <2>1. Unknown(f) /\ f # List /\ f \in Query
      BY DeskAssumption DEF DeskInv, Query
    <2>2. page' # page => page' = List
      BY <1>1
    <2> QED
      BY <1>0, <1>4, <2>1, <2>2 DEF Unknown
  <1>10. ASSUME NEW q \in Query \ drifted' PROVE Owed(q)' \/ CopyIsFresh(q)'
    <2>1. Seen(q)' = Seen(q) /\ q \notin drifted
      BY <1>0, <1>1, SeenSame
    <2>2. CASE q \notin qs
      <3>1. ~Tells(c, q) /\ q # List
        BY <1>2, <1>3, <2>2
      <3>2. CASE Owed(q)
        <4>1. PICK d \in Command : Tells(d, q)
          BY <3>2 DEF Owed
        <4>2. Tells(d, q)'
          BY <1>7, <3>1, <4>1 DEF Tells
        <4> QED
          BY <4>2 DEF Owed
      <3>3. CASE CopyIsFresh(q)
        <4>1. asking'[q] = asking[q]
          BY <1>4, <2>2, <3>1
        <4>2. (q \in old => q \in old') /\ (page' = q => page = q)
          BY <1>1, <3>1
        <4> QED
          BY <1>0, <2>1, <3>3, <4>1, <4>2 DEF CopyIsFresh, Displayed
      <3> QED
        BY <2>1, <3>2, <3>3 DEF DeskInv, CopiesAreFresh
    <2>3. CASE q \in qs /\ page = q
      <3>1. asking'[q] = Ask
        BY <1>1, <1>2, <1>4, <2>3 DEF Crossed
      <3> QED
        BY <3>1 DEF CopyIsFresh, Ask, NotAsked
    <2>4. CASE q \in qs /\ page # q
      <3>1. asking[q] = NotAsked
        BY <1>1, <2>4 DEF Crossed, GoesOn, Displayed
      <3>2. copy[q] = NoCopy \/ q \in old'
        BY <1>1, <2>4
      <3>3. asking'[q] \in {NotAsked, Ask}
        BY <1>4, <3>1
      <3>4. CASE asking'[q] = Ask
        BY <3>4 DEF CopyIsFresh, Ask, NotAsked
      <3>5. CASE asking'[q] = NotAsked
        <4>1. copy[q] = NoCopy \/ page' # q
          BY <1>1, <1>2, <1>4, <2>4, <3>2, <3>5
        <4> QED
          BY <1>0, <3>2, <3>5, <4>1 DEF CopyIsFresh, Displayed, NotAsked
      <3> QED
        BY <3>3, <3>4, <3>5
    <2> QED
      BY <2>2, <2>3, <2>4
  <1> QED
    BY <1>6, <1>7, <1>8, <1>9, <1>10 DEF DeskInv, CopiesAreFresh

LEMMA DeskStep == DeskInv /\ [DeskNext]_deskVars => DeskInv'
  <1> SUFFICES ASSUME DeskInv, [DeskNext]_deskVars PROVE DeskInv'
    OBVIOUS
  <1>1. CASE UNCHANGED deskVars
    <2>1. UNCHANGED <<hunts, page, copy, asking, old, commands, drifted>>
      BY <1>1 DEF deskVars
    <2>2. \A c \in Command, q \in Query : Tells(c, q)' = Tells(c, q) /\ CommandFits(c)' = CommandFits(c)
      BY <2>1 DEF Tells, CommandFits
    <2>3. ASSUME NEW q \in Query \ drifted PROVE Owed(q)' \/ CopyIsFresh(q)'
      <3>1. Owed(q) \/ CopyIsFresh(q)
        BY DEF DeskInv, CopiesAreFresh
      <3> QED
        BY <2>1, <3>1, SeenSame DEF Owed, Tells, CopyIsFresh, Displayed
    <2> QED
      BY <2>1, <2>3 DEF DeskInv, DeskTypes, CopiesAreFresh, CommandFits, Unknown
  <1> QED
    BY <1>1, DeskAsks, DeskPages, DeskWrites, DeskTells, DeskSends, DeskGoes, DeskEnds DEF DeskNext

LEMMA HuntsShown == DeskInv => HuntsAreTrue
  <1> SUFFICES ASSUME DeskInv, NEW q \in Query \ drifted, Displayed(q), asking[q] = NotAsked,
                      copy[q] # NoCopy, \A c \in Command : ~UnderWay(c)
               PROVE  copy[q] = Seen(q)
    BY DEF HuntsAreTrue
  <1>1. ~Owed(q)
    BY DEF Owed, Tells, UnderWay, Over, Resting
  <1> QED
    BY <1>1 DEF DeskInv, CopiesAreFresh, CopyIsFresh

(* Whatever the screens, the server and the network do: a page of the inbox or of the   *)
(* hunts that waits for nothing shows what the server has (useInbox.ts, useHunts.ts).   *)
THEOREM PagesTellTheTruth == ServicesSpec => []PagesAreTrue
  <1>1. ServicesInit => InboxInv /\ DeskInv
    BY InboxStart, DeskStart DEF ServicesInit
  <1>2. InboxInv /\ DeskInv /\ [ServicesNext]_services => InboxInv' /\ DeskInv'
    <2>1. [ServicesNext]_services => [InboxNext]_inboxVars /\ [DeskNext]_deskVars
      BY DEF ServicesNext, services
    <2> QED
      BY <2>1, InboxStep, DeskStep
  <1>3. InboxInv /\ DeskInv => PagesAreTrue
    BY InboxShown, HuntsShown DEF PagesAreTrue
  <1> QED
    BY <1>1, <1>2, <1>3, PTL DEF ServicesSpec

-----------------------------------------------------------------------------
(* The way to the payment. *)

Heard(c) == holds[c].at \in {"sent", "booked"} => c \in seen \cup left \cup broken \/ Waits(c)

FlowInv ==
    /\ holds = [c \in Press |-> holds[c]]
    /\ hold.status = "pending" => hold.call \in Press
    /\ \A c \in Press : Heard(c)

LEMMA FlowStart == FlowInit => FlowInv
  BY DEF FlowInit, FlowInv, Heard, NoHold, Unsent

\* The hold's screen waits for its answer or goes; the rest of the pages say nothing of it.
LEMMA FlowMoves ==
  ASSUME FlowInv, UNCHANGED <<holds, seen, broken>>,
         UNCHANGED <<hold, left>> \/ Unmount
  PROVE  FlowInv'
  BY DEF FlowInv, Heard, Waits, Unmount, NoHold

LEMMA FlowStep == FlowInv /\ [FlowNext]_flowVars => FlowInv'
  <1> SUFFICES ASSUME FlowInv, [FlowNext]_flowVars PROVE FlowInv'
    OBVIOUS
  <1>1. CASE \/ SearchAnswers \/ SearchAgain \/ \E why \in {"error", "timeout"} : SearchFails(why)
             \/ Preselect \/ \E p \in Passenger : Pick(p)
    BY <1>1, FlowMoves DEF SearchAnswers, SearchAgain, SearchFails, Preselect, Pick
  <1>2. CASE \/ \E f \in Flight : Select(f) \/ \E at \in {"passengers", "detail"} : Follow(Route(at, f))
             \/ \E at \in {"results", "elsewhere"} : Follow(Route(at, NoOne))
             \/ Back \/ Turn \/ Reload \/ Continue
    <2>1. Unmount /\ UNCHANGED <<holds, seen, broken>>
      BY <1>2 DEF Select, Follow, Back, Turn, Reload, Continue, Visit
    <2> QED
      BY <2>1, FlowMoves
  <1>3. CASE \E c \in Press : Pay(c)
    <2>1. PICK c \in Press : Pay(c)
      BY <1>3
    <2>2. /\ hold.status = "idle" /\ hold' = [status |-> "pending", call |-> c, error |-> NoOne]
          /\ \E k : holds' = [holds EXCEPT ![c] = k]
          /\ UNCHANGED <<seen, left, broken>>
      BY <2>1 DEF Pay, Ready
    <2> QED
      BY <2>2 DEF FlowInv, Heard, Waits
  <1>4. CASE \E c \in Press : ServerBooks(c) \/ \E why \in Refusals : ServerRefuses(c, why)
    <2>1. PICK c \in Press : holds[c].at = "sent" /\ \E k : holds' = [holds EXCEPT ![c] = k]
      BY <1>4 DEF ServerBooks, ServerRefuses
    <2>2. UNCHANGED <<hold, seen, left, broken>>
      BY <1>4 DEF ServerBooks, ServerRefuses
    <2> QED
      BY <2>1, <2>2 DEF FlowInv, Heard, Waits
  <1>5. CASE \E c \in Press : Succeeds(c)
    <2>1. PICK c \in Press : Succeeds(c)
      BY <1>5
    <2>2. Waits(c) /\ hold' = NoHold /\ seen' = seen \cup {c} /\ UNCHANGED <<holds, left, broken>>
      BY <2>1 DEF Succeeds
    <2> QED
      BY <2>2 DEF FlowInv, Heard, Waits, NoHold
  <1>6. CASE \E c \in Press : Fails(c)
    <2>1. PICK c \in Press : Fails(c)
      BY <1>6
    <2>2. /\ Waits(c) /\ holds[c].at = "refused"
          /\ hold' = [hold EXCEPT !.status = "error", !.error = holds[c].error]
          /\ UNCHANGED <<holds, seen, left, broken>>
      BY <2>1 DEF Fails
    <2> QED
      BY <2>2 DEF FlowInv, Heard, Waits
  <1>7. CASE \E c \in Press : Breaks(c)
    <2>1. PICK c \in Press : Breaks(c)
      BY <1>7
    <2>2. /\ Waits(c) /\ broken' = broken \cup {c}
          /\ hold' = [hold EXCEPT !.status = "error", !.error = "other"]
          /\ UNCHANGED <<holds, seen, left>>
      BY <2>1 DEF Breaks
    <2> QED
      BY <2>2 DEF FlowInv, Heard, Waits
  <1>8. CASE Recover
    <2>1. hold.status = "error" /\ UNCHANGED <<holds, seen, broken>>
      BY <1>8 DEF Recover
    <2>2. Unmount \/ (hold' = NoHold /\ UNCHANGED left)
      BY <1>8 DEF Recover, Visit
    <2> QED
      BY <2>1, <2>2 DEF FlowInv, Heard, Waits, Unmount, NoHold
  <1>9. CASE UNCHANGED flowVars
    BY <1>9, FlowMoves DEF flowVars
  <1> QED
    BY <1>1, <1>2, <1>3, <1>4, <1>5, <1>6, <1>7, <1>8, <1>9 DEF FlowNext

(* A booking whose payment page never opened has an explanation, however the user       *)
(* moves, turns, reloads or pays again (useHoldBooking.ts): its screen waits, was left, *)
(* or lost the answer.                                                                  *)
THEOREM UnseenIsExplained == FlowSpec => []UnseenMeansLeft
  <1>1. FlowInv => UnseenMeansLeft
    BY DEF FlowInv, UnseenMeansLeft, Heard
  <1> QED
    BY <1>1, FlowStart, FlowStep, PTL DEF FlowSpec

-----------------------------------------------------------------------------
(* What a run of a hunt says.                                              *)
(*                                                                         *)
(* Of finitely many fares or items there is a first and a cheapest, so     *)
(* that a choice keeps the cheapest fare on sale of every offer, and of    *)
(* every run; and items without twins are as many as their keys.           *)

LEMMA FirstIsThere ==
    ASSUME NEW S, IsFiniteSet(S), S # {}, NEW R,
           \A x, y \in S : <<x, y>> \in R \/ <<y, x>> \in R,
           \A x, y, z \in S : <<x, y>> \in R /\ <<y, z>> \in R => <<x, z>> \in R
    PROVE  \E x \in S : \A y \in S : <<x, y>> \in R
<1> DEFINE Ahead(x) == {y \in S : <<x, y>> \notin R}
           Sizes == {Cardinality(Ahead(x)) : x \in S}
           Smaller == {ss \in Nat \X Nat : ss[1] < ss[2]}
<1>1. IsWellFoundedOn(Smaller, Nat)
  BY NatLessThanWellFounded DEF OpToRel
<1>2. ASSUME NEW x \in S PROVE IsFiniteSet(Ahead(x)) /\ Cardinality(Ahead(x)) \in Nat
  BY FS_Subset, FS_CardinalityType
<1>3. Sizes \subseteq Nat /\ Sizes # {}
  <2> HIDE DEF Ahead
  <2>1. \A x \in S : Cardinality(Ahead(x)) \in Nat
    BY <1>2
  <2> QED BY <2>1
<1>4. PICK n \in Sizes : \A m \in Sizes : <<m, n>> \notin Smaller
  <2> HIDE DEF Smaller, Sizes
  <2> QED BY <1>1, <1>3, WFMin
<1>5. PICK x \in S : n = Cardinality(Ahead(x))
  BY <1>4
<1>6. ASSUME NEW y \in S, <<x, y>> \notin R PROVE FALSE
  <2>1. Ahead(y) \subseteq Ahead(x) /\ y \in Ahead(x) /\ y \notin Ahead(y)
    BY <1>6
  <2>2. Cardinality(Ahead(y)) < Cardinality(Ahead(x))
    <3> HIDE DEF Ahead
    <3>1. Ahead(y) # Ahead(x)
      BY <2>1
    <3>2. Cardinality(Ahead(y)) <= Cardinality(Ahead(x)) /\ Cardinality(Ahead(y)) # Cardinality(Ahead(x))
      BY <1>2, <2>1, <3>1, FS_Subset
    <3> QED BY <1>2, <3>2
  <2>3. Cardinality(Ahead(y)) \in Sizes /\ Cardinality(Ahead(y)) \in Nat /\ n \in Nat
    BY <1>2, <1>3, <1>4
  <2> QED BY <1>4, <1>5, <2>2, <2>3
<1> QED BY <1>6

LEMMA FareTypes ==
    ASSUME NEW f \in ScanFare
    PROVE  f.price \in Int /\ f.seats \in Int /\ f.soldOut \in BOOLEAN
BY DEF ScanFare

LEMMA FaresAre ==
    ASSUME NEW offer \in ScanOffer
    PROVE  offer.fares \in Seq(ScanFare)
BY DEF ScanOffer

LEMMA NotEmpty ==
    ASSUME NEW T, NEW s \in Seq(T), s # <<>>
    PROVE  DOMAIN s # {}
OBVIOUS

LEMMA MinIsThere ==
    ASSUME NEW S, IsFiniteSet(S), S \subseteq Nat, S # {}
    PROVE  Min(S) \in S
<1> DEFINE R == {xy \in S \X S : xy[1] <= xy[2]}
<1>1. /\ \A x, y \in S : <<x, y>> \in R <=> x <= y
      /\ \A x, y \in S : <<x, y>> \in R \/ <<y, x>> \in R
      /\ \A x, y, z \in S : <<x, y>> \in R /\ <<y, z>> \in R => <<x, z>> \in R
  OBVIOUS
<1> HIDE DEF R
<1>2. PICK x \in S : \A y \in S : <<x, y>> \in R
  BY <1>1, FirstIsThere
<1>3. x \in S /\ \A y \in S : x <= y
  BY <1>1, <1>2
<1> QED BY <1>3 DEF Min

\* The place of the cheapest of some fares is among them, and none of them is cheaper.
LEMMA FirstCheapestIs ==
    ASSUME NEW fares \in Seq(ScanFare), NEW among, among \subseteq DOMAIN fares, among # {}
    PROVE  \E i \in among : FirstCheapest(fares, among) = fares[i] /\ \A j \in among : fares[i].price <= fares[j].price
<1> DEFINE R == {xy \in among \X among : fares[xy[1]].price <= fares[xy[2]].price}
           best == {i \in among : \A j \in among : fares[i].price <= fares[j].price}
<1>1. among \subseteq 1..Len(fares) /\ IsFiniteSet(among) /\ IsFiniteSet(best)
  <2>1. IsFiniteSet(1..Len(fares)) /\ among \subseteq 1..Len(fares) /\ best \subseteq 1..Len(fares)
    BY FS_Interval
  <2> QED BY <2>1, FS_Subset
<1>2. \A i \in among : fares[i].price \in Int
  <2>1. \A i \in among : fares[i] \in ScanFare
    BY <1>1
  <2> QED BY <2>1, FareTypes
<1>3. /\ \A x, y \in among : <<x, y>> \in R <=> fares[x].price <= fares[y].price
      /\ \A x, y \in among : <<x, y>> \in R \/ <<y, x>> \in R
      /\ \A x, y, z \in among : <<x, y>> \in R /\ <<y, z>> \in R => <<x, z>> \in R
  BY <1>2
<1> HIDE DEF R
<1>4. PICK x \in among : \A y \in among : <<x, y>> \in R
  BY <1>1, <1>3, FirstIsThere
<1>5. x \in best /\ best \subseteq Nat
  <2>1. \A y \in among : fares[x].price <= fares[y].price
    BY <1>3, <1>4
  <2>2. best \subseteq among /\ among \subseteq Nat
    BY <1>1
  <2> QED BY <2>1, <2>2
<1>6. Min(best) \in best
  <2> HIDE DEF best
  <2> QED BY <1>1, <1>5, MinIsThere
<1> QED BY <1>6 DEF FirstCheapest

\* No fare on sale of an offer is cheaper than the fare kept of it, which then has seats.
LEMMA CheapestFareIs ==
    ASSUME NEW offer \in ScanOffer, offer.fares # <<>>
    PROVE  /\ CheapestFare(offer) \in ScanFare
           /\ \A f \in ToSet(offer.fares) : ~f.soldOut /\ f.seats > 0 =>
                 CheapestFare(offer).seats > 0 /\ CheapestFare(offer).price <= f.price
<1> DEFINE fares == offer.fares
           onSale == {i \in DOMAIN fares : ~fares[i].soldOut /\ fares[i].seats > 0}
<1>1. fares \in Seq(ScanFare) /\ DOMAIN fares # {} /\ onSale \subseteq DOMAIN fares
  <2>1. fares \in Seq(ScanFare)
    BY FaresAre
  <2> QED BY <2>1, NotEmpty
<1>2. \A i \in DOMAIN fares : fares[i] \in ScanFare
  BY <1>1
<1>3. CASE onSale = {}
  <2>1. CheapestFare(offer) = FirstCheapest(fares, DOMAIN fares)
    BY <1>3 DEF CheapestFare
  <2>2. \A f \in ToSet(fares) : ~(~f.soldOut /\ f.seats > 0)
    BY <1>3 DEF ToSet
  <2> QED BY <1>1, <1>2, <2>1, <2>2, FirstCheapestIs
<1>4. CASE onSale # {}
  <2>1. CheapestFare(offer) = FirstCheapest(fares, onSale)
    BY <1>4 DEF CheapestFare
  <2>2. PICK i \in onSale : /\ FirstCheapest(fares, onSale) = fares[i]
                            /\ \A j \in onSale : fares[i].price <= fares[j].price
    <3> HIDE DEF onSale, fares
    <3> QED BY <1>1, <1>4, FirstCheapestIs
  <2>3. ASSUME NEW f \in ToSet(fares), ~f.soldOut /\ f.seats > 0
        PROVE  fares[i].seats > 0 /\ fares[i].price <= f.price
    BY <2>2, <2>3 DEF ToSet
  <2> QED BY <1>2, <2>1, <2>2, <2>3
<1> QED BY <1>3, <1>4

LEMMA HuntTypes ==
    ASSUME NEW h \in ScanHunt
    PROVE  /\ h.status \in HuntStatus /\ h.target \in Int /\ h.best \in Int \cup {Null}
           /\ h.exact \in BOOLEAN /\ h.first \in Int /\ h.last \in Int
BY DEF ScanHunt

LEMMA DaysAre ==
    ASSUME NEW h \in ScanHunt
    PROVE  ResolveDays(h) \in Seq(Int)
<1> DEFINE days == IF h.exact \/ h.last < h.first THEN 1 ELSE h.last - h.first + 1
           n == IF days > MaxDays THEN MaxDays ELSE days
<1>1. h.first \in Int /\ h.last \in Int
  BY HuntTypes
<1>2. days \in Nat
  <2>1. CASE h.exact \/ h.last < h.first
    <3>1. days = 1
      BY <2>1
    <3> QED BY <3>1
  <2>2. CASE ~(h.exact \/ h.last < h.first)
    <3>1. days = h.last - h.first + 1
      BY <2>2
    <3> QED BY <1>1, <2>2, <3>1
  <2> QED BY <2>1, <2>2
<1> HIDE DEF days
<1>3. n \in Nat
  BY <1>2, ScanAssumption DEF ScanAssumption
<1> HIDE DEF n
<1>4. [i \in 1..n |-> h.first + i - 1] \in Seq(Int)
  BY <1>1, <1>3
<1> QED BY <1>4 DEF ResolveDays, n, days

RunIs(r) ==
    /\ r \in [hunt : ScanHunt, answers : Seq(Answers)]
    /\ Len(r.answers) <= Len(ResolveDays(r.hunt))

LEMMA AnswersAre ==
    ASSUME NEW r, RunIs(r), NEW d \in DOMAIN r.answers
    PROVE  /\ d \in Nat \ {0} /\ r.answers[d] \in Seq(ScanOffer) /\ ResolveDays(r.hunt)[d] \in Int
           /\ DOMAIN r.answers[d] \subseteq Nat \ {0} /\ IsFiniteSet(DOMAIN r.answers[d])
           /\ \A i \in DOMAIN r.answers[d] : r.answers[d][i] \in ScanOffer
<1> DEFINE days == ResolveDays(r.hunt)
           answers == r.answers
<1>1. answers \in Seq(Answers) /\ days \in Seq(Int) /\ Len(answers) <= Len(days)
  BY DaysAre DEF RunIs
<1>2. d \in DOMAIN answers
  OBVIOUS
<1> HIDE DEF days, answers
<1>3. d \in Nat \ {0} /\ answers[d] \in Answers /\ days[d] \in Int
  BY <1>1, <1>2
<1>4. answers[d] \in Seq(ScanOffer)
  BY <1>3, ScanAssumption DEF ScanAssumption
<1>5. DOMAIN answers[d] = 1..Len(answers[d]) /\ Len(answers[d]) \in Nat
  BY <1>4
<1>6. IsFiniteSet(DOMAIN answers[d])
  BY <1>5, FS_Interval
<1> QED BY <1>3, <1>4, <1>5, <1>6 DEF days, answers

LEMMA OfferTypes ==
    ASSUME NEW o \in ScanOffer
    PROVE  o.number \in STRING /\ o.depart \in Int /\ o.airline \in STRING
BY DEF ScanOffer

LEMMA ItemIs ==
    ASSUME NEW r, RunIs(r), NEW d \in DOMAIN r.answers, NEW i \in Kept(r.hunt, r.answers[d])
    PROVE  Item(ResolveDays(r.hunt)[d], r.answers[d][i], <<d, i>>) \in ScanItem
<1>1. /\ d \in Nat \ {0} /\ i \in Nat \ {0} /\ ResolveDays(r.hunt)[d] \in Int
      /\ r.answers[d][i] \in ScanOffer /\ r.answers[d][i].fares # <<>>
  BY AnswersAre DEF Kept
<1> DEFINE offer == r.answers[d][i]
           fare == CheapestFare(offer)
<1>2. fare.price \in Int /\ fare.seats \in Int
  BY <1>1, CheapestFareIs, FareTypes
<1>3. offer.number \in STRING /\ offer.depart \in Int
  BY <1>1, OfferTypes
<1> QED BY <1>1, <1>2, <1>3 DEF Item, ScanItem

LEMMA ItemsAre ==
    ASSUME NEW r, RunIs(r)
    PROVE  Scanned(r) \subseteq ScanItem /\ IsFiniteSet(Scanned(r))
<1>1. Scanned(r) \subseteq ScanItem
  <2>1. ASSUME NEW d \in DOMAIN r.answers PROVE ItemsOf(r, d) \subseteq ScanItem
    BY ItemIs DEF ItemsOf
  <2> QED BY <2>1 DEF Scanned
<1>2. ASSUME NEW d \in DOMAIN r.answers PROVE IsFiniteSet(ItemsOf(r, d))
  <2> DEFINE kept == Kept(r.hunt, r.answers[d])
             item(i) == Item(ResolveDays(r.hunt)[d], r.answers[d][i], <<d, i>>)
             f == [i \in kept |-> item(i)]
  <2>1. IsFiniteSet(kept)
    BY <1>2, AnswersAre, FS_Subset DEF Kept
  <2>2. ItemsOf(r, d) = {item(i) : i \in kept}
    BY DEF ItemsOf
  <2>3. f \in Surjection(kept, ItemsOf(r, d))
    <3> HIDE DEF kept, item
    <3> QED BY <2>2 DEF Surjection
  <2> QED BY <2>1, <2>3, FS_Surjection
<1>3. IsFiniteSet({ItemsOf(r, d) : d \in DOMAIN r.answers})
  <2> DEFINE f == [d \in DOMAIN r.answers |-> ItemsOf(r, d)]
  <2>1. f \in Surjection(DOMAIN r.answers, {ItemsOf(r, d) : d \in DOMAIN r.answers})
    BY DEF Surjection
  <2>2. r.answers \in Seq(Answers)
    BY DEF RunIs
  <2>3. DOMAIN r.answers = 1..Len(r.answers) /\ Len(r.answers) \in Nat
    BY <2>2
  <2>4. IsFiniteSet(DOMAIN r.answers)
    BY <2>3, FS_Interval
  <2> QED BY <2>1, <2>4, FS_Surjection
<1> QED BY <1>1, <1>2, <1>3, FS_UNION DEF Scanned

\* No fare on sale of a permitted airline is cheaper than some item with seats.
LEMMA OnSaleIsKept ==
    ASSUME NEW r, RunIs(r), NEW o \in OffersOf(r), NEW f \in ToSet(o.fares), ~f.soldOut, f.seats > 0
    PROVE  \E i \in OnSale(Scanned(r)) : i.price <= f.price
<1>0. PICK d \in DOMAIN r.answers : o \in ToSet(r.answers[d]) /\ Permitted(r.hunt, o)
  BY DEF OffersOf
<1>1. PICK i \in DOMAIN r.answers[d] : o = r.answers[d][i] /\ Permitted(r.hunt, o)
  BY <1>0 DEF ToSet
<1> DEFINE item == Item(ResolveDays(r.hunt)[d], o, <<d, i>>)
<1>2. o \in ScanOffer /\ o.fares # <<>>
  BY <1>1, AnswersAre DEF ToSet
<1>3. CheapestFare(o).seats > 0 /\ CheapestFare(o).price <= f.price
  BY <1>2, CheapestFareIs
<1>4. item \in Scanned(r)
  <2>1. i \in Kept(r.hunt, r.answers[d])
    BY <1>1, <1>2 DEF Kept
  <2>2. item \in ItemsOf(r, d)
    BY <1>1, <2>1 DEF ItemsOf
  <2> QED BY <2>2 DEF Scanned
<1>5. item.seats = CheapestFare(o).seats /\ item.price = CheapestFare(o).price
  BY DEF Item
<1> HIDE DEF item
<1>6. item \in OnSale(Scanned(r)) /\ item.price <= f.price
  BY <1>3, <1>4, <1>5 DEF OnSale, Bookable
<1> QED BY <1>6

LEMMA ItemTypes ==
    ASSUME NEW i \in ScanItem
    PROVE  i.price \in Int /\ i.seats \in Int /\ i.place \in (Nat \ {0}) \X (Nat \ {0})
BY DEF ScanItem

LEMMA PlacesAreOrdered ==
    ASSUME NEW p \in (Nat \ {0}) \X (Nat \ {0}), NEW q \in (Nat \ {0}) \X (Nat \ {0}),
           NEW s \in (Nat \ {0}) \X (Nat \ {0})
    PROVE  /\ NotAfter(p, q) \/ NotAfter(q, p)
           /\ NotAfter(p, q) /\ NotAfter(q, s) => NotAfter(p, s)
BY DEF NotAfter

\* Of finitely many items there is a first and a last.
LEMMA EndsAreThere ==
    ASSUME NEW items, items \subseteq ScanItem, IsFiniteSet(items), items # {}
    PROVE  Earliest(items) \in items /\ Latest(items) \in items
<1> DEFINE R == {xy \in items \X items : NotAfter(xy[1].place, xy[2].place)}
           B == {xy \in items \X items : NotAfter(xy[2].place, xy[1].place)}
<1>1. \A i \in items : i.place \in (Nat \ {0}) \X (Nat \ {0})
  BY ItemTypes
<1>2. \A x, y \in items : (<<x, y>> \in R <=> NotAfter(x.place, y.place)) /\ (<<x, y>> \in B <=> NotAfter(y.place, x.place))
  OBVIOUS
<1> HIDE DEF R, B
<1>3. /\ \A x, y \in items : <<x, y>> \in R \/ <<y, x>> \in R
      /\ \A x, y, z \in items : <<x, y>> \in R /\ <<y, z>> \in R => <<x, z>> \in R
      /\ \A x, y \in items : <<x, y>> \in B \/ <<y, x>> \in B
      /\ \A x, y, z \in items : <<x, y>> \in B /\ <<y, z>> \in B => <<x, z>> \in B
  BY <1>1, <1>2, PlacesAreOrdered
<1>4. \E x \in items : \A y \in items : <<x, y>> \in R
  BY <1>3, FirstIsThere
<1>5. \E x \in items : \A y \in items : <<x, y>> \in B
  BY <1>3, FirstIsThere
<1>6. /\ \E x \in items : \A y \in items : NotAfter(x.place, y.place)
      /\ \E x \in items : \A y \in items : NotAfter(y.place, x.place)
  BY <1>2, <1>4, <1>5
<1> QED BY <1>6 DEF Earliest, Latest

\* The item that is picked has seats, and no item with seats is cheaper.
LEMMA CheapestBookableIs ==
    ASSUME NEW items, items \subseteq ScanItem, IsFiniteSet(items), OnSale(items) # {}
    PROVE  /\ CheapestBookable(items) \in OnSale(items) /\ CheapestBookable(items) # Null
           /\ \A i \in OnSale(items) : CheapestBookable(items).price <= i.price
<1> DEFINE some == OnSale(items)
           best == Cheapest(some)
           R == {xy \in some \X some : xy[1].price <= xy[2].price}
<1>1. some \subseteq items /\ IsFiniteSet(some) /\ some \subseteq ScanItem /\ some # {}
  BY FS_Subset DEF OnSale
<1> HIDE DEF some
<1>2. \A i \in some : i.price \in Int
  BY <1>1, ItemTypes
<1>3. \A x, y \in some : <<x, y>> \in R <=> x.price <= y.price
  OBVIOUS
<1> HIDE DEF R
<1>4. /\ \A x, y \in some : <<x, y>> \in R \/ <<y, x>> \in R
      /\ \A x, y, z \in some : <<x, y>> \in R /\ <<y, z>> \in R => <<x, z>> \in R
  BY <1>2, <1>3
<1>5. PICK x \in some : \A y \in some : <<x, y>> \in R
  BY <1>1, <1>4, FirstIsThere
<1>6. x \in best /\ best \subseteq some
  BY <1>3, <1>5 DEF Cheapest
<1>7. IsFiniteSet(best) /\ best \subseteq ScanItem /\ best # {}
  BY <1>1, <1>6, FS_Subset
<1>8. Earliest(best) \in best
  <2> HIDE DEF best
  <2> QED BY <1>7, EndsAreThere
<1>9. CheapestBookable(items) = Earliest(best)
  BY <1>1 DEF CheapestBookable, some
<1>10. \A i \in some : Earliest(best).price <= i.price
  BY <1>8 DEF Cheapest
<1> QED BY <1>1, <1>6, <1>8, <1>9, <1>10, ScanAssumption DEF ScanAssumption, some

\* Items without twins are as many as their keys.
LEMMA AsManyAsKeys ==
    ASSUME NEW items, IsFiniteSet(items), \A i, j \in items : ResultKey(i) = ResultKey(j) => i = j
    PROVE  IsFiniteSet(Keys(items)) /\ Cardinality(Keys(items)) = Cardinality(items)
<1> DEFINE f == [i \in items |-> ResultKey(i)]
<1>1. f \in Bijection(items, Keys(items))
  BY DEF Bijection, Injection, Surjection, IsInjective, Keys
<1> QED BY <1>1, FS_Bijection DEF ExistsBijection

\* What was there, less what went, plus what came, is what is there.
LEMMA CountsAddUp ==
    ASSUME NEW prev, IsFiniteSet(prev), \A i, j \in prev : ResultKey(i) = ResultKey(j) => i = j,
           NEW items, IsFiniteSet(items), \A i, j \in items : ResultKey(i) = ResultKey(j) => i = j
    PROVE  Cardinality(prev) - Cardinality(Keys(prev) \ Keys(items)) + Cardinality(NewFlights(prev, items))
           = Cardinality(items)
<1> DEFINE P == Keys(prev)
           I == Keys(items)
           new == NewFlights(prev, items)
<1>1. /\ IsFiniteSet(P) /\ Cardinality(P) = Cardinality(prev)
      /\ IsFiniteSet(I) /\ Cardinality(I) = Cardinality(items)
  BY AsManyAsKeys
<1>2. new \subseteq items /\ Keys(new) = I \ P
  BY DEF NewFlights, Keys
<1>3. Cardinality(new) = Cardinality(I \ P)
  <2>1. IsFiniteSet(new) /\ \A i, j \in new : ResultKey(i) = ResultKey(j) => i = j
    BY <1>2, FS_Subset
  <2> HIDE DEF new
  <2> QED BY <1>2, <2>1, AsManyAsKeys
<1> HIDE DEF P, I, new
<1>4. /\ Cardinality(P \ I) = Cardinality(P) - Cardinality(P \cap I)
      /\ Cardinality(I \ P) = Cardinality(I) - Cardinality(P \cap I)
  <2>1. P \cap I = I \cap P
    OBVIOUS
  <2>2. Cardinality(I \ P) = Cardinality(I) - Cardinality(I \cap P)
    BY <1>1, FS_Difference
  <2>3. Cardinality(P \ I) = Cardinality(P) - Cardinality(P \cap I)
    BY <1>1, FS_Difference
  <2> QED BY <2>1, <2>2, <2>3
<1>5. Cardinality(P) \in Nat /\ Cardinality(I) \in Nat /\ Cardinality(P \cap I) \in Nat
  BY <1>1, FS_CardinalityType, FS_Intersection
<1>6. Cardinality(P) - Cardinality(P \ I) + Cardinality(new) = Cardinality(I)
  BY <1>3, <1>4, <1>5
<1> QED BY <1>1, <1>6 DEF P, I, new

LEMMA ApartAddUp ==
    ASSUME NEW S, IsFiniteSet(S), NEW T, IsFiniteSet(T), S \cap T = {}
    PROVE  IsFiniteSet(S \cup T) /\ Cardinality(S \cup T) = Cardinality(S) + Cardinality(T)
<1>1. Cardinality(S) \in Nat /\ Cardinality(T) \in Nat /\ Cardinality(S \cap T) = 0
  BY FS_CardinalityType, FS_EmptySet
<1>2. IsFiniteSet(S \cup T) /\ Cardinality(S \cup T) = Cardinality(S) + Cardinality(T) - Cardinality(S \cap T)
  BY FS_Union
<1> QED BY <1>1, <1>2

\* No flight is counted both as cheaper and as dearer, nor as new.
LEMMA CountedOnce ==
    ASSUME NEW prev, prev \subseteq ScanItem, IsFiniteSet(prev),
           NEW items, items \subseteq ScanItem, IsFiniteSet(items)
    PROVE  Cardinality(Moved(prev, items, Fall)) + Cardinality(Moved(prev, items, Rise))
             + Cardinality(NewFlights(prev, items)) <= Cardinality(items)
<1> DEFINE down == Moved(prev, items, Fall)
           up == Moved(prev, items, Rise)
           new == NewFlights(prev, items)
<1>1. ASSUME NEW i \in items, ResultKey(i) \in Keys(prev)
      PROVE  i.price \in Int /\ OldPrice(prev, i) \in Int
  <2> DEFINE same == {j \in prev : ResultKey(j) = ResultKey(i)}
  <2>1. same # {} /\ same \subseteq prev
    BY <1>1 DEF Keys
  <2>2. IsFiniteSet(same) /\ same \subseteq ScanItem
    BY <2>1, FS_Subset
  <2>3. Latest(same) \in same
    <3> HIDE DEF same
    <3> QED BY <2>1, <2>2, EndsAreThere
  <2>4. OldPrice(prev, i) = Latest(same).price
    BY DEF OldPrice, LastWith
  <2> HIDE DEF same
  <2> QED BY <2>2, <2>3, <2>4, ItemTypes
<1>2. down \cap up = {} /\ (down \cup up) \cap new = {} /\ (down \cup up) \cup new \subseteq items
  <2>1. ASSUME NEW i \in down, i \in up PROVE FALSE
    BY <1>1, <2>1 DEF Moved, Fall, Rise
  <2> QED BY <2>1 DEF Moved, NewFlights
<1> HIDE DEF down, up, new
<1>3. IsFiniteSet(down) /\ IsFiniteSet(up) /\ IsFiniteSet(new)
  BY <1>2, FS_Subset
<1>4. IsFiniteSet(down \cup up) /\ Cardinality(down \cup up) = Cardinality(down) + Cardinality(up)
  BY <1>2, <1>3, ApartAddUp
<1>5. Cardinality((down \cup up) \cup new) = Cardinality(down \cup up) + Cardinality(new)
  BY <1>2, <1>3, <1>4, ApartAddUp
<1>6. Cardinality((down \cup up) \cup new) <= Cardinality(items)
  BY <1>2, FS_Subset
<1> QED BY <1>4, <1>5, <1>6 DEF down, up, new

ScanInv ==
    /\ hunt \in ScanHunt
    /\ run # Null => RunIs(run)
    /\ row # Null => row.items \subseteq ScanItem /\ IsFiniteSet(row.items)

LEMMA StatusChanges ==
    ASSUME NEW h \in ScanHunt, NEW s \in HuntStatus
    PROVE  [h EXCEPT !.status = s] \in ScanHunt
BY DEF ScanHunt

LEMMA TargetChanges ==
    ASSUME NEW h \in ScanHunt, NEW t \in Int
    PROVE  [h EXCEPT !.target = t] \in ScanHunt
BY DEF ScanHunt

LEMMA HuntChanges ==
    ASSUME NEW h \in ScanHunt, NEW s \in HuntStatus, NEW b \in Int \cup {Null}
    PROVE  /\ [h EXCEPT !.status = s, !.best = b] \in ScanHunt
           /\ [h EXCEPT !.status = s, !.best = b].status = s
BY DEF ScanHunt

LEMMA RunGrows ==
    ASSUME NEW r, RunIs(r), Len(r.answers) < Len(ResolveDays(r.hunt)), NEW a \in Answers
    PROVE  RunIs([r EXCEPT !.answers = Append(@, a)])
<1> DEFINE n == Len(ResolveDays(r.hunt))
<1>1. r.hunt \in ScanHunt /\ r.answers \in Seq(Answers)
  BY DEF RunIs
<1>2. n \in Nat
  BY <1>1, DaysAre
<1>3. Append(r.answers, a) \in Seq(Answers) /\ Len(Append(r.answers, a)) = Len(r.answers) + 1 /\ Len(r.answers) \in Nat
  BY <1>1
<1>4. /\ [r EXCEPT !.answers = Append(@, a)] \in [hunt : ScanHunt, answers : Seq(Answers)]
      /\ [r EXCEPT !.answers = Append(@, a)].answers = Append(r.answers, a)
      /\ [r EXCEPT !.answers = Append(@, a)].hunt = r.hunt
  BY <1>3 DEF RunIs
<1>5. Len(Append(r.answers, a)) <= n
  BY <1>2, <1>3
<1> QED BY <1>4, <1>5 DEF RunIs

\* A run decides for found, and holds, over a hit only, and then always.
LEMMA OutcomeIs ==
    ASSUME NEW h \in ScanHunt, NEW diff, NEW cheapest, cheapest = Null \/ cheapest.price \in Int,
           NEW first, NEW o \in Outcome(h, diff, cheapest, first)
    PROVE  /\ o.status \in HuntStatus /\ o.best \in Int \cup {Null}
           /\ IF diff.hit /\ cheapest # Null THEN o.status # "HUNTING"
              ELSE o.sent \notin {"HUNT_FOUND", "HELD"}
<1>1. h.best \in Int \cup {Null}
  BY HuntTypes
<1>2. CASE diff.hit /\ cheapest # Null
  <2>1. \/ o = [status |-> "FOUND", sent |-> "HUNT_FOUND", best |-> h.best]
        \/ o = [status |-> "PAUSED", sent |-> "HELD", best |-> cheapest.price]
    BY <1>2, Zenon DEF Outcome
  <2>2. o.status \in {"FOUND", "PAUSED"} /\ o.best \in Int \cup {Null}
    <3>1. CASE o = [status |-> "FOUND", sent |-> "HUNT_FOUND", best |-> h.best]
      BY <1>1, <3>1
    <3>2. CASE o = [status |-> "PAUSED", sent |-> "HELD", best |-> cheapest.price]
      <4>1. cheapest.price \in Int
        BY <1>2, Zenon
      <4> QED BY <3>2, <4>1
    <3> QED BY <2>1, <3>1, <3>2
  <2>3. o.status \in HuntStatus /\ o.status # "HUNTING"
    <3>1. CASE o.status = "FOUND"
      BY <3>1 DEF HuntStatus
    <3>2. CASE o.status = "PAUSED"
      BY <3>2 DEF HuntStatus
    <3> QED BY <2>2, <3>1, <3>2
  <2> QED BY <1>2, <2>2, <2>3, Zenon
<1>3. CASE ~(diff.hit /\ cheapest # Null)
  <2> DEFINE note == IF ~first /\ Significant(diff) THEN "HUNT_PROGRESS" ELSE Null
  <2>1. o = [status |-> "HUNTING", best |-> h.best, sent |-> note]
    BY <1>3, Zenon DEF Outcome
  <2>2. note = "HUNT_PROGRESS" \/ note = Null
    BY Zenon
  <2>3. note \notin {"HUNT_FOUND", "HELD"}
    <3>1. CASE note = "HUNT_PROGRESS"
      BY <3>1, Zenon
    <3>2. CASE note = Null
      <4>1. Null # "HUNT_FOUND" /\ Null # "HELD"
        BY ScanAssumption DEF ScanAssumption, ScanNotices
      <4> QED BY <3>2, <4>1, Zenon
    <3> QED BY <2>2, <3>1, <3>2, Zenon
  <2> HIDE DEF note
  <2>4. o.status = "HUNTING" /\ o.best = h.best /\ o.sent = note
    BY <2>1
  <2>5. o.status \in HuntStatus /\ o.best \in Int \cup {Null} /\ o.sent \notin {"HUNT_FOUND", "HELD"}
    BY <1>1, <2>3, <2>4, Zenon DEF HuntStatus
  <2> QED BY <1>3, <2>5, Zenon
<1> QED BY <1>2, <1>3

\* What a decision writes, of a run that was answered for all its days.
LEMMA DecideIs ==
    ASSUME ScanInv, Decide
    PROVE  LET items == Scanned(run)
               prev == IF row = Null THEN {} ELSE row.items
               cheapest == CheapestBookable(items)
               diff == CompareHuntResults(prev, items, run.hunt.target, HistoricalLow)
           IN  /\ prev \subseteq ScanItem /\ IsFiniteSet(prev)
               /\ items \subseteq ScanItem /\ IsFiniteSet(items)
               /\ row'.items = items /\ row'.cheapest = cheapest /\ row'.diff = diff
               /\ run' = Null /\ hunt' \in ScanHunt
               /\ IF diff.hit /\ cheapest # Null THEN hunt'.status # "HUNTING"
                  ELSE sent' \notin {"HUNT_FOUND", "HELD"}
<1> DEFINE items == Scanned(run)
           prev == IF row = Null THEN {} ELSE row.items
           cheapest == CheapestBookable(items)
           h == run.hunt
           diff == CompareHuntResults(prev, items, h.target, HistoricalLow)
<1>1. RunIs(run) /\ h \in ScanHunt /\ hunt \in ScanHunt /\ run' = Null
  BY DEF Decide, ScanInv, RunIs
<1>2. items \subseteq ScanItem /\ IsFiniteSet(items)
  BY <1>1, ItemsAre
<1>3. prev \subseteq ScanItem /\ IsFiniteSet(prev)
  BY FS_EmptySet DEF ScanInv
<1>4. row' = [items |-> items, cheapest |-> cheapest, diff |-> diff]
  BY DEF Decide
<1>5. PICK o \in Outcome(h, diff, cheapest, row = Null) :
           /\ sent' = o.sent
           /\ hunt' = [hunt EXCEPT
                         !.status = IF o.status = "HUNTING" THEN @ ELSE o.status,
                         !.best = IF o.status = "PAUSED" THEN o.best
                                  ELSE IF Best(h.best, cheapest) = h.best THEN @ ELSE cheapest.price]
  BY Zenon DEF Decide
<1>6. cheapest = Null \/ cheapest.price \in Int
  <2>1. CASE OnSale(items) = {}
    BY <2>1 DEF CheapestBookable
  <2>2. CASE OnSale(items) # {}
    <3>1. cheapest \in items
      BY <1>2, <2>2, CheapestBookableIs DEF OnSale
    <3> QED BY <1>2, <3>1, ItemTypes
  <2> QED BY <2>1, <2>2
<1> HIDE DEF items, prev, cheapest, diff
<1>7. /\ o.status \in HuntStatus /\ o.best \in Int \cup {Null}
      /\ IF diff.hit /\ cheapest # Null THEN o.status # "HUNTING" ELSE o.sent \notin {"HUNT_FOUND", "HELD"}
  BY <1>1, <1>6, OutcomeIs
<1>8. Best(h.best, cheapest) # h.best => cheapest.price \in Int
  BY <1>6 DEF Best
<1> DEFINE s == IF o.status = "HUNTING" THEN hunt.status ELSE o.status
           b == IF o.status = "PAUSED" THEN o.best
                ELSE IF Best(h.best, cheapest) = h.best THEN hunt.best ELSE cheapest.price
<1>9. s \in HuntStatus /\ b \in Int \cup {Null}
  BY <1>1, <1>7, <1>8, HuntTypes
<1>10. hunt' = [hunt EXCEPT !.status = s, !.best = b]
  BY <1>5
<1>11. o.status # "HUNTING" => s # "HUNTING"
  OBVIOUS
<1> HIDE DEF s, b
<1>12. hunt' \in ScanHunt /\ hunt'.status = s
  <2>1. hunt \in ScanHunt /\ s \in HuntStatus /\ b \in Int \cup {Null}
    BY <1>1, <1>9
  <2>2. /\ [hunt EXCEPT !.status = s, !.best = b] \in ScanHunt
        /\ [hunt EXCEPT !.status = s, !.best = b].status = s
    BY <2>1, HuntChanges
  <2> QED BY <1>10, <2>2
<1>13. row'.items = items /\ row'.cheapest = cheapest /\ row'.diff = diff
  BY <1>4
<1>14. IF diff.hit /\ cheapest # Null THEN hunt'.status # "HUNTING" ELSE sent' \notin {"HUNT_FOUND", "HELD"}
  BY <1>5, <1>7, <1>11, <1>12
<1> QED BY <1>1, <1>2, <1>3, <1>12, <1>13, <1>14 DEF items, prev, cheapest, diff

LEMMA ScanStarts == ScanInit => ScanInv
BY ScanAssumption DEF ScanAssumption, ScanInit, ScanInv

LEMMA ScanStep == ScanInv /\ [ScanNext]_scanVars => ScanInv'
<1> SUFFICES ASSUME ScanInv, [ScanNext]_scanVars PROVE ScanInv'
  OBVIOUS
<1>1. CASE StartRun
  <2>1. run' = [hunt |-> hunt, answers |-> <<>>] /\ hunt \in ScanHunt /\ UNCHANGED <<hunt, row>>
    BY <1>1 DEF StartRun, ScanInv
  <2>2. Len(ResolveDays(hunt)) \in Nat
    BY <2>1, DaysAre
  <2>3. RunIs(run')
    BY <2>1, <2>2 DEF RunIs
  <2> QED BY <2>1, <2>3 DEF ScanInv
<1>2. CASE SearchDay
  <2>1. PICK a \in Answers : run' = [run EXCEPT !.answers = Append(@, a)]
    BY <1>2 DEF SearchDay
  <2>2. RunIs(run) /\ Len(run.answers) < Len(ResolveDays(run.hunt)) /\ UNCHANGED <<hunt, row>>
    BY <1>2 DEF SearchDay, ScanInv
  <2>3. RunIs(run')
    BY <2>1, <2>2, RunGrows
  <2> QED BY <2>2, <2>3 DEF ScanInv
<1>3. CASE Decide
  BY <1>3, DecideIs DEF ScanInv
<1>4. CASE EditTarget
  <2>1. PICK t \in Targets : hunt' = [hunt EXCEPT !.target = t]
    BY <1>4 DEF EditTarget
  <2>2. t \in Int /\ hunt \in ScanHunt /\ UNCHANGED <<run, row>>
    BY <1>4, ScanAssumption DEF ScanAssumption, ScanInv, EditTarget
  <2>3. hunt' \in ScanHunt
    BY <2>1, <2>2, TargetChanges
  <2> QED BY <2>2, <2>3 DEF ScanInv
<1>5. CASE ResumeHunt
  <2>1. hunt' = [hunt EXCEPT !.status = "HUNTING"] /\ hunt \in ScanHunt /\ UNCHANGED <<run, row>>
    BY <1>5 DEF ResumeHunt, ScanInv
  <2>2. hunt' \in ScanHunt
    BY <2>1, StatusChanges DEF HuntStatus
  <2> QED BY <2>1, <2>2 DEF ScanInv
<1>6. CASE AbandonRun \/ WindowMoves \/ UNCHANGED scanVars
  BY <1>6 DEF AbandonRun, WindowMoves, scanVars, ScanInv
<1> QED BY <1>1, <1>2, <1>3, <1>4, <1>5, <1>6 DEF ScanNext

\* A run that ends has decided.
LEMMA EndsDecide ==
    ASSUME [ScanNext]_scanVars, runs' # runs
    PROVE  Decide
BY DEF ScanNext, scanVars, StartRun, SearchDay, AbandonRun, EditTarget, ResumeHunt, WindowMoves

\* What a run announces and what it stores of the answers are both true of them: it never
\* misses its target, it is found over the cheapest fare, and its comparison adds up, for
\* every sequence of answers, any window of days and any edit of the hunt meanwhile
\* (hunter-run.service.ts, persistAndDecide; hunter-diff.ts).
THEOREM RunsTellTheTruth == ScanSpec => RunTellsTheTruth
<1> DEFINE Missed == runs' # runs =>
             ((\E o \in OffersOf(run) : \E f \in ToSet(o.fares) :
                  ~f.soldOut /\ f.seats > 0 /\ f.price <= run.hunt.target)
              => hunt'.status # "HUNTING")
           Found == runs' # runs /\ sent' \in {"HUNT_FOUND", "HELD"} =>
             /\ row'.cheapest.price <= run.hunt.target
             /\ \A o \in OffersOf(run) : \A f \in ToSet(o.fares) :
                    ~f.soldOut /\ f.seats > 0 => row'.cheapest.price <= f.price
           Adds == runs' # runs =>
             LET before == IF row = Null THEN {} ELSE row.items
                 diff == row'.diff
                 twins(items) == \E i, j \in items : i # j /\ ResultKey(i) = ResultKey(j)
             IN  twins(before) \/ twins(row'.items) \/
                 /\ Cardinality(before) - diff.removed + diff.new = Cardinality(row'.items)
                 /\ diff.down.count + diff.up.count + diff.new <= Cardinality(row'.items)
<1>1. ASSUME ScanInv, [ScanNext]_scanVars, runs' # runs PROVE Missed /\ Found /\ Adds
  <2> DEFINE items == Scanned(run)
             prev == IF row = Null THEN {} ELSE row.items
             cheapest == CheapestBookable(items)
             target == run.hunt.target
             diff == CompareHuntResults(prev, items, target, HistoricalLow)
  <2>1. Decide /\ RunIs(run) /\ run.hunt \in ScanHunt
    BY <1>1, EndsDecide DEF Decide, ScanInv, RunIs
  <2>2. /\ prev \subseteq ScanItem /\ IsFiniteSet(prev)
        /\ items \subseteq ScanItem /\ IsFiniteSet(items)
        /\ row'.items = items /\ row'.cheapest = cheapest /\ row'.diff = diff
        /\ IF diff.hit /\ cheapest # Null THEN hunt'.status # "HUNTING"
           ELSE sent' \notin {"HUNT_FOUND", "HELD"}
    BY <1>1, <2>1, DecideIs
  <2>3. /\ diff.hit = Hits(items, target)
        /\ diff.down.count = Cardinality(Moved(prev, items, Fall))
        /\ diff.up.count = Cardinality(Moved(prev, items, Rise))
        /\ diff.new = Cardinality(NewFlights(prev, items))
        /\ diff.removed = Cardinality(Keys(prev) \ Keys(items))
    <3> HIDE DEF items, prev, target
    <3>1. /\ Changes(prev, items, Fall).count = Cardinality(Moved(prev, items, Fall))
          /\ Changes(prev, items, Rise).count = Cardinality(Moved(prev, items, Rise))
      BY Zenon DEF Changes
    <3>2. /\ diff.hit = Hits(items, target)
          /\ diff.down = Changes(prev, items, Fall) /\ diff.up = Changes(prev, items, Rise)
          /\ diff.new = Cardinality(NewFlights(prev, items))
          /\ diff.removed = Cardinality(Keys(prev) \ Keys(items))
      BY Zenon DEF CompareHuntResults
    <3> QED BY <3>1, <3>2, Zenon
  <2>4. target \in Int
    BY <2>1, HuntTypes
  <2>5. ASSUME NEW o \in OffersOf(run), NEW f \in ToSet(o.fares), ~f.soldOut /\ f.seats > 0
        PROVE  \E i \in OnSale(items) : i.price <= f.price
    BY <2>1, <2>5, OnSaleIsKept
  <2>6. ASSUME NEW o \in OffersOf(run), NEW f \in ToSet(o.fares) PROVE f.price \in Int
    <3>1. PICK d \in DOMAIN run.answers : o \in ToSet(run.answers[d])
      BY DEF OffersOf
    <3>2. o \in ScanOffer
      BY <2>1, <3>1, AnswersAre DEF ToSet
    <3>3. f \in ScanFare
      BY <3>2, FaresAre DEF ToSet
    <3> QED BY <3>3, FareTypes
  <2>7. \A i \in OnSale(items) : i.price \in Int
    BY <2>2, ItemTypes DEF OnSale
  <2>8. OnSale(items) # {} => /\ cheapest \in OnSale(items) /\ cheapest # Null
                              /\ \A i \in OnSale(items) : cheapest.price <= i.price
    BY <2>2, CheapestBookableIs
  <2> HIDE DEF items, prev, cheapest, target, diff
  <2>9. Missed
    <3> SUFFICES ASSUME NEW o \in OffersOf(run), NEW f \in ToSet(o.fares),
                        ~f.soldOut /\ f.seats > 0 /\ f.price <= target
                 PROVE  hunt'.status # "HUNTING"
      BY DEF target
    <3>1. PICK i \in OnSale(items) : i.price <= f.price
      BY <2>5
    <3>2. i.price <= target
      BY <2>4, <2>6, <2>7, <3>1
    <3>3. Hits(items, target) /\ cheapest # Null
      BY <2>8, <3>1, <3>2 DEF Hits
    <3> QED BY <2>2, <2>3, <3>3, Zenon
  <2>10. Found
    <3> SUFFICES ASSUME sent' \in {"HUNT_FOUND", "HELD"}
                 PROVE  /\ row'.cheapest.price <= target
                        /\ \A o \in OffersOf(run) : \A f \in ToSet(o.fares) :
                               ~f.soldOut /\ f.seats > 0 => row'.cheapest.price <= f.price
      BY DEF target
    <3>1. Hits(items, target)
      BY <2>2, <2>3, Zenon
    <3>2. PICK i \in OnSale(items) : i.price <= target
      BY <3>1 DEF Hits
    <3>3. cheapest.price \in Int /\ cheapest.price <= target
      BY <2>4, <2>7, <2>8, <3>2
    <3>4. ASSUME NEW o \in OffersOf(run), NEW f \in ToSet(o.fares), ~f.soldOut /\ f.seats > 0
          PROVE  cheapest.price <= f.price
      <4>1. PICK j \in OnSale(items) : j.price <= f.price
        BY <2>5, <3>4
      <4> QED BY <2>6, <2>7, <2>8, <3>3, <4>1
    <3> QED BY <2>2, <3>3, <3>4
  <2>11. Adds
    <3> DEFINE twins(list) == \E i, j \in list : i # j /\ ResultKey(i) = ResultKey(j)
    <3> SUFFICES ASSUME ~twins(prev), ~twins(items)
                 PROVE  /\ Cardinality(prev) - diff.removed + diff.new = Cardinality(items)
                        /\ diff.down.count + diff.up.count + diff.new <= Cardinality(items)
      BY <2>2 DEF prev
    <3>1. /\ \A i, j \in prev : ResultKey(i) = ResultKey(j) => i = j
          /\ \A i, j \in items : ResultKey(i) = ResultKey(j) => i = j
      OBVIOUS
    <3>2. Cardinality(prev) - diff.removed + diff.new = Cardinality(items)
      BY <2>2, <2>3, <3>1, CountsAddUp
    <3>3. diff.down.count + diff.up.count + diff.new <= Cardinality(items)
      BY <2>2, <2>3, CountedOnce
    <3> QED BY <3>2, <3>3
  <2> QED BY <2>9, <2>10, <2>11
<1>2. ASSUME ScanInv, [ScanNext]_scanVars PROVE Missed /\ Found /\ Adds
  <2>1. CASE runs' # runs
    BY <1>1, <1>2, <2>1
  <2>2. CASE runs' = runs
    BY <2>2
  <2> QED BY <2>1, <2>2
<1>3. ScanInv /\ [ScanNext]_scanVars => [Missed]_scanVars /\ [Found]_scanVars /\ [Adds]_scanVars
  BY <1>2
<1>4. ScanSpec => [][Missed]_scanVars /\ [][Found]_scanVars /\ [][Adds]_scanVars
  BY <1>3, ScanStarts, ScanStep, PTL DEF ScanSpec
<1> QED BY <1>4 DEF RunTellsTheTruth, TargetIsMet, TargetIsNeverMissed, FoundIsTheCheapest, DiffAddsUp
=============================================================================
