---------------------------- MODULE VoucherClaim ----------------------------
(***************************************************************************)
(* Claiming a voucher (voucher/voucher.service.ts): the template is read,  *)
(* the vouchers issued are counted, and only then one is inserted.  The    *)
(* key (user, template) is unique, the quantity is not guarded.            *)
(***************************************************************************)
EXTENDS Integers, FiniteSets

CONSTANTS
    User,
    Claimer,      \* Requests; a user may send several.
    Quantity,     \* totalQuantity of the template.
    Nobody

ASSUME VoucherAssumption == Quantity \in Nat /\ Nobody \notin User

VARIABLES
    open,     \* The template is active, within its dates.
    gold,     \* The users whose tier the template's filter admits.
    issued,   \* The users who own the voucher: the rows.
    claiming, \* Each request: the user it counted for, or Nobody.
    together  \* The most requests past their count at once.

voucherVars == <<open, gold, issued, claiming, together>>

VoucherInit ==
    /\ open = TRUE /\ gold \in SUBSET User
    /\ issued = {} /\ claiming = [r \in Claimer |-> Nobody]
    /\ together = 0

Counted == {r \in Claimer : claiming[r] # Nobody}

FaultNoCount(u) == open /\ u \in gold
\* The checks of claim, the count the last of them.
MayClaim(u) == open /\ u \in gold /\ Cardinality(issued) < Quantity

CountIssued(r, u) ==
    /\ claiming[r] = Nobody
    /\ MayClaim(u)
    /\ claiming' = [claiming EXCEPT ![r] = u]
    /\ together' = IF Cardinality(Counted) + 1 > together THEN Cardinality(Counted) + 1 ELSE together
    /\ UNCHANGED <<open, gold, issued>>

\* create, or its refusal by the unique key (P2002).
InsertVoucher(r) ==
    /\ claiming[r] # Nobody
    /\ issued' = issued \cup {claiming[r]}
    /\ claiming' = [claiming EXCEPT ![r] = Nobody]
    /\ UNCHANGED <<open, gold, together>>

ClaimFails(r) ==
    /\ claiming[r] # Nobody
    /\ claiming' = [claiming EXCEPT ![r] = Nobody]
    /\ UNCHANGED <<open, gold, issued, together>>

TemplateChanges ==
    /\ open' = ~open
    /\ UNCHANGED <<gold, issued, claiming, together>>

\* What list offers to u.
Available(u) == open /\ u \notin issued /\ u \in gold /\ Cardinality(issued) < Quantity

VoucherNext ==
    \/ \E r \in Claimer : (\E u \in User : CountIssued(r, u)) \/ InsertVoucher(r) \/ ClaimFails(r)
    \/ TemplateChanges

VoucherSpec == VoucherInit /\ [][VoucherNext]_voucherVars

-----------------------------------------------------------------------------
(* Properties. *)

\* Vouchers beyond the quantity are those of claims that counted together (claim counts,
\* then inserts): n such claims issue at most n - 1 too many.
OverIssueMeansOverlap ==
    Cardinality(issued) <= Quantity + (IF together = 0 THEN 0 ELSE together - 1)
=============================================================================
