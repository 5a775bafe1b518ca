--------------------------- MODULE ProfilePrimary ---------------------------
(***************************************************************************)
(* The primary record of a user (profile/profile.controller.ts): saved     *)
(* passengers, and VAT profiles by the same code.  A write that makes one  *)
(* record primary first clears the others, in one transaction at           *)
(* PostgreSQL's default level: the clearing sees what was committed when   *)
(* its statement began, and waits for rows another transaction holds.      *)
(***************************************************************************)
EXTENDS FiniteSets, Integers

CONSTANTS
    Record,   \* Records of one user.
    Writer,   \* Transactions.
    None

ASSUME ProfileAssumption == None \notin Writer

VARIABLES
    rows,     \* Committed: each record [there, primary].
    tx,       \* Each transaction: idle, or [on, creates, primary, cleared, step].
    lone      \* The transaction that has been alone since it began, or None.

profileVars == <<rows, tx, lone>>

Absent == [there |-> FALSE, primary |-> FALSE]
Row(primary) == [there |-> TRUE, primary |-> primary]
TxIdle == [on |-> None, creates |-> FALSE, primary |-> FALSE, cleared |-> {}, step |-> "idle"]

ProfileInit ==
    /\ rows = [r \in Record |-> Absent]
    /\ tx = [w \in Writer |-> TxIdle]
    /\ lone = None

OpenTx == {w \in Writer : tx[w] # TxIdle}
PrimaryRecords == {r \in Record : rows[r].primary}

\* addPassenger and updatePassenger; an update checks the owner before its transaction.
BeginWrite(w, r) ==
    /\ tx[w] = TxIdle
    /\ \E creates, primary \in BOOLEAN :
          /\ creates <=> ~rows[r].there
          /\ creates => \A v \in OpenTx : tx[v].on # r
          /\ tx' = [tx EXCEPT ![w] = [on |-> r, creates |-> creates, primary |-> primary, cleared |-> {},
                                      step |-> IF primary THEN "clear" ELSE "write"]]
    /\ lone' = IF OpenTx = {} THEN w ELSE None
    /\ UNCHANGED rows

FaultOnlyItself(w) == PrimaryRecords \cap {tx[w].on}
\* What updateMany looks for: the primaries, except the record that is updated.
Others(w) == PrimaryRecords \ {tx[w].on}

\* Rows that a transaction has cleared and not committed are locked.
Locked(w) == UNION {tx[v].cleared : v \in {u \in OpenTx \ {w} : tx[u].step = "write"}}

\* The statement begins: it will touch the rows that are primary now.
StartClearing(w) ==
    /\ tx[w].step = "clear"
    /\ tx' = [tx EXCEPT ![w] = [@ EXCEPT !.cleared = Others(w), !.step = "clearing"]]
    /\ UNCHANGED <<rows, lone>>

StillPrimary(w) == tx[w].cleared \cap PrimaryRecords

\* It has waited for those another transaction held, and looks at them once more.
FinishClearing(w) ==
    /\ tx[w].step = "clearing"
    /\ tx[w].cleared \cap Locked(w) = {}
    /\ tx' = [tx EXCEPT ![w] = [@ EXCEPT !.cleared = StillPrimary(w), !.step = "write"]]
    /\ UNCHANGED <<rows, lone>>

\* The record's own write, and the commit.  An update waits for its record too; one
\* deleted meanwhile makes the transaction fail (P2025) and nothing is cleared.
CommitWrite(w) ==
    /\ tx[w].step = "write"
    /\ tx[w].on \notin Locked(w)
    /\ tx[w].creates \/ rows[tx[w].on].there
    /\ rows' = [r \in Record |-> IF r = tx[w].on THEN Row(tx[w].primary)
                                 ELSE IF r \in tx[w].cleared /\ rows[r].there THEN Row(FALSE)
                                 ELSE rows[r]]
    /\ tx' = [tx EXCEPT ![w] = TxIdle]
    /\ lone' = IF lone = w THEN None ELSE lone

RollBack(w) ==
    /\ tx[w] # TxIdle
    /\ tx' = [tx EXCEPT ![w] = TxIdle]
    /\ lone' = IF lone = w THEN None ELSE lone
    /\ UNCHANGED rows

DeleteRecord(r) ==
    /\ rows[r].there
    /\ \A w \in Writer : r \notin Locked(w)
    /\ rows' = [rows EXCEPT ![r] = Absent]
    /\ UNCHANGED <<tx, lone>>

ProfileNext ==
    \/ \E w \in Writer : (\E r \in Record : BeginWrite(w, r)) \/ StartClearing(w) \/ FinishClearing(w)
                         \/ CommitWrite(w) \/ RollBack(w)
    \/ \E r \in Record : DeleteRecord(r)

ProfileSpec == ProfileInit /\ [][ProfileNext]_profileVars

-----------------------------------------------------------------------------
(* Properties. *)

\* Whatever overlapping writes left behind (two primaries are possible), a write that
\* makes a record primary and meets no other leaves that record the only primary; and a
\* write that does not never adds one.
LoneWriteHeals ==
    [][\A w \in Writer : tx[w].step = "write" /\ tx'[w].step = "idle" /\ rows' # rows =>
          IF tx[w].primary THEN lone = w => PrimaryRecords' = {tx[w].on}
                           ELSE PrimaryRecords' \subseteq PrimaryRecords]_profileVars
=============================================================================
