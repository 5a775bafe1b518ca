----------------------------- MODULE HunterDesk -----------------------------
(***************************************************************************)
(* The fare-hunter pages of the web client (data/useHunts.ts and the       *)
(* screens under screens/hunter) over the hunts API (hunt.controller.ts).  *)
(* The client keeps a copy of the list and one of every hunt it has opened;*)
(* a command that succeeds has copies fetched again, at once when they are *)
(* on screen, otherwise when they next are.                                *)
(*                                                                         *)
(* The query library is modelled from its use: invalidating a copy on      *)
(* screen drops its request and sends another, but a first request, with   *)
(* no copy to show yet, goes on; off screen it only marks the copy, and an *)
(* answer that was already on its way takes the mark off.                  *)
(***************************************************************************)
EXTENDS Integers, FiniteSets

CONSTANTS
    HuntId,     \* Hunts the user may have.
    List,       \* Stands for the list, ['hunts'].
    Command,    \* Requests that create or change hunts, each sent once.
    MaxWalks,   \* Bound on pages opened and copies that age.
    MaxUpsets,  \* Bound on runs that write, failing requests and lost answers.
    NoCopy, NoHunt

ASSUME DeskAssumption ==
    /\ List \notin HuntId /\ NoHunt \notin HuntId \cup {List}
    /\ "create" \notin HuntId \cup {List}
    /\ MaxWalks \in Nat /\ MaxUpsets \in Nat

VARIABLES
    hunts,     \* Status of each hunt, "none" before it exists.
    page,      \* The hunt on screen, List, or "create".
    copy,      \* What the client shows of each query.
    asking,    \* Each query's request: [step, copy].
    old,       \* Queries fetched again when they are next on screen.
    commands,  \* Each command: [do, on, step, found, mine, heard].
    drifted,   \* Queries whose copy may be behind for a reason the code leaves open.
    walked, upsets

deskVars == <<hunts, page, copy, asking, old, commands, drifted, walked, upsets>>

Query == HuntId \cup {List}
NotAsked == [step |-> "none", copy |-> NoCopy]
Resting == [do |-> "none", on |-> NoHunt, step |-> "idle", found |-> "none",
            mine |-> FALSE, heard |-> TRUE]
Over == [Resting EXCEPT !.step = "over"]

DeskInit ==
    /\ hunts \in [HuntId -> {"none", "HUNTING"}] /\ page = List
    /\ copy = [q \in Query |-> NoCopy] /\ asking = [q \in Query |-> NotAsked]
    /\ old = {} /\ commands = [c \in Command |-> Resting]
    /\ drifted = {} /\ walked = 0 /\ upsets = 0

-----------------------------------------------------------------------------
(* Copies. *)

\* mapHuntStatus: whatever is neither found nor hunted looks paused.
StatusShown(s) == IF s = "FOUND" THEN "found" ELSE IF s = "HUNTING" THEN "hunting" ELSE "paused"

Listed == {f \in HuntId : hunts[f] \in {"HUNTING", "FOUND", "PAUSED"}}

Seen(q) == [f \in (IF q = List THEN Listed ELSE {q}) |-> StatusShown(hunts[f])]

Displayed(q) == page = q

Ask == [step |-> "asked", copy |-> NoCopy]

\* A page comes on screen: its copy is fetched if there is none or it is old.
Mounted(p, aged) ==
    IF p \in Query /\ asking[p] = NotAsked /\ (copy[p] = NoCopy \/ p \in aged)
    THEN [asking EXCEPT ![p] = Ask] ELSE asking

Left == [c \in Command |-> [commands[c] EXCEPT !.mine = FALSE]]

\* By a card of the list, a button, or the browser's history.
Open(p) ==
    /\ p # page
    /\ p \in HuntId => hunts[p] # "none"
    /\ walked < MaxWalks /\ walked' = walked + 1
    /\ page' = p /\ asking' = Mounted(p, old) /\ commands' = Left
    /\ UNCHANGED <<hunts, copy, old, drifted, upsets>>

\* The list is the first page: it is fetched when the client starts.
Start ==
    /\ page = List /\ copy[List] = NoCopy /\ asking[List] = NotAsked
    /\ asking' = Mounted(List, old)
    /\ UNCHANGED <<hunts, page, copy, old, commands, drifted, walked, upsets>>

\* A minute passes.
Age ==
    /\ old # {q \in Query : copy[q] # NoCopy}
    /\ walked < MaxWalks /\ walked' = walked + 1
    /\ old' = {q \in Query : copy[q] # NoCopy}
    /\ UNCHANGED <<hunts, page, copy, asking, commands, drifted, upsets>>

Answer(q) ==
    /\ asking[q].step = "asked"
    /\ asking' = [asking EXCEPT ![q] = [step |-> "answered", copy |-> Seen(q)]]
    /\ drifted' = drifted \ {q}
    /\ UNCHANGED <<hunts, page, copy, old, commands, walked, upsets>>

Show(q) ==
    /\ asking[q].step = "answered"
    /\ copy' = [copy EXCEPT ![q] = asking[q].copy]
    /\ asking' = [asking EXCEPT ![q] = NotAsked]
    /\ old' = old \ {q}
    /\ UNCHANGED <<hunts, page, commands, drifted, walked, upsets>>

\* Twice: the page shows an error until it is asked to try again.
AskFails(q) ==
    /\ asking[q] # NotAsked
    /\ upsets < MaxUpsets /\ upsets' = upsets + 1
    /\ asking' = [asking EXCEPT ![q] = NotAsked]
    /\ drifted' = drifted \cup {q}
    /\ UNCHANGED <<hunts, page, copy, old, commands, walked>>

-----------------------------------------------------------------------------
(* Commands. *)

UnderWay(c) == commands[c] \notin {Resting, Over}

\* isPending, of the mutation of the page on screen.
Pending(kinds) == \E c \in Command : commands[c].mine /\ commands[c].do \in kinds

Send(c, do, on) ==
    /\ commands[c] = Resting
    /\ commands' = [commands EXCEPT ![c] =
           [Resting EXCEPT !.do = do, !.on = on, !.step = "sent", !.mine = TRUE]]
    /\ UNCHANGED <<hunts, page, copy, asking, old, drifted, walked, upsets>>

\* The form's submit: the new row is the next free one.
SendCreate(c) ==
    /\ page = "create" /\ ~Pending({"create"})
    /\ Send(c, "create", NoHunt)

\* onPauseResume: by the status the page shows.
SendUpdate(c) ==
    /\ page \in HuntId /\ copy[page] # NoCopy /\ ~Pending({"pause", "resume"})
    /\ Send(c, IF copy[page][page] = "paused" THEN "resume" ELSE "pause", page)

\* onDelete, confirmed; an update may be pending.
SendCancel(c) ==
    /\ page \in HuntId /\ copy[page] # NoCopy /\ ~Pending({"cancel"})
    /\ Send(c, "cancel", page)

CommandGoes(c, step) == commands' = [commands EXCEPT ![c] = [@ EXCEPT !.step = step]]

\* The key is reserved: every mutation brings a key of its own.
ReserveKey(c) ==
    /\ commands[c].do = "create" /\ commands[c].step = "sent"
    /\ CommandGoes(c, "reserved")
    /\ UNCHANGED <<hunts, page, copy, asking, old, drifted, walked, upsets>>

CreateHunt(c) ==
    /\ commands[c].step = "reserved"
    /\ \E f \in HuntId :
          /\ hunts[f] = "none" /\ hunts' = [hunts EXCEPT ![f] = "HUNTING"]
          /\ commands' = [commands EXCEPT ![c] = [@ EXCEPT !.on = f, !.step = "created"]]
    /\ UNCHANGED <<page, copy, asking, old, drifted, walked, upsets>>

RecordHunt(c) ==
    /\ commands[c].step = "created"
    /\ CommandGoes(c, "done")
    /\ UNCHANGED <<hunts, page, copy, asking, old, drifted, walked, upsets>>

\* requireOwnedHunt: the status that decides.
FindHunt(c) ==
    /\ commands[c].do # "create" /\ commands[c].step = "sent"
    /\ commands' = [commands EXCEPT ![c] =
           [@ EXCEPT !.step = "found", !.found = hunts[commands[c].on]]]
    /\ UNCHANGED <<hunts, page, copy, asking, old, drifted, walked, upsets>>

\* What the command makes of a hunt that had status s when it was read; the second
\* argument is its status by now.
Commanded(do, s, now) ==
    IF do = "cancel" THEN IF s = "CANCELLED" THEN now ELSE "CANCELLED"
    ELSE IF do = "pause" /\ s = "HUNTING" THEN "PAUSED"
    ELSE IF do = "resume" /\ s \in {"PAUSED", "FOUND"} THEN "HUNTING" ELSE now

WriteHunt(c) ==
    /\ commands[c].step = "found"
    /\ hunts' = [hunts EXCEPT ![commands[c].on] = Commanded(commands[c].do, commands[c].found, @)]
    /\ CommandGoes(c, "done")
    /\ UNCHANGED <<page, copy, asking, old, drifted, walked, upsets>>

FaultKeepsList(k) == IF k.do \in {"pause", "resume"} THEN {k.on} ELSE IF k.do = "create" THEN {List} ELSE {}
\* onSuccess: a deletion leaves the copy of the hunt itself alone.
Invalidates(k) == IF k.do \in {"pause", "resume"} THEN {k.on, List} ELSE {List}

\* Requests that a command's success leaves alone.
GoesOn(q) == asking[q] # NotAsked /\ (~Displayed(q) \/ copy[q] = NoCopy)
Crossed(qs) == {q \in qs : GoesOn(q)}

\* The copies are marked, those on screen asked for again; then a creation or a deletion
\* whose page is still there goes to the list.
CommandSucceeds(c) ==
    LET k == commands[c]
        qs == Invalidates(k)
        back == k.mine /\ k.do \in {"create", "cancel"}
        again == [q \in Query |-> IF q \in qs /\ Displayed(q) /\ ~GoesOn(q) THEN Ask ELSE asking[q]]
    IN  /\ k.step = "done" /\ k.heard
        /\ old' = old \cup {q \in qs : copy[q] # NoCopy}
        /\ drifted' = drifted \cup Crossed(qs) \cup (IF k.do = "cancel" THEN {k.on} ELSE {})
        /\ IF back
           THEN /\ page' = List
                /\ asking' = Mounted(List, old')
                /\ commands' = [Left EXCEPT ![c] = Over]
           ELSE /\ asking' = again
                /\ commands' = [commands EXCEPT ![c] = Over]
                /\ UNCHANGED page
        /\ UNCHANGED <<hunts, copy, walked, upsets>>

\* Refused before it changed a row: the key, the quota, the queue, the database.
Refused(c) ==
    /\ commands[c].step \in {"sent", "reserved", "found"}
    /\ commands' = [commands EXCEPT ![c] = Over]
    /\ UNCHANGED <<hunts, page, copy, asking, old, drifted, walked, upsets>>

Touched(c) == Query \cap {List, commands[c].on}

\* The hunt exists, its answer cannot be stored: the creation counts as refused.
RecordFails(c) ==
    /\ commands[c].step = "created"
    /\ upsets < MaxUpsets /\ upsets' = upsets + 1
    /\ commands' = [commands EXCEPT ![c] = Over]
    /\ drifted' = drifted \cup Touched(c)
    /\ UNCHANGED <<hunts, page, copy, asking, old, walked>>

\* The client gives the request up; the server does not.
LoseAnswer(c) ==
    /\ UnderWay(c) /\ commands[c].heard
    /\ upsets < MaxUpsets /\ upsets' = upsets + 1
    /\ commands' = [commands EXCEPT ![c] = [@ EXCEPT !.heard = FALSE, !.mine = FALSE]]
    /\ UNCHANGED <<hunts, page, copy, asking, old, drifted, walked>>

EndsUnheard(c) ==
    /\ commands[c].step = "done" /\ ~commands[c].heard
    /\ commands' = [commands EXCEPT ![c] = Over]
    /\ drifted' = drifted \cup Touched(c)
    /\ UNCHANGED <<hunts, page, copy, asking, old, walked, upsets>>

\* A run of the hunter writes what it came to, over whatever the user did meanwhile.
RunMoves(f) ==
    /\ hunts[f] # "none" /\ upsets < MaxUpsets /\ upsets' = upsets + 1
    /\ \E s \in {"FOUND", "PAUSED"} \ {hunts[f]} : hunts' = [hunts EXCEPT ![f] = s]
    /\ drifted' = drifted \cup {f, List}
    /\ UNCHANGED <<page, copy, asking, old, commands, walked>>

DeskNext ==
    \/ Start \/ Age
    \/ \E p \in Query \cup {"create"} : Open(p)
    \/ \E q \in Query : Answer(q) \/ Show(q) \/ AskFails(q)
    \/ \E c \in Command :
          \/ SendCreate(c) \/ SendUpdate(c) \/ SendCancel(c) \/ ReserveKey(c) \/ CreateHunt(c)
          \/ RecordHunt(c) \/ FindHunt(c) \/ WriteHunt(c) \/ CommandSucceeds(c) \/ Refused(c)
          \/ RecordFails(c) \/ LoseAnswer(c) \/ EndsUnheard(c)
    \/ \E f \in HuntId : RunMoves(f)

DeskSpec == DeskInit /\ [][DeskNext]_deskVars

-----------------------------------------------------------------------------
(* Properties. *)

\* While no command is under way and the page on screen waits for nothing, it shows what
\* the server has (useHunts.ts), unless a run of the hunter changed it, a request failed
\* or lost its answer, the user deleted the hunt of this page, or a command succeeded
\* while an answer was on its way to a page that was not on screen, or to one that had
\* nothing to show yet (useHunts.ts:98).
HuntsAreTrue ==
    \A q \in Query \ drifted :
        /\ Displayed(q) /\ asking[q] = NotAsked /\ copy[q] # NoCopy
        /\ \A c \in Command : ~UnderWay(c)
        => copy[q] = Seen(q)

\* What a user expects of 'Xóa hunt này' (HunterDetailMobile.tsx:68, 'Sol sẽ ngừng theo
\* dõi chặng này'): a deleted hunt stays deleted.  It does not: a pause that was read
\* before the deletion is written after it, and a run writes over it too.
DeletedStaysDeleted ==
    [][\A f \in HuntId : hunts[f] = "CANCELLED" => hunts'[f] = "CANCELLED"]_deskVars
=============================================================================
