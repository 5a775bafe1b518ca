------------------------------ MODULE WebInbox ------------------------------
(***************************************************************************)
(* The notification inbox of the web client (data/useInbox.ts and          *)
(* screens/inbox/InboxRoute.tsx) over the API that lists notifications and *)
(* marks them read (notifier/notification.controller.ts).  The client      *)
(* shows its copy of the list; a mark changes the copy at once, is undone  *)
(* when its request fails, and has the list fetched again when the request *)
(* is over.  Marks overlap each other and the list's requests, and a tap   *)
(* on a notification may leave the inbox while its mark is under way.      *)
(*                                                                         *)
(* The query library is modelled from its use: a cancelled request's       *)
(* answer is ignored; invalidating a copy on screen cancels its request    *)
(* and sends another, off screen it only marks the copy, and an answer     *)
(* that was already on its way takes the mark off; a copy that was just    *)
(* written counts as fresh.  No request outlives the five minutes a copy   *)
(* off screen is kept.  Nobody else marks this user's notifications.       *)
(***************************************************************************)
EXTENDS Integers, FiniteSets

CONSTANTS
    Notice,     \* Notifications 1..n, in the order they arrive.
    PageSize,   \* limit of the list
    Mark,       \* Requests that mark notifications as read.
    MaxFailed,  \* Bound on the requests that fail.
    NoList

ASSUME InboxAssumption == Notice \subseteq Nat /\ PageSize \in Nat

VARIABLES
    there,     \* The rows.
    unread,    \* Those with readAt NULL.
    onScreen,  \* The inbox is the page on screen.
    shown,     \* The copy: [items, unread], or NoList.
    stale,       \* The copy is marked, or older than staleTime: fetched when the inbox is opened.
    listing,   \* The list's request: "none", "asked", or the list it was answered.
    marks,     \* Each mark: [on, prev, step]; Notice stands for read-all.
    late,      \* Writes of marks that failed in the client's eyes.
    behind,    \* The copy may be behind for a reason the code leaves open (history).
    failed

inboxVars == <<there, unread, onScreen, shown, stale, listing, marks, late, behind, failed>>

NoListing == [step |-> "none", list |-> NoList]
Asked == [step |-> "asked", list |-> NoList]
MarkIdle == [on |-> {}, prev |-> NoList, step |-> "idle"]

InboxInit ==
    /\ there = {} /\ unread = {}
    /\ onScreen = FALSE /\ shown = NoList /\ stale = FALSE /\ listing = NoListing
    /\ marks = [m \in Mark |-> MarkIdle]
    /\ late = {} /\ behind = FALSE /\ failed = 0

-----------------------------------------------------------------------------
\* The newest PageSize notifications.
Page == {n \in there : Cardinality({k \in there : k > n}) < PageSize}

\* The notifier adds a row.
Arrive ==
    /\ \E n \in Notice \ there :
          /\ \A k \in there : k < n
          /\ there' = there \cup {n} /\ unread' = unread \cup {n}
    /\ UNCHANGED <<onScreen, shown, stale, listing, marks, late, behind, failed>>

\* The list is asked for if there is no copy or it is stale, and no request is under way.
Wanted == listing = NoListing /\ (shown = NoList \/ stale)

OpenInbox ==
    /\ ~onScreen /\ onScreen' = TRUE
    /\ listing' = IF Wanted THEN Asked ELSE listing
    /\ UNCHANGED <<there, unread, shown, stale, marks, late, behind, failed>>

\* The connection is back, or the page of an error is asked to try again.
AskAgain ==
    /\ onScreen /\ Wanted /\ listing' = Asked
    /\ UNCHANGED <<there, unread, onScreen, shown, stale, marks, late, behind, failed>>

\* A request goes on without its page.
LeaveInbox ==
    /\ onScreen /\ onScreen' = FALSE
    /\ UNCHANGED <<there, unread, shown, stale, listing, marks, late, behind, failed>>

\* A minute passes.
CopyAges ==
    /\ shown # NoList /\ ~stale /\ stale' = TRUE
    /\ UNCHANGED <<there, unread, onScreen, shown, listing, marks, late, behind, failed>>

ReadList ==
    /\ listing = Asked
    /\ listing' = [step |-> "answered", list |-> [items |-> Page, unread |-> unread \cap Page]]
    /\ behind' = FALSE
    /\ UNCHANGED <<there, unread, onScreen, shown, stale, marks, late, failed>>

ShowList ==
    /\ listing.step = "answered"
    /\ shown' = listing.list /\ stale' = FALSE
    /\ listing' = NoListing
    /\ UNCHANGED <<there, unread, onScreen, marks, late, behind, failed>>

\* Its one repetition failed too: the stale copy stays.
ListFails ==
    /\ listing # NoListing
    /\ failed < MaxFailed /\ failed' = failed + 1
    /\ listing' = NoListing /\ behind' = TRUE
    /\ UNCHANGED <<there, unread, onScreen, shown, stale, marks, late>>

\* onMutate: cancel the list's request, keep the copy, change it.  A tap marks one that is
\* shown unread, and read-all is offered while there are some.
StartMark(m) ==
    /\ onScreen /\ marks[m] = MarkIdle
    /\ shown # NoList /\ shown.unread # {}
    /\ \E on \in {{n} : n \in shown.unread} \cup {Notice} :
          /\ marks' = [marks EXCEPT ![m] = [on |-> on, prev |-> shown, step |-> "sent"]]
          /\ shown' = [shown EXCEPT !.unread = @ \ on]
    /\ stale' = FALSE /\ listing' = NoListing
    /\ UNCHANGED <<there, unread, onScreen, late, behind, failed>>

\* markRead, markAllRead.
ApplyMark(m) ==
    /\ marks[m].step = "sent"
    /\ unread' = unread \ marks[m].on
    /\ marks' = [marks EXCEPT ![m] = [@ EXCEPT !.step = "applied"]]
    /\ UNCHANGED <<there, onScreen, shown, stale, listing, late, behind, failed>>

FaultJoins == IF onScreen /\ listing = NoListing THEN Asked ELSE listing
\* What the list's request becomes when its copy is invalidated.
Refetched == IF onScreen THEN Asked ELSE listing

\* invalidateQueries, in onSettled.  Off screen, an answer that was already read comes last.
Invalidate ==
    /\ stale' = TRUE /\ listing' = Refetched
    /\ behind' = (behind \/ (~onScreen /\ listing.step = "answered"))

MarkSucceeds(m) ==
    /\ marks[m].step = "applied"
    /\ marks' = [marks EXCEPT ![m] = MarkIdle]
    /\ Invalidate
    /\ UNCHANGED <<there, unread, onScreen, shown, late, failed>>

\* Refused, or its answer was lost (its write done, or still to come): the copy of before
\* this mark comes back, whatever other marks have made of it since.
MarkFails(m) ==
    /\ marks[m] # MarkIdle
    /\ failed < MaxFailed /\ failed' = failed + 1
    /\ shown' = marks[m].prev
    /\ marks' = [marks EXCEPT ![m] = MarkIdle]
    /\ late' = late \/ (marks[m].step = "sent" /\ late' = late \cup {marks[m].on})
    /\ Invalidate
    /\ UNCHANGED <<there, unread, onScreen>>

LateWrite ==
    /\ \E w \in late : unread' = unread \ w /\ late' = late \ {w}
    /\ behind' = TRUE
    /\ UNCHANGED <<there, onScreen, shown, stale, listing, marks, failed>>

InboxNext ==
    \/ Arrive \/ OpenInbox \/ AskAgain \/ LeaveInbox \/ CopyAges
    \/ ReadList \/ ShowList \/ ListFails \/ LateWrite
    \/ \E m \in Mark : StartMark(m) \/ ApplyMark(m) \/ MarkSucceeds(m) \/ MarkFails(m)

InboxSpec == InboxInit /\ [][InboxNext]_inboxVars

-----------------------------------------------------------------------------
(* Properties. *)

\* Once no request is under way, every notification on screen is shown as the server has
\* it (useInbox.ts): a copy an earlier mark brought back, or a list read before a later
\* mark, never has the last word, unless the list's last request failed, a mark that
\* failed for the client was written later, or a mark ended while the inbox was off
\* screen and the list had been read before (useInbox.ts:45).
InboxIsTrue ==
    /\ onScreen /\ listing = NoListing /\ ~behind /\ shown # NoList
    /\ \A m \in Mark : marks[m] = MarkIdle
    => shown.unread = unread \cap shown.items
=============================================================================
