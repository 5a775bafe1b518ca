-------------------------- MODULE NotifierDispatch --------------------------
(***************************************************************************)
(* Notifications (notifier/notifier.service.ts, telegram.service.ts,       *)
(* notify-dispatch.processor.ts): the row, the dispatch job, the deferral  *)
(* of quiet hours and the Telegram message.  The in-app channel is the row *)
(* itself; e-mail, push and Zalo are stubs that dispatch skips.            *)
(*                                                                         *)
(* A job is delivered at least once: it is retried when it throws and      *)
(* taken again when its worker dies.  Time passes in ticks of a day of Day *)
(* ticks; a job that is due starts within the tick (its retries too: their *)
(* back-off is seconds, a tick is hours).                                  *)
(***************************************************************************)
EXTENDS Integers, FiniteSets

CONSTANTS
    Note,         \* Notifications.
    Job,          \* Slots for jobs of the queue.
    Kinds,        \* Kinds of notification used.
    Quiet,        \* Quiet hours a user may set: <<start, end>>, or Null.
    Day,          \* Ticks of a day.
    Attempts,     \* Attempts of a job (5 in queue.module.ts).
    MaxMishaps,   \* Bound on failing writes, failing queues and deaths.
    MaxEdits,     \* Bound on the changes of the preferences.
    Null

VARIABLES
    prefs,    \* The user's preferences: [telegram, email, chat, quiet].
    clock,    \* The tick of the day.
    notes,    \* The rows: Null or [kind, attempted, succeeded].
    adding,   \* Notes whose first job is still to be enqueued by their caller.
    jobs,     \* The queue: Null or [note, wait, left, step, prefs, seen, sent].
    mail,     \* How many Telegram messages of each note arrived.
    mishaps,  \* How often each note met trouble (failed write, queue or worker).
    refused,  \* Notes with a message Telegram did not confirm, or without a chat to send it to.
    edits

notifierVars == <<prefs, clock, notes, adding, jobs, mail, mishaps, refused, edits>>

Channels == {"IN_APP", "TELEGRAM", "EMAIL"}
PrefRows == [telegram : BOOLEAN, email : BOOLEAN, chat : BOOLEAN, quiet : Quiet]
NoteRows == [kind : Kinds, attempted : SUBSET Channels, succeeded : SUBSET Channels]
JobRows ==
    [note : Note, wait : Int, left : Int, step : {"waiting", "sending", "writing"},
     prefs : PrefRows \cup {Null}, seen : SUBSET Channels, sent : BOOLEAN]

ASSUME NotifierAssumption ==
    /\ Day \in Nat \ {0} /\ Attempts \in Nat \ {0}
    /\ Quiet \subseteq ((0..Day - 1) \X (0..Day - 1)) \cup {Null}
    /\ Null \notin NoteRows \cup JobRows

Urgent == {"HUNT_FOUND", "BOOKING_CONFIRMED", "BOOKING_TICKETED", "PAYMENT_SUCCESS", "PAYMENT_FAILED"}

-----------------------------------------------------------------------------
(* Channels and quiet hours. *)

EnabledChannels(p) ==
    {"IN_APP"} \cup (IF p.telegram /\ p.chat THEN {"TELEGRAM"} ELSE {}) \cup (IF p.email THEN {"EMAIL"} ELSE {})

ResolveChannels(p, requested) ==
    IF requested = {} THEN EnabledChannels(p) ELSE {"IN_APP"} \cup (requested \cap EnabledChannels(p))

FaultEndIsQuiet(q, t) ==
    q # Null /\ q[1] # q[2] /\ IF q[1] < q[2] THEN t >= q[1] /\ t <= q[2] ELSE t >= q[1] \/ t <= q[2]
InQuiet(q, t) ==
    /\ q # Null /\ q[1] # q[2]
    /\ IF q[1] < q[2] THEN t >= q[1] /\ t < q[2] ELSE t >= q[1] \/ t < q[2]

\* How long a message waits for the end of the quiet hours; 0 outside them.
QuietHoursDefer(q, t) ==
    LET ends == IF q[2] > t THEN q[2] ELSE q[2] + Day
    IN  IF InQuiet(q, t) THEN ends - t ELSE 0

-----------------------------------------------------------------------------
(* The row and its job. *)

JobFor(n, wait) ==
    [note |-> n, wait |-> wait, left |-> Attempts, step |-> "waiting",
     prefs |-> Null, seen |-> {}, sent |-> FALSE]
FreeJobs == {j \in Job : jobs[j] = Null}
Troubled == LET total[S \in SUBSET Note] ==
                  IF S = {} THEN 0 ELSE LET n == CHOOSE n \in S : TRUE IN mishaps[n] + total[S \ {n}]
            IN  total[Note]
Mishap(n) == Troubled < MaxMishaps /\ mishaps' = [mishaps EXCEPT ![n] = @ + 1]

NotifierInit ==
    /\ prefs \in [telegram : {TRUE}, email : {FALSE}, chat : {TRUE}, quiet : Quiet]
    /\ clock = 0
    /\ notes = [n \in Note |-> Null] /\ jobs = [j \in Job |-> Null]
    /\ adding = {} /\ refused = {} /\ edits = 0
    /\ mail = [n \in Note |-> 0] /\ mishaps = [n \in Note |-> 0]

\* enqueue: the row first, with the channels of this moment's preferences.
CreateRow(n) ==
    /\ notes[n] = Null
    /\ \E kind \in Kinds, requested \in {{}, {"IN_APP"}, {"TELEGRAM"}} :
          notes' = [notes EXCEPT ![n] = [kind |-> kind, succeeded |-> {"IN_APP"},
                                         attempted |-> ResolveChannels(prefs, requested)]]
    /\ adding' = adding \cup {n}
    /\ UNCHANGED <<prefs, clock, jobs, mail, mishaps, refused, edits>>

AddJob(n) ==
    /\ n \in adding
    /\ \E j \in FreeJobs : jobs' = [jobs EXCEPT ![j] = JobFor(n, 0)]
    /\ adding' = adding \ {n}
    /\ UNCHANGED <<prefs, clock, notes, mail, mishaps, refused, edits>>

\* The queue cannot be reached, or the caller dies first: the row stays alone.
AddFails(n) ==
    /\ n \in adding
    /\ Mishap(n)
    /\ adding' = adding \ {n}
    /\ UNCHANGED <<prefs, clock, notes, jobs, mail, refused, edits>>

Externals(n) == notes[n].attempted \ {"IN_APP"}

Again(j, left) == [JobFor(jobs[j].note, 0) EXCEPT !.left = left]
\* A job that throws: again, unless it was the last attempt.
Thrown(j) == IF jobs[j].left = 1 THEN Null ELSE Again(j, jobs[j].left - 1)

Due(j) == jobs[j] # Null /\ jobs[j].step = "waiting" /\ jobs[j].wait = 0

\* Nothing to send outside the app.
DispatchNothing(j) ==
    /\ Due(j) /\ Externals(jobs[j].note) = {}
    /\ jobs' = [jobs EXCEPT ![j] = Null]
    /\ UNCHANGED <<prefs, clock, notes, adding, mail, mishaps, refused, edits>>

Defers(n) == IF notes[n].kind \in Urgent THEN 0 ELSE QuietHoursDefer(prefs.quiet, clock)

\* Quiet: another job for the end of the quiet hours, then this one is complete.
DispatchDefers(j) ==
    /\ Due(j) /\ Externals(jobs[j].note) # {} /\ Defers(jobs[j].note) > 0
    /\ jobs' = [jobs EXCEPT ![j] = JobFor(jobs[j].note, Defers(jobs[j].note))]
    /\ UNCHANGED <<prefs, clock, notes, adding, mail, mishaps, refused, edits>>

\* The other job is there when this one's worker dies, and this one is taken again.
DefersTwice(j) ==
    /\ Due(j) /\ Externals(jobs[j].note) # {} /\ Defers(jobs[j].note) > 0
    /\ Mishap(jobs[j].note)
    /\ \E k \in FreeJobs : jobs' = [jobs EXCEPT ![k] = JobFor(jobs[j].note, Defers(jobs[j].note))]
    /\ UNCHANGED <<prefs, clock, notes, adding, mail, refused, edits>>

DispatchStarts(j) ==
    /\ Due(j) /\ Externals(jobs[j].note) # {} /\ Defers(jobs[j].note) = 0
    /\ jobs' = [jobs EXCEPT ![j] = [@ EXCEPT !.step = "sending", !.prefs = prefs,
                                             !.seen = notes[jobs[j].note].succeeded]]
    /\ UNCHANGED <<prefs, clock, notes, adding, mail, mishaps, refused, edits>>

Sending(j) == jobs[j] # Null /\ jobs[j].step = "sending"

\* sendMessage: confirmed; not delivered; delivered but not confirmed within its 5 s; or
\* the chat is gone.  An unconfirmed message is not an error of the job.
Send(j) ==
    /\ Sending(j)
    /\ LET n == jobs[j].note
           tries == "TELEGRAM" \in Externals(n) /\ jobs[j].prefs.chat
       IN  \E arrives, confirmed \in BOOLEAN :
              /\ confirmed => arrives
              /\ arrives => tries
              /\ mail' = [mail EXCEPT ![n] = IF arrives THEN @ + 1 ELSE @]
              /\ refused' = IF "TELEGRAM" \in Externals(n) /\ ~confirmed THEN refused \cup {n} ELSE refused
              /\ jobs' = [jobs EXCEPT ![j] = [@ EXCEPT !.step = "writing", !.sent = confirmed]]
    /\ UNCHANGED <<prefs, clock, notes, adding, mishaps, edits>>

Writing(j) == jobs[j] # Null /\ jobs[j].step = "writing"

FaultAllSucceeded(j) == jobs[j].seen \cup Externals(jobs[j].note)
\* What the row said when the job read it, and the message that was confirmed.
Succeeded(j) == jobs[j].seen \cup (IF jobs[j].sent THEN {"TELEGRAM"} ELSE {})

Write(j) ==
    /\ Writing(j)
    /\ notes' = [notes EXCEPT ![jobs[j].note] = [@ EXCEPT !.succeeded = Succeeded(j)]]
    /\ jobs' = [jobs EXCEPT ![j] = Null]
    /\ UNCHANGED <<prefs, clock, adding, mail, mishaps, refused, edits>>

\* A read or the final update throws.
JobThrows(j) ==
    /\ Due(j) \/ Writing(j)
    /\ Mishap(jobs[j].note)
    /\ jobs' = [jobs EXCEPT ![j] = Thrown(j)]
    /\ UNCHANGED <<prefs, clock, notes, adding, mail, refused, edits>>

\* The worker dies: the job stalls and is taken again, its attempts unchanged.
WorkerStalls(j) ==
    /\ Sending(j) \/ Writing(j)
    /\ Mishap(jobs[j].note)
    /\ jobs' = [jobs EXCEPT ![j] = Again(j, jobs[j].left)]
    /\ UNCHANGED <<prefs, clock, notes, adding, mail, refused, edits>>

EditPrefs ==
    /\ edits < MaxEdits /\ edits' = edits + 1
    /\ prefs' \in [telegram : BOOLEAN, email : {TRUE}, chat : BOOLEAN, quiet : Quiet]
    /\ UNCHANGED <<clock, notes, adding, jobs, mail, mishaps, refused>>

Tick ==
    /\ \A j \in Job : ~Due(j)
    /\ clock' = (clock + 1) % Day
    /\ jobs' = [j \in Job |-> IF jobs[j] # Null /\ jobs[j].step = "waiting"
                              THEN [jobs[j] EXCEPT !.wait = @ - 1] ELSE jobs[j]]
    /\ UNCHANGED <<prefs, notes, adding, mail, mishaps, refused, edits>>

DispatchStep(j) == DispatchNothing(j) \/ DispatchDefers(j) \/ DispatchStarts(j) \/ Send(j) \/ Write(j)

NotifierNext ==
    \/ \E n \in Note : CreateRow(n) \/ AddJob(n) \/ AddFails(n)
    \/ \E j \in Job : DispatchStep(j) \/ DefersTwice(j) \/ JobThrows(j) \/ WorkerStalls(j)
    \/ EditPrefs \/ Tick

NotifierSpec == NotifierInit /\ [][NotifierNext]_notifierVars

\* Callers go on, workers take what is due, and time passes.
NotifierFairness ==
    /\ \A n \in Note : WF_notifierVars(AddJob(n) \/ AddFails(n))
    /\ \A j \in Job : WF_notifierVars(DispatchStep(j))
    /\ WF_notifierVars(Tick)

NotifierFairSpec == NotifierSpec /\ NotifierFairness

-----------------------------------------------------------------------------
(* Properties. *)

JobsOf(n) == {j \in Job : jobs[j] # Null /\ jobs[j].note = n}

\* A message arrives at most once more than the note met trouble (the row is written
\* after the message, and a job never looks at the channels already served); a note
\* marked as sent did arrive; and a note whose jobs are over without a message had
\* trouble, or Telegram did not confirm it, or it was not for Telegram.
MessagesAreAccountedFor ==
    \A n \in Note : notes[n] # Null =>
        /\ mail[n] <= 1 + mishaps[n]
        /\ "TELEGRAM" \in notes[n].succeeded => mail[n] > 0
        /\ n \notin adding /\ JobsOf(n) = {} /\ "TELEGRAM" \in notes[n].attempted /\ mail[n] = 0
             => mishaps[n] > 0 \/ n \in refused

\* Once its caller has gone on, every notification is served and its jobs end: quiet
\* hours put it off, never for good, even when they cross midnight.
EveryNoteIsServed ==
    \A n \in Note : notes[n] # Null ~> n \notin adding /\ JobsOf(n) = {}
=============================================================================
