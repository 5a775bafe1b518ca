--------------------------- MODULE HuntLifecycle ---------------------------
(***************************************************************************)
(* The fare hunts of one user.  Calls of the API create, pause, resume,    *)
(* cancel and hurry a hunt; workers take its scan jobs from the BullMQ     *)
(* queue "hunt.run", each run enqueueing the next one while the hunt goes  *)
(* on, and a run that meets the target price may hold seats by itself.     *)
(*                                                                         *)
(* A call and a run read the hunt once and write to it later, by id and    *)
(* without looking again: what a worker knows of its hunt is its snapshot. *)
(* Statements that touch neither the hunt, its jobs nor its bookings       *)
(* (HuntRun rows, price observations, notifications, audit) are left out,  *)
(* their exceptions are not.                                               *)
(***************************************************************************)
EXTENDS Integers, FiniteSets

CONSTANTS
  Hunt,         \* hunts the user may create
  Worker,       \* jobs processed at once, WORKER_CONCURRENCY
  Call,         \* requests of the API processed at once
  MaxActive,    \* maxActiveHunts of the user's tier
  MaxHolds,     \* autoHoldMaxHolds
  Concurrency,  \* autoHoldConcurrency of the user's tier
  Threshold,    \* FAILURE_THRESHOLD
  MaxJobs,      \* bound: jobs of a hunt, queued or running
  MaxBookings,  \* bound: bookings made for a hunt
  MaxCrashes,   \* bound: deaths of a worker or of an API process
  NoHunt

ASSUME HuntConstants ==
  /\ MaxActive \in Nat /\ MaxHolds \in Nat /\ Concurrency \in Nat
  /\ Threshold \in Nat \ {0} /\ MaxJobs \in Nat /\ MaxBookings \in Nat
  /\ MaxCrashes \in Nat /\ NoHunt \notin Hunt
  /\ IsFiniteSet(Worker)

VARIABLES
  hunt,      \* hunt[h]: the columns of row h that steer it
  jobs,      \* jobs[h]: scan jobs of h in the queue, waiting or delayed
  run,       \* run[w]: the run of worker w, with its snapshot of the hunt
  call,      \* call[c]: how far the request of c is
  bookings,  \* bookings[h]: bookings made for h by auto-hold
  stranded,  \* hunts whose last job was lost, kept for the properties
  overlap,   \* hunts that two workers once ran at the same time
  uncounted, \* uncounted[h]: bookings the hunt did not get to count
  crashes

huntVars == <<hunt, jobs, run, call, bookings, stranded, overlap, uncounted, crashes>>
ghosts == <<overlap, uncounted, crashes>>

Status == {"none", "HUNTING", "FOUND", "PAUSED", "CANCELLED", "deleted"}
RunStep == {"idle", "scanning", "deciding", "holding", "held", "ending",
            "scheduling", "failing", "rescheduling"}
CallStep == {"idle", "counted", "created", "undoing", "pausing", "resuming",
             "resumed", "cancelling", "hurrying"}

Row == [status : Status, streak : 0..Threshold, auto : BOOLEAN, used : Nat,
        lastHeld : BOOLEAN]
NoRow == [status |-> "none", streak |-> 0, auto |-> FALSE, used |-> 0, lastHeld |-> FALSE]
IdleRun == [step |-> "idle", hunt |-> NoHunt, streak |-> 0, used |-> 0,
            auto |-> FALSE, next |-> "HUNTING"]
IdleCall == [step |-> "idle", hunt |-> NoHunt]

Exists(h) == hunt[h].status \notin {"none", "deleted"}
Active == {h \in Hunt : hunt[h].status = "HUNTING"}
RunsOf(h) == {w \in Worker : run[w].hunt = h}
-----------------------------------------------------------------------------
(* The queue                                                               *)

Enqueued(h) == jobs' = [jobs EXCEPT ![h] = @ + 1] /\ stranded' = stranded \ {h}
Room(h) == jobs[h] + Cardinality(RunsOf(h)) < MaxJobs
Lost(h) == stranded' = stranded \cup {h} /\ UNCHANGED jobs
SameQueue == UNCHANGED <<jobs, stranded>>

CallEnds(c) == call' = [call EXCEPT ![c] = IdleCall]
CallGoes(c, h, step) == call' = [call EXCEPT ![c] = [step |-> step, hunt |-> h]]
RunEnds(w) == run' = [run EXCEPT ![w] = IdleRun]
RunGoes(w, step) == run' = [run EXCEPT ![w] = [@ EXCEPT !.step = step]]
\* The snapshot is read no more, but for the failures it counted.
RunGoesFor(w, step, next) ==
  run' = [run EXCEPT ![w] = [IdleRun EXCEPT !.step = step, !.hunt = run[w].hunt,
                               !.streak = run[w].streak, !.next = next]]
SetStatus(h, status) == hunt' = [hunt EXCEPT ![h] = [@ EXCEPT !.status = status]]
-----------------------------------------------------------------------------
(* Requests of the user                                                    *)

\* create: the quota is counted, then the row is inserted, then the first job
\* enqueued; without a job the row is deleted.
CountActive(c, h) ==
  /\ call[c].step = "idle" /\ hunt[h].status = "none"
  /\ \A d \in Call : call[d].hunt # h
  /\ Cardinality(Active) < MaxActive
  /\ CallGoes(c, h, "counted")
  /\ SameQueue /\ UNCHANGED <<hunt, run, bookings, ghosts>>

Insert(c) ==
  /\ call[c].step = "counted"
  /\ \E auto \in BOOLEAN :
       hunt' = [hunt EXCEPT ![call[c].hunt] =
                  [NoRow EXCEPT !.status = "HUNTING", !.auto = auto]]
  /\ CallGoes(c, call[c].hunt, "created")
  /\ SameQueue /\ UNCHANGED <<run, bookings, ghosts>>

EnqueueFirst(c) ==
  /\ call[c].step = "created"
  /\ \/ Enqueued(call[c].hunt) /\ CallEnds(c)
     \/ Lost(call[c].hunt) /\ CallGoes(c, call[c].hunt, "undoing")
  /\ UNCHANGED <<hunt, run, bookings, ghosts>>

Undone(h) == [hunt EXCEPT ![h] = [@ EXCEPT !.status = "deleted"]]

Undo(c) ==
  /\ call[c].step = "undoing"
  /\ hunt' \in {hunt, Undone(call[c].hunt)}
  /\ CallEnds(c)
  /\ SameQueue /\ UNCHANGED <<run, bookings, ghosts>>

\* update, cancel and runNow check the status they read...
Begin(c, h, step, from) ==
  /\ call[c].step = "idle" /\ hunt[h].status \in from
  /\ CallGoes(c, h, step)
  /\ SameQueue /\ UNCHANGED <<hunt, run, bookings, ghosts>>

BeginPause(c, h) == Begin(c, h, "pausing", {"HUNTING"})
BeginResume(c, h) == Begin(c, h, "resuming", {"PAUSED", "FOUND"})
BeginCancel(c, h) == Begin(c, h, "cancelling", {"HUNTING", "FOUND", "PAUSED"})
\* (after a lock in Redis that lets one call through in 30 s)
BeginRunNow(c, h) == Room(h) /\ Begin(c, h, "hurrying", {"HUNTING"})

\* ... and write whatever it is by then.
Pause(c) ==
  /\ call[c].step = "pausing" /\ Exists(call[c].hunt)
  /\ SetStatus(call[c].hunt, "PAUSED")
  /\ CallEnds(c)
  /\ SameQueue /\ UNCHANGED <<run, bookings, ghosts>>

Cancel(c) ==
  /\ call[c].step = "cancelling" /\ Exists(call[c].hunt)
  /\ SetStatus(call[c].hunt, "CANCELLED")
  /\ CallEnds(c)
  /\ SameQueue /\ UNCHANGED <<run, bookings, ghosts>>

Resume(c) ==
  /\ call[c].step = "resuming" /\ Exists(call[c].hunt) /\ Room(call[c].hunt)
  /\ SetStatus(call[c].hunt, "HUNTING")
  /\ CallGoes(c, call[c].hunt, "resumed")
  /\ SameQueue /\ UNCHANGED <<run, bookings, ghosts>>

\* The statement throws, for one because the row is gone.
Refuse(c) ==
  /\ call[c].step \in {"counted", "pausing", "resuming", "cancelling"}
  /\ CallEnds(c)
  /\ SameQueue /\ UNCHANGED <<hunt, run, bookings, ghosts>>

FaultResumeNoJob(c) == call[c].step = "hurrying"
MustEnqueue(c) == call[c].step \in {"resumed", "hurrying"}

\* A resume whose job cannot be enqueued only logs it; runNow fails.
Enqueue(c) ==
  /\ call[c].step \in {"resumed", "hurrying"}
  /\ IF MustEnqueue(c)
     THEN \/ Enqueued(call[c].hunt)
          \/ call[c].step = "resumed" /\ Lost(call[c].hunt)
          \/ call[c].step = "hurrying" /\ SameQueue
     ELSE SameQueue
  /\ CallEnds(c)
  /\ UNCHANGED <<hunt, run, bookings, ghosts>>

\* PATCH of any other column: auto-hold is the one a run reads.
Toggle(h) ==
  /\ Exists(h)
  /\ hunt' = [hunt EXCEPT ![h] = [@ EXCEPT !.auto = ~hunt[h].auto]]
  /\ SameQueue /\ UNCHANGED <<run, call, bookings, ghosts>>
-----------------------------------------------------------------------------
(* Runs of the workers                                                     *)

\* A job is taken: nothing to do unless the hunt is HUNTING.
Skip(w, h) ==
  /\ run[w].step = "idle" /\ jobs[h] > 0 /\ hunt[h].status # "HUNTING"
  /\ jobs' = [jobs EXCEPT ![h] = @ - 1]
  /\ UNCHANGED <<hunt, run, call, bookings, stranded, ghosts>>

Load(w, h) ==
  /\ run[w].step = "idle" /\ jobs[h] > 0 /\ hunt[h].status = "HUNTING"
  /\ jobs' = [jobs EXCEPT ![h] = @ - 1]
  /\ run' = [run EXCEPT ![w] =
       [step |-> "scanning", hunt |-> h, streak |-> hunt[h].streak,
        used |-> hunt[h].used, auto |-> hunt[h].auto, next |-> "HUNTING"]]
  /\ overlap' = IF RunsOf(h) # {} THEN overlap \cup {h} ELSE overlap
  /\ UNCHANGED <<hunt, call, bookings, stranded, uncounted, crashes>>

\* No agent session to spare: the run is put off, and is not a failure.
NoHeadroom(w) ==
  /\ run[w].step = "scanning"
  /\ RunGoesFor(w, "rescheduling", "HUNTING")
  /\ SameQueue /\ UNCHANGED <<hunt, call, bookings, ghosts>>

MissTarget(w) ==
  /\ run[w].step = "scanning"
  /\ RunGoesFor(w, "ending", "HUNTING")
  /\ SameQueue /\ UNCHANGED <<hunt, call, bookings, ghosts>>

HitTarget(w) ==
  /\ run[w].step = "scanning"
  /\ IF run[w].auto THEN RunGoes(w, "deciding") ELSE RunGoesFor(w, "ending", "FOUND")
  /\ SameQueue /\ UNCHANGED <<hunt, call, bookings, ghosts>>

FaultAllowsOneMore(used) == used <= MaxHolds
MayHold(used) == used < MaxHolds

\* Only the latest auto-held booking of each hunt counts, while it is HELD.
ReachedConcurrency == Cardinality({h \in Hunt : Exists(h) /\ hunt[h].lastHeld}) >= Concurrency

Decide(w) ==
  /\ run[w].step = "deciding"
  /\ IF MayHold(run[w].used) /\ ~ReachedConcurrency
     THEN RunGoes(w, "holding") ELSE RunGoesFor(w, "ending", "FOUND")
  /\ SameQueue /\ UNCHANGED <<hunt, call, bookings, ghosts>>

HoldRejected(w) ==
  /\ run[w].step = "holding"
  /\ RunGoesFor(w, "ending", "FOUND")
  /\ SameQueue /\ UNCHANGED <<hunt, call, bookings, ghosts>>

Hold(w) ==
  /\ run[w].step = "holding" /\ bookings[run[w].hunt] < MaxBookings
  /\ bookings' = [bookings EXCEPT ![run[w].hunt] = @ + 1]
  /\ RunGoes(w, "held")
  /\ SameQueue /\ UNCHANGED <<hunt, call, ghosts>>

FaultCountsSnapshot(row, r) ==
  [row EXCEPT !.status = "PAUSED", !.used = r.used + 1, !.lastHeld = TRUE]
Counted(row, r) ==
  [row EXCEPT !.status = "PAUSED", !.used = row.used + 1, !.lastHeld = TRUE]

CountHold(w) ==
  /\ run[w].step = "held" /\ Exists(run[w].hunt)
  /\ hunt' = [hunt EXCEPT ![run[w].hunt] = Counted(hunt[run[w].hunt], run[w])]
  /\ RunGoesFor(w, "ending", "PAUSED")
  /\ SameQueue /\ UNCHANGED <<call, bookings, ghosts>>

\* updateHuntAfterRun; a run that goes on has read HUNTING and leaves the
\* status as it is.
End(w) ==
  /\ run[w].step = "ending" /\ Exists(run[w].hunt)
  /\ hunt' = [hunt EXCEPT ![run[w].hunt] =
       [@ EXCEPT !.streak = 0,
                 !.status = IF run[w].next = "HUNTING" THEN hunt[run[w].hunt].status
                            ELSE run[w].next]]
  /\ IF run[w].next = "HUNTING" THEN RunGoes(w, "scheduling") ELSE RunEnds(w)
  /\ SameQueue /\ UNCHANGED <<call, bookings, ghosts>>

\* Any statement of the run throws: the run counts as a failed scan.
Throw(w) ==
  /\ run[w].step \in {"scanning", "deciding", "held", "ending", "scheduling"}
  /\ RunGoesFor(w, "failing", "HUNTING")
  /\ uncounted' = IF run[w].step = "held"
                  THEN [uncounted EXCEPT ![run[w].hunt] = @ + 1] ELSE uncounted
  /\ SameQueue /\ UNCHANGED <<hunt, call, bookings, overlap, crashes>>

\* The run that ends well throws while it marks its HuntRun as notified.
EndThrows(w) ==
  /\ run[w].step = "ending" /\ Exists(run[w].hunt)
  /\ hunt' = [hunt EXCEPT ![run[w].hunt] =
       [@ EXCEPT !.streak = 0,
                 !.status = IF run[w].next = "HUNTING" THEN hunt[run[w].hunt].status
                            ELSE run[w].next]]
  /\ RunGoesFor(w, "failing", "HUNTING")
  /\ SameQueue /\ UNCHANGED <<call, bookings, ghosts>>

FaultStreakStays(n) == n
NextStreak(n) == IF n < Threshold THEN n + 1 ELSE n

\* handleFailure: the streak goes on from the snapshot, and stops the hunt.
\* (Beyond the threshold it is not told apart; a resume does not reset it.)
Failed(w) ==
  /\ run[w].step = "failing" /\ Exists(run[w].hunt)
  /\ LET streak == NextStreak(run[w].streak)
         stop == streak >= Threshold
     IN  /\ hunt' = [hunt EXCEPT ![run[w].hunt] =
              [@ EXCEPT !.streak = streak,
                        !.status = IF stop THEN "PAUSED" ELSE hunt[run[w].hunt].status]]
         /\ IF stop THEN RunEnds(w) ELSE RunGoesFor(w, "rescheduling", "HUNTING")
  /\ SameQueue /\ UNCHANGED <<call, bookings, ghosts>>

FaultSchedulesOnSuccess(w) == run[w].step = "scheduling"
Schedules(w) == run[w].step \in {"scheduling", "rescheduling"}

EnqueueNext(w) ==
  /\ run[w].step \in {"scheduling", "rescheduling"}
  /\ IF Schedules(w) THEN Enqueued(run[w].hunt) ELSE SameQueue
  /\ RunEnds(w)
  /\ UNCHANGED <<hunt, call, bookings, ghosts>>

\* The error handling itself throws: the job fails, and has one attempt.
JobFails(w) ==
  /\ run[w].step \in {"failing", "rescheduling"}
  /\ Lost(run[w].hunt)
  /\ RunEnds(w)
  /\ UNCHANGED <<hunt, call, bookings, ghosts>>

\* The worker dies: BullMQ gives its stalled job back, or fails it.
WorkerDies(w) ==
  /\ run[w].step # "idle" /\ crashes < MaxCrashes
  /\ crashes' = crashes + 1
  /\ Enqueued(run[w].hunt) \/ Lost(run[w].hunt)
  /\ uncounted' = IF run[w].step = "held"
                  THEN [uncounted EXCEPT ![run[w].hunt] = @ + 1] ELSE uncounted
  /\ RunEnds(w)
  /\ UNCHANGED <<hunt, call, bookings, overlap>>

\* The API process dies between two statements of a request.
CallDies(c) ==
  /\ call[c].step # "idle" /\ crashes < MaxCrashes
  /\ crashes' = crashes + 1
  /\ IF call[c].step \in {"created", "resumed", "undoing"} THEN Lost(call[c].hunt) ELSE SameQueue
  /\ CallEnds(c)
  /\ UNCHANGED <<hunt, run, bookings, overlap, uncounted>>

\* The latest auto-held booking of h is paid, gets a QR code, or expires.
LeavesHeld(h) ==
  /\ Exists(h) /\ hunt[h].lastHeld
  /\ hunt' = [hunt EXCEPT ![h] = [@ EXCEPT !.lastHeld = FALSE]]
  /\ SameQueue /\ UNCHANGED <<run, call, bookings, ghosts>>
-----------------------------------------------------------------------------
HuntInit ==
  /\ hunt = [h \in Hunt |-> NoRow]
  /\ jobs = [h \in Hunt |-> 0]
  /\ run = [w \in Worker |-> IdleRun]
  /\ call = [c \in Call |-> IdleCall]
  /\ bookings = [h \in Hunt |-> 0]
  /\ stranded = {} /\ overlap = {}
  /\ uncounted = [h \in Hunt |-> 0]
  /\ crashes = 0

Take(w) == \E h \in Hunt : Skip(w, h) \/ Load(w, h)

Process(w) ==
  \/ NoHeadroom(w) \/ MissTarget(w) \/ HitTarget(w) \/ Decide(w) \/ HoldRejected(w)
  \/ Hold(w) \/ CountHold(w) \/ End(w) \/ Throw(w) \/ EndThrows(w) \/ Failed(w)
  \/ EnqueueNext(w) \/ JobFails(w)

Ask(c, h) ==
  \/ CountActive(c, h) \/ BeginPause(c, h) \/ BeginResume(c, h) \/ BeginCancel(c, h)
  \/ BeginRunNow(c, h)

Serve(c) ==
  \/ Insert(c) \/ EnqueueFirst(c) \/ Undo(c) \/ Pause(c) \/ Cancel(c)
  \/ Resume(c) \/ Enqueue(c) \/ Refuse(c)

\* What happens while no process dies.
Proceeds ==
  \/ \E w \in Worker : Take(w) \/ Process(w)
  \/ \E c \in Call : (\E h \in Hunt : Ask(c, h)) \/ Serve(c)
  \/ \E h \in Hunt : Toggle(h) \/ LeavesHeld(h)

HuntNext == Proceeds \/ (\E w \in Worker : WorkerDies(w)) \/ (\E c \in Call : CallDies(c))

HuntSpec == HuntInit /\ [][HuntNext]_huntVars

\* No process dies, delays run out and workers take jobs; every await of a run, or of
\* a request, returns or throws.
HuntFairSpec ==
  /\ HuntInit /\ [][Proceeds]_huntVars
  /\ \A w \in Worker : WF_huntVars(Take(w)) /\ WF_huntVars(Process(w))
  /\ \A c \in Call : WF_huntVars(Serve(c))
-----------------------------------------------------------------------------
(* Properties                                                              *)

HuntTypeOK ==
  /\ hunt \in [Hunt -> Row]
  /\ jobs \in [Hunt -> Nat]
  /\ run \in [Worker -> [step : RunStep, hunt : Hunt \cup {NoHunt},
                         streak : 0..Threshold, used : Nat, auto : BOOLEAN,
                         next : {"HUNTING", "FOUND", "PAUSED"}]]
  /\ \A w \in Worker : run[w].step # "idle" => run[w].hunt \in Hunt
  /\ call \in [Call -> [step : CallStep, hunt : Hunt \cup {NoHunt}]]
  /\ \A c \in Call : call[c].step # "idle" => call[c].hunt \in Hunt
  /\ bookings \in [Hunt -> Nat] /\ uncounted \in [Hunt -> Nat]
  /\ stranded \subseteq Hunt /\ overlap \subseteq Hunt /\ crashes \in 0..MaxCrashes

\* A hunt that is HUNTING is scanned again: a job of it is in the queue, or a
\* run or a request is at work that will enqueue one, or stop the hunt, unless
\* the last attempt to enqueue failed or its process died.
Scheduled(h) ==
  \/ jobs[h] > 0
  \/ RunsOf(h) # {}
  \/ \E c \in Call : call[c].hunt = h /\ call[c].step \in {"created", "undoing", "resumed"}
HuntingIsScheduled ==
  \A h \in Hunt : hunt[h].status = "HUNTING" => Scheduled(h) \/ h \in stranded

\* Every booking made by auto-hold is counted in autoHoldsUsed, or about to be,
\* or its run failed in between.
HoldsAreCounted ==
  \A h \in Hunt :
    bookings[h] = hunt[h].used + uncounted[h]
                  + Cardinality({w \in RunsOf(h) : run[w].step = "held"})

\* More bookings than autoHoldMaxHolds mean that two workers ran the hunt at
\* the same time, or that a run failed between the booking and its count.
ExtraHoldMeansOverlap ==
  \A h \in Hunt : bookings[h] > MaxHolds => h \in overlap \/ uncounted[h] > 0

\* A hunt that keeps HUNTING keeps being scanned, whatever its runs meet, until
\* a job is lost.
KeepsScanning ==
  \A h \in Hunt :
    (hunt[h].status = "HUNTING" /\ h \notin stranded) ~>
      \/ \E w \in RunsOf(h) : run[w].step = "scanning"
      \/ hunt[h].status # "HUNTING"
      \/ h \in stranded

\* Failures add up, also when runs overlap and each counts from its own
\* snapshot: a hunt that fails again and again, never ends a scan well and loses no
\* job is stopped.
FailuresAddUp ==
  \A h \in Hunt :
    ([]<>(\E w \in RunsOf(h) : run[w].step = "failing")) =>
      []<>\/ hunt[h].status # "HUNTING"
          \/ \E w \in RunsOf(h) : run[w].step = "ending"
          \/ h \in stranded
=============================================================================
