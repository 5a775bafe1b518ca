------------------------ MODULE HuntLifecycleProofs ------------------------
(***************************************************************************)
(* Proofs about HuntLifecycle: a hunt that is HUNTING has something that   *)
(* will scan it again, every booking of auto-hold is counted, and only     *)
(* overlapping runs, or a run that fails between a booking and its count,  *)
(* book more often than the user allowed.                                  *)
(*                                                                         *)
(* The rest of the invariant says what makes those inductive: no request   *)
(* or run touches a hunt before it is inserted, a run that did not overlap *)
(* another still knows how many bookings its hunt has counted, and what    *)
(* keeps a hunt scheduled is more than a request about to delete it.       *)
(***************************************************************************)
EXTENDS HuntLifecycle, FiniteSetTheorems, TLAPS

RunRow == [step : RunStep, hunt : Hunt \cup {NoHunt}, streak : 0..Threshold,
           used : Nat, auto : BOOLEAN, next : {"HUNTING", "FOUND", "PAUSED"}]
CallRow == [step : CallStep, hunt : Hunt \cup {NoHunt}]

Held(h) == {w \in RunsOf(h) : run[w].step = "held"}
Early == {"scanning", "deciding", "holding"}

\* A run belongs to an inserted hunt, and holds only while its snapshot allows it.
RunFits(w) ==
    /\ run[w].step = "idle" => run[w].hunt = NoHunt
    /\ run[w].step # "idle" => hunt[run[w].hunt].status # "none"
    /\ run[w].step = "holding" => run[w].used < MaxHolds

\* A request creates a hunt alone, and works on others once they are inserted.
CallFits(c) ==
    /\ call[c].step = "counted" =>
         /\ hunt[call[c].hunt].status = "none"
         /\ \A d \in Call \ {c} : call[d].hunt # call[c].hunt
    /\ call[c].step \notin {"idle", "counted"} => hunt[call[c].hunt].status # "none"

\* Nothing was booked for a hunt that is not inserted.
Untouched(h) ==
    hunt[h].status = "none" => hunt[h].used = 0 /\ bookings[h] = 0 /\ uncounted[h] = 0

\* Unless its runs overlapped, a hunt has one, whose snapshot is up to date.
Solo(h) ==
    h \notin overlap =>
        /\ \A v, w \in RunsOf(h) : v = w
        /\ \A w \in RunsOf(h) : run[w].step \in Early => run[w].used = hunt[h].used

\* Something will scan the hunt again, or its last job was lost.
Attended(h) ==
    \/ jobs[h] > 0
    \/ \E w \in Worker : run[w].hunt = h
    \/ \E c \in Call : call[c].hunt = h /\ call[c].step \in {"created", "resumed"}
    \/ h \in stranded

HuntInv ==
    /\ HuntTypeOK
    /\ \A w \in Worker : RunFits(w)
    /\ \A c \in Call : CallFits(c)
    /\ \A h \in Hunt : Untouched(h)
    /\ \A h \in Hunt : Solo(h)
    /\ HoldsAreCounted
    /\ ExtraHoldMeansOverlap
    /\ \A h \in Hunt : hunt[h].status = "HUNTING" => Attended(h)

-----------------------------------------------------------------------------
(* Records.                                                                *)

LEMMA RowsTyped ==
    /\ IdleRun \in RunRow /\ IdleRun.step = "idle" /\ IdleRun.hunt = NoHunt
    /\ IdleCall \in CallRow /\ IdleCall.step = "idle" /\ IdleCall.hunt = NoHunt
    /\ NoRow \in Row /\ NoRow.status = "none" /\ NoRow.used = 0
    BY HuntConstants DEF IdleRun, IdleCall, NoRow, RunRow, CallRow, Row, RunStep, CallStep, Status

LEMMA RunStepChanges ==
    ASSUME NEW q \in RunRow, NEW step \in RunStep
    PROVE  /\ [q EXCEPT !.step = step] \in RunRow
           /\ [q EXCEPT !.step = step].step = step
           /\ [q EXCEPT !.step = step].hunt = q.hunt
           /\ [q EXCEPT !.step = step].used = q.used
           /\ [q EXCEPT !.step = step].next = q.next
    BY DEF RunRow

Restarted(q, step, h, n, next) ==
    [q EXCEPT !.step = step, !.hunt = h, !.streak = n, !.next = next]

LEMMA RunRestarts ==
    ASSUME NEW q \in RunRow, NEW step \in RunStep, NEW h \in Hunt,
           NEW n \in 0..Threshold, NEW next \in {"HUNTING", "FOUND", "PAUSED"}
    PROVE  /\ Restarted(q, step, h, n, next) \in RunRow
           /\ Restarted(q, step, h, n, next).step = step
           /\ Restarted(q, step, h, n, next).hunt = h
    BY DEF RunRow, Restarted

LEMMA RowStatusChanges ==
    ASSUME NEW row \in Row, NEW status \in Status
    PROVE  /\ [row EXCEPT !.status = status] \in Row
           /\ [row EXCEPT !.status = status].status = status
           /\ [row EXCEPT !.status = status].used = row.used
    BY DEF Row

LEMMA RowIsInserted ==
    ASSUME NEW row \in Row, NEW auto \in BOOLEAN
    PROVE  /\ [row EXCEPT !.status = "HUNTING", !.auto = auto] \in Row
           /\ [row EXCEPT !.status = "HUNTING", !.auto = auto].status = "HUNTING"
           /\ [row EXCEPT !.status = "HUNTING", !.auto = auto].used = row.used
    BY DEF Row, Status

LEMMA RowIsToggled ==
    ASSUME NEW row \in Row, NEW b \in BOOLEAN
    PROVE  /\ [row EXCEPT !.auto = b] \in Row
           /\ [row EXCEPT !.auto = b].status = row.status
           /\ [row EXCEPT !.auto = b].used = row.used
           /\ [row EXCEPT !.lastHeld = b] \in Row
           /\ [row EXCEPT !.lastHeld = b].status = row.status
           /\ [row EXCEPT !.lastHeld = b].used = row.used
    BY DEF Row

Scanned(row, n, status) == [row EXCEPT !.streak = n, !.status = status]

LEMMA RowIsScanned ==
    ASSUME NEW row \in Row, NEW n \in 0..Threshold, NEW status \in Status
    PROVE  /\ Scanned(row, n, status) \in Row
           /\ Scanned(row, n, status).status = status
           /\ Scanned(row, n, status).used = row.used
    BY DEF Row, Scanned

LEMMA RowIsCounted ==
    ASSUME NEW row \in Row, NEW r
    PROVE  /\ Counted(row, r) \in Row
           /\ Counted(row, r).status = "PAUSED"
           /\ Counted(row, r).used = row.used + 1
<1>1. ASSUME NEW n \in Nat
      PROVE  /\ [row EXCEPT !.status = "PAUSED", !.used = n, !.lastHeld = TRUE] \in Row
             /\ [row EXCEPT !.status = "PAUSED", !.used = n, !.lastHeld = TRUE].status = "PAUSED"
             /\ [row EXCEPT !.status = "PAUSED", !.used = n, !.lastHeld = TRUE].used = n
  BY DEF Row, Status
<1>2. row.used + 1 \in Nat
  BY DEF Row
<1> QED BY <1>1, <1>2 DEF Counted

-----------------------------------------------------------------------------
(* What the helpers of the actions write.                                  *)

OtherRuns(w) == \A v \in Worker \ {w} : run'[v] = run[v]
OtherCalls(c) == \A d \in Call \ {c} : call'[d] = call[d]
OtherHunts(h) == \A g \in Hunt \ {h} : hunt'[g] = hunt[g]

LEMMA RunEnding ==
    ASSUME HuntTypeOK, NEW w \in Worker, RunEnds(w)
    PROVE  /\ run' \in [Worker -> RunRow]
           /\ run'[w].step = "idle" /\ run'[w].hunt = NoHunt /\ OtherRuns(w)
    BY RowsTyped DEF HuntTypeOK, RunRow, RunEnds, OtherRuns

LEMMA RunGoing ==
    ASSUME HuntTypeOK, NEW w \in Worker, NEW step \in RunStep, RunGoes(w, step)
    PROVE  /\ run' \in [Worker -> RunRow]
           /\ run'[w].step = step /\ run'[w].hunt = run[w].hunt
           /\ run'[w].used = run[w].used /\ OtherRuns(w)
<1> DEFINE q == [run[w] EXCEPT !.step = step]
<1>1. run \in [Worker -> RunRow]
  BY DEF HuntTypeOK, RunRow
<1>2. q \in RunRow /\ q.step = step /\ q.hunt = run[w].hunt /\ q.used = run[w].used
  BY <1>1, RunStepChanges
<1>3. run' = [run EXCEPT ![w] = q]
  BY DEF RunGoes
<1> HIDE DEF q
<1> QED BY <1>1, <1>2, <1>3 DEF OtherRuns

LEMMA RunForgetting ==
    ASSUME HuntTypeOK, NEW w \in Worker, NEW step \in RunStep, run[w].step # "idle",
           NEW next \in {"HUNTING", "FOUND", "PAUSED"}, RunGoesFor(w, step, next)
    PROVE  /\ run' \in [Worker -> RunRow]
           /\ run'[w].step = step /\ run'[w].hunt = run[w].hunt /\ OtherRuns(w)
<1> DEFINE q == Restarted(IdleRun, step, run[w].hunt, run[w].streak, next)
<1>1. run \in [Worker -> RunRow] /\ run[w].hunt \in Hunt /\ run[w].streak \in 0..Threshold
  BY DEF HuntTypeOK, RunRow
<1>2. IdleRun \in RunRow
  BY RowsTyped
<1>3. q \in RunRow /\ q.step = step /\ q.hunt = run[w].hunt
  BY <1>1, <1>2, RunRestarts
<1>4. run' = [run EXCEPT ![w] = q]
  BY DEF RunGoesFor, Restarted
<1> HIDE DEF q
<1> QED BY <1>1, <1>3, <1>4 DEF OtherRuns

LEMMA CallEnding ==
    ASSUME HuntTypeOK, NEW c \in Call, CallEnds(c)
    PROVE  /\ call' \in [Call -> CallRow]
           /\ call'[c].step = "idle" /\ call'[c].hunt = NoHunt /\ OtherCalls(c)
    BY RowsTyped DEF HuntTypeOK, CallRow, CallEnds, OtherCalls

LEMMA CallGoing ==
    ASSUME HuntTypeOK, NEW c \in Call, NEW h \in Hunt, NEW step \in CallStep, CallGoes(c, h, step)
    PROVE  /\ call' \in [Call -> CallRow]
           /\ call'[c].step = step /\ call'[c].hunt = h /\ OtherCalls(c)
    BY DEF HuntTypeOK, CallRow, CallGoes, OtherCalls

LEMMA RowWritten ==
    ASSUME HuntTypeOK, NEW h \in Hunt, NEW row \in Row, hunt' = [hunt EXCEPT ![h] = row]
    PROVE  hunt' \in [Hunt -> Row] /\ hunt'[h] = row /\ OtherHunts(h)
    BY DEF HuntTypeOK, OtherHunts

LEMMA StatusWritten ==
    ASSUME HuntTypeOK, NEW h \in Hunt, NEW status \in Status, SetStatus(h, status)
    PROVE  /\ hunt' \in [Hunt -> Row] /\ OtherHunts(h)
           /\ hunt'[h].status = status /\ hunt'[h].used = hunt[h].used
<1> DEFINE row == [hunt[h] EXCEPT !.status = status]
<1>1. hunt \in [Hunt -> Row]
  BY DEF HuntTypeOK
<1>2. row \in Row /\ row.status = status /\ row.used = hunt[h].used
  BY <1>1, RowStatusChanges
<1>3. hunt' = [hunt EXCEPT ![h] = row]
  BY DEF SetStatus
<1> HIDE DEF row
<1> QED BY <1>2, <1>3, RowWritten

LEMMA QueueWritten ==
    ASSUME HuntTypeOK, NEW h \in Hunt, Enqueued(h) \/ Lost(h) \/ SameQueue
    PROVE  /\ jobs' \in [Hunt -> Nat] /\ stranded' \subseteq Hunt
           /\ \A g \in Hunt : jobs[g] > 0 => jobs'[g] > 0
           /\ \A g \in Hunt \ {h} : g \in stranded => g \in stranded'
           /\ h \in stranded => jobs'[h] > 0 \/ h \in stranded'
           /\ Enqueued(h) \/ Lost(h) => jobs'[h] > 0 \/ h \in stranded'
    BY DEF HuntTypeOK, Enqueued, Lost, SameQueue

-----------------------------------------------------------------------------
(* The bookings of auto-hold, in the steps that neither book nor count.    *)

\* A run goes on or ends without booking, counting or looking at its hunt again.
QuietRun(w) ==
    \/ /\ run'[w].step = "idle" /\ run'[w].hunt = NoHunt
       /\ run[w].step # "held"
    \/ /\ run'[w].hunt = run[w].hunt
       /\ run'[w].step = "idle" <=> run[w].step = "idle"
       /\ run'[w].step = "held" <=> run[w].step = "held"
       /\ run'[w].step \in Early => run[w].step \in Early /\ run'[w].used = run[w].used
       /\ run'[w].step = "holding" => run'[w].used < MaxHolds

\* Counts stay, and no hunt is inserted.
QuietHunts ==
    /\ UNCHANGED <<bookings, uncounted, overlap>>
    /\ \A h \in Hunt : /\ hunt'[h].used = hunt[h].used
                       /\ hunt'[h].status = "none" <=> hunt[h].status = "none"

Books ==
    /\ \A w \in Worker : RunFits(w)
    /\ \A h \in Hunt : Untouched(h)
    /\ \A h \in Hunt : Solo(h)
    /\ HoldsAreCounted
    /\ ExtraHoldMeansOverlap

LEMMA BooksKept ==
    ASSUME HuntInv, HuntTypeOK', QuietHunts, \A w \in Worker : QuietRun(w)
    PROVE  Books'
<1>1. /\ HuntTypeOK /\ HoldsAreCounted /\ ExtraHoldMeansOverlap
      /\ \A w \in Worker : RunFits(w) /\ QuietRun(w)
      /\ \A h \in Hunt : Untouched(h) /\ Solo(h)
  BY DEF HuntInv
<1>2. NoHunt \notin Hunt
  BY HuntConstants
<1>3. ASSUME NEW w \in Worker PROVE RunFits(w)'
  <2>1. run'[w].step # "idle" => run'[w].hunt = run[w].hunt /\ run[w].hunt \in Hunt
    BY <1>1 DEF QuietRun, HuntTypeOK
  <2> QED BY <1>1, <2>1 DEF QuietRun, QuietHunts, RunFits
<1>4. ASSUME NEW h \in Hunt PROVE Untouched(h)'
  BY <1>1 DEF Untouched, QuietHunts
<1>5. ASSUME NEW h \in Hunt, NEW w \in RunsOf(h)'
      PROVE  w \in RunsOf(h) /\ run'[w].hunt = run[w].hunt
  BY <1>1, <1>2, <1>5 DEF RunsOf, QuietRun
<1>6. ASSUME NEW h \in Hunt PROVE Solo(h)'
  <2> SUFFICES ASSUME h \notin overlap'
               PROVE  /\ \A v, w \in RunsOf(h)' : v = w
                      /\ \A w \in RunsOf(h)' : run'[w].step \in Early => run'[w].used = hunt'[h].used
    BY DEF Solo
  <2>1. /\ \A v, w \in RunsOf(h) : v = w
        /\ \A w \in RunsOf(h) : run[w].step \in Early => run[w].used = hunt[h].used
    BY <1>1 DEF Solo, QuietHunts
  <2>2. \A w \in RunsOf(h)' : w \in Worker
    BY DEF RunsOf
  <2>3. \A w \in RunsOf(h)' : run'[w].step \in Early => run'[w].used = hunt'[h].used
    BY <1>1, <1>5, <2>1, <2>2 DEF QuietRun, QuietHunts, Early
  <2> QED BY <1>5, <2>1, <2>3
<1>7. ASSUME NEW h \in Hunt PROVE Held(h)' = Held(h)
  <2>1. ASSUME NEW w \in Worker PROVE w \in Held(h)' <=> w \in Held(h)
    BY <1>1, <1>2 DEF Held, RunsOf, QuietRun
  <2> QED BY <2>1 DEF Held, RunsOf
<1>8. HoldsAreCounted'
  BY <1>1, <1>7 DEF HoldsAreCounted, QuietHunts, Held
<1>9. ExtraHoldMeansOverlap'
  BY <1>1 DEF ExtraHoldMeansOverlap, QuietHunts
<1> QED BY <1>3, <1>4, <1>6, <1>8, <1>9 DEF Books

\* A hunt stays attended when what attends it stays, or is replaced.
Attends(h) ==
    hunt'[h].status = "HUNTING" =>
        \/ Attended(h)'
        \/ hunt[h].status = "HUNTING" /\ (Attended(h) => Attended(h)')

LEMMA Finish ==
    ASSUME HuntInv, HuntTypeOK', Books', \A c \in Call : CallFits(c)', \A h \in Hunt : Attends(h)
    PROVE  HuntInv'
    BY DEF HuntInv, Books, Attends

NoneInserted == \A h \in Hunt : hunt'[h].status = "none" <=> hunt[h].status = "none"

LEMMA RestingRuns ==
    ASSUME HuntInv, UNCHANGED run
    PROVE  \A w \in Worker : QuietRun(w)
    BY DEF HuntInv, RunFits, QuietRun

\* A request of the user goes on or ends, and hunt h is the one it is about.
LEMMA RequestMoves ==
    ASSUME HuntInv, HuntTypeOK', NEW c \in Call, NEW h \in Hunt,
           QuietHunts, UNCHANGED run, OtherCalls(c), OtherHunts(h),
           \/ call'[c].step = "idle" /\ call'[c].hunt = NoHunt
           \/ /\ call'[c].step \notin {"idle", "counted"}
              /\ call'[c].hunt \in Hunt /\ hunt[call'[c].hunt].status # "none",
           \A g \in Hunt : jobs[g] > 0 => jobs'[g] > 0,
           \A g \in Hunt \ {h} : g \in stranded => g \in stranded',
           call[c].step \in {"created", "resumed"} => call[c].hunt = h,
           \/ hunt'[h].status # "HUNTING" \/ Attended(h)'
           \/ /\ call[c].step \notin {"created", "resumed"}
              /\ hunt[h].status = "HUNTING"
              /\ h \in stranded => jobs'[h] > 0 \/ h \in stranded'
    PROVE  HuntInv'
<1>1. Books'
  BY RestingRuns, BooksKept
<1>2. NoHunt \notin Hunt /\ HuntTypeOK /\ \A d \in Call : CallFits(d)
  BY HuntConstants DEF HuntInv
<1>3. ASSUME NEW d \in Call PROVE CallFits(d)'
  <2>1. CASE d = c
    BY <1>2, <2>1 DEF CallFits, QuietHunts
  <2>2. CASE d # c
    <3>1. call'[d] = call[d] /\ (call[d].step # "idle" => call[d].hunt \in Hunt)
      BY <1>2, <2>2 DEF OtherCalls, HuntTypeOK
    <3>2. ASSUME call[d].step = "counted", NEW e \in Call \ {d}
          PROVE  call'[e].hunt # call[d].hunt
      <4>1. CASE e = c
        BY <1>2, <2>2, <3>1, <3>2, <4>1 DEF CallFits
      <4>2. CASE e # c
        BY <1>2, <3>2, <4>2 DEF CallFits, OtherCalls
      <4> QED BY <4>1, <4>2
    <3> QED BY <1>2, <3>1, <3>2 DEF CallFits, QuietHunts
  <2> QED BY <2>1, <2>2
<1>4. ASSUME NEW g \in Hunt PROVE Attends(g)
  <2>1. CASE g = h
    <3>1. CASE hunt'[h].status # "HUNTING" \/ Attended(h)'
      BY <2>1, <3>1 DEF Attends
    <3>2. CASE /\ call[c].step \notin {"created", "resumed"}
               /\ hunt[h].status = "HUNTING"
               /\ h \in stranded => jobs'[h] > 0 \/ h \in stranded'
      <4>1. Attended(h) => Attended(h)'
        BY <3>2 DEF Attended, OtherCalls
      <4> QED BY <2>1, <3>2, <4>1 DEF Attends
    <3> QED BY <3>1, <3>2
  <2>2. CASE g # h
    <3>1. Attended(g) => Attended(g)'
      BY <2>2 DEF Attended, OtherCalls
    <3>2. hunt'[g] = hunt[g]
      BY <2>2 DEF OtherHunts
    <3> QED BY <3>1, <3>2 DEF Attends
  <2> QED BY <2>1, <2>2
<1> QED BY <1>1, <1>3, <1>4, Finish

\* A run goes on or ends.
LEMMA RunMoves ==
    ASSUME HuntInv, HuntTypeOK', Books', NEW w \in Worker, NEW h \in Hunt,
           NoneInserted, UNCHANGED call, OtherRuns(w), OtherHunts(h),
           run[w].hunt \in {h, NoHunt},
           \A g \in Hunt \ {h} : jobs[g] > 0 => jobs'[g] > 0,
           \A g \in Hunt \ {h} : g \in stranded => g \in stranded',
           hunt'[h].status # "HUNTING" \/ Attended(h)'
    PROVE  HuntInv'
<1>1. \A c \in Call : CallFits(c)'
  BY DEF HuntInv, HuntTypeOK, CallFits, NoneInserted
<1>2. ASSUME NEW g \in Hunt PROVE Attends(g)
  <2>1. CASE g = h
    BY <2>1 DEF Attends
  <2>2. CASE g # h
    <3>1. g # NoHunt
      BY HuntConstants
    <3>2. Attended(g) => Attended(g)'
      BY <2>2, <3>1 DEF Attended, OtherRuns
    <3>3. hunt'[g] = hunt[g]
      BY <2>2 DEF OtherHunts
    <3> QED BY <3>2, <3>3 DEF Attends
  <2> QED BY <2>1, <2>2
<1> QED BY <1>1, <1>2, Finish

-----------------------------------------------------------------------------
(* Requests.                                                               *)

LEMMA AskKeeps ==
    ASSUME HuntInv, NEW c \in Call, NEW h \in Hunt, Ask(c, h)
    PROVE  HuntInv'
<1>1. HuntTypeOK
  BY DEF HuntInv
<1>2. UNCHANGED <<hunt, jobs, run, bookings, stranded, overlap, uncounted, crashes>>
  BY DEF Ask, CountActive, BeginPause, BeginResume, BeginCancel, BeginRunNow, Begin, SameQueue, ghosts
<1>3. QuietHunts /\ OtherHunts(h) /\ (\A w \in Worker : QuietRun(w))
  BY <1>2, RestingRuns DEF QuietHunts, OtherHunts
<1>4. CASE CountActive(c, h)
  <2>1. /\ call[c].step = "idle" /\ hunt[h].status = "none"
        /\ (\A d \in Call : call[d].hunt # h) /\ CallGoes(c, h, "counted")
    BY <1>4 DEF CountActive
  <2>2. /\ call' \in [Call -> CallRow] /\ call'[c].step = "counted" /\ call'[c].hunt = h
        /\ OtherCalls(c)
    BY <1>1, <2>1, CallGoing DEF CallStep
  <2>3. HuntTypeOK'
    BY <1>1, <1>2, <2>2 DEF HuntTypeOK, CallRow, OtherCalls
  <2>4. ASSUME NEW d \in Call PROVE CallFits(d)'
    <3>1. CASE d = c
      BY <1>2, <2>1, <2>2, <3>1 DEF CallFits, OtherCalls
    <3>2. CASE d # c
      BY <1>2, <2>1, <2>2, <3>2 DEF HuntInv, CallFits, OtherCalls
    <3> QED BY <3>1, <3>2
  <2>5. ASSUME NEW g \in Hunt PROVE Attends(g)
    <3>1. Attended(g) => Attended(g)'
      BY <1>2, <2>1, <2>2 DEF Attended, OtherCalls
    <3> QED BY <1>2, <3>1 DEF Attends
  <2> QED BY <1>3, <2>3, <2>4, <2>5, BooksKept, Finish
<1>5. ASSUME NEW step \in {"pausing", "resuming", "cancelling", "hurrying"},
             NEW from \in SUBSET (Status \ {"none"}), Begin(c, h, step, from)
      PROVE  HuntInv'
  <2>1. call[c].step = "idle" /\ hunt[h].status # "none" /\ CallGoes(c, h, step)
    BY <1>5 DEF Begin
  <2>2. /\ call' \in [Call -> CallRow] /\ call'[c].step = step /\ call'[c].hunt = h
        /\ OtherCalls(c)
    BY <1>1, <2>1, CallGoing DEF CallStep
  <2>3. HuntTypeOK'
    BY <1>1, <1>2, <2>2 DEF HuntTypeOK, CallRow, OtherCalls
  <2>4. hunt'[h].status # "HUNTING" \/ hunt[h].status = "HUNTING"
    BY <1>2
  <2> QED BY <1>2, <1>3, <2>1, <2>2, <2>3, <2>4, RequestMoves
<1> QED
  BY <1>4, <1>5 DEF Ask, BeginPause, BeginResume, BeginCancel, BeginRunNow, Status

LEMMA InsertKeeps ==
    ASSUME HuntInv, NEW c \in Call, Insert(c)
    PROVE  HuntInv'
<1>1. HuntTypeOK /\ \A d \in Call : CallFits(d)
  BY DEF HuntInv
<1> PICK h \in Hunt : h = call[c].hunt
  BY <1>1 DEF Insert, HuntTypeOK
<1> PICK auto \in BOOLEAN :
      hunt' = [hunt EXCEPT ![h] = [NoRow EXCEPT !.status = "HUNTING", !.auto = auto]]
  BY DEF Insert
<1> DEFINE row == [NoRow EXCEPT !.status = "HUNTING", !.auto = auto]
<1>2. NoRow \in Row /\ NoRow.used = 0
  BY RowsTyped
<1>3. row \in Row /\ row.status = "HUNTING" /\ row.used = 0
  BY <1>2, RowIsInserted
<1>4. hunt' = [hunt EXCEPT ![h] = row]
  OBVIOUS
<1> HIDE DEF row
<1>5. /\ call[c].step = "counted" /\ CallGoes(c, h, "created")
      /\ UNCHANGED <<jobs, stranded, run, bookings, overlap, uncounted, crashes>>
  BY DEF Insert, SameQueue, ghosts
<1>6. /\ hunt' \in [Hunt -> Row] /\ hunt'[h].status = "HUNTING" /\ hunt'[h].used = 0
      /\ OtherHunts(h)
  BY <1>1, <1>3, <1>4, RowWritten
<1>7. /\ call' \in [Call -> CallRow] /\ call'[c].step = "created" /\ call'[c].hunt = h
      /\ OtherCalls(c)
  BY <1>1, <1>5, CallGoing DEF CallStep
<1>8. HuntTypeOK'
  BY <1>1, <1>5, <1>6, <1>7 DEF HuntTypeOK, CallRow, OtherCalls
\* The hunt was never booked for, and no run or other request knows it.
<1>9. /\ hunt[h].status = "none" /\ hunt[h].used = 0
      /\ \A d \in Call \ {c} : call[d].hunt # h
  BY <1>1, <1>5 DEF HuntInv, CallFits, Untouched
<1>10. /\ \A g \in Hunt : hunt'[g].used = hunt[g].used
       /\ \A g \in Hunt \ {h} : hunt'[g] = hunt[g]
  BY <1>6, <1>9 DEF OtherHunts
<1>11. Books'
  <2>1. \A w \in Worker : RunFits(w)'
    BY <1>5, <1>6, <1>9, <1>10 DEF HuntInv, RunFits, HuntTypeOK
  <2>2. \A g \in Hunt : Untouched(g)'
    BY <1>5, <1>6, <1>10 DEF HuntInv, Untouched
  <2>3. \A g \in Hunt : Solo(g)'
    BY <1>5, <1>10 DEF HuntInv, Solo, RunsOf
  <2>4. HoldsAreCounted'
    BY <1>5, <1>10 DEF HuntInv, HoldsAreCounted, RunsOf
  <2>5. ExtraHoldMeansOverlap'
    BY <1>5 DEF HuntInv, ExtraHoldMeansOverlap
  <2> QED BY <2>1, <2>2, <2>3, <2>4, <2>5 DEF Books
<1>12. ASSUME NEW d \in Call PROVE CallFits(d)'
  <2>1. CASE d = c
    BY <1>6, <1>7, <2>1 DEF CallFits
  <2>2. CASE d # c
    <3>1. call'[d] = call[d] /\ call[d].hunt # h
      BY <1>7, <1>9, <2>2 DEF OtherCalls
    <3>2. call[d].step # "idle" => call[d].hunt \in Hunt \ {h}
      BY <1>1, <3>1 DEF HuntTypeOK
    <3>3. \A e \in Call : call'[e].hunt = call[e].hunt
      BY <1>7 DEF OtherCalls
    <3> QED BY <1>1, <1>10, <3>1, <3>2, <3>3 DEF CallFits
  <2> QED BY <2>1, <2>2
<1>13. ASSUME NEW g \in Hunt PROVE Attends(g)
  <2>1. CASE g = h
    <3>1. Attended(h)'
      BY <1>7 DEF Attended
    <3> QED BY <2>1, <3>1 DEF Attends
  <2>2. CASE g # h
    <3>1. Attended(g) => Attended(g)'
      BY <1>5, <1>7 DEF Attended, OtherCalls
    <3> QED BY <1>10, <2>2, <3>1 DEF Attends
  <2> QED BY <2>1, <2>2
<1> QED BY <1>8, <1>11, <1>12, <1>13, Finish

\* The hunt of a request that got past its first statement was inserted.
LEMMA RequestKnows ==
    ASSUME HuntInv, NEW c \in Call, call[c].step \notin {"idle", "counted"}
    PROVE  call[c].hunt \in Hunt /\ hunt[call[c].hunt].status # "none"
    BY DEF HuntInv, HuntTypeOK, CallFits

LEMMA ServeKeeps ==
    ASSUME HuntInv, NEW c \in Call, Serve(c) \/ CallDies(c)
    PROVE  HuntInv'
<1>1. HuntTypeOK
  BY DEF HuntInv
<1>2. CASE Insert(c)
  BY <1>2, InsertKeeps
<1> PICK h \in Hunt : h = call[c].hunt
  BY <1>1 DEF HuntTypeOK, Serve, Insert, EnqueueFirst, Undo, Pause, Cancel, Resume, Refuse, Enqueue,
              CallDies
\* The request ends, or goes on with its hunt, and leaves the row as it was.
<1>3. ASSUME UNCHANGED <<hunt, run, bookings, overlap, uncounted>>,
             crashes' \in 0..MaxCrashes, call[c].step # "idle",
             \/ CallEnds(c)
             \/ CallGoes(c, h, "undoing") /\ call[c].step \notin {"idle", "counted"},
             Enqueued(h) \/ Lost(h) \/ (SameQueue /\ call[c].step \notin {"created", "resumed"})
      PROVE  HuntInv'
  <2>2. /\ call' \in [Call -> CallRow] /\ OtherCalls(c)
        /\ \/ call'[c].step = "idle" /\ call'[c].hunt = NoHunt
           \/ /\ call'[c].step = "undoing" /\ call'[c].hunt = h
              /\ call[c].step \notin {"idle", "counted"}
    BY <1>1, <1>3, CallEnding, CallGoing DEF CallStep
  <2>3. /\ jobs' \in [Hunt -> Nat] /\ stranded' \subseteq Hunt
        /\ \A g \in Hunt : jobs[g] > 0 => jobs'[g] > 0
        /\ \A g \in Hunt \ {h} : g \in stranded => g \in stranded'
        /\ h \in stranded => jobs'[h] > 0 \/ h \in stranded'
        /\ Enqueued(h) \/ Lost(h) => jobs'[h] > 0 \/ h \in stranded'
    BY <1>1, <1>3, QueueWritten
  <2>4. HuntTypeOK'
    BY <1>1, <1>3, <2>2, <2>3 DEF HuntTypeOK, CallRow, OtherCalls
  <2>5. \/ hunt'[h].status # "HUNTING" \/ Attended(h)'
        \/ /\ call[c].step \notin {"created", "resumed"} /\ hunt[h].status = "HUNTING"
           /\ h \in stranded => jobs'[h] > 0 \/ h \in stranded'
    BY <1>3, <2>3 DEF Attended
  <2>6. \/ call'[c].step = "idle" /\ call'[c].hunt = NoHunt
        \/ /\ call'[c].step \notin {"idle", "counted"}
           /\ call'[c].hunt \in Hunt /\ hunt[call'[c].hunt].status # "none"
    BY <2>2, RequestKnows
  <2>7. QuietHunts /\ OtherHunts(h)
    BY <1>3 DEF QuietHunts, OtherHunts
  <2> QED BY <1>3, <2>2, <2>3, <2>4, <2>5, <2>6, <2>7, RequestMoves
<1>4. CASE EnqueueFirst(c)
  <2>1. /\ UNCHANGED <<hunt, run, bookings, overlap, uncounted, crashes>>
        /\ call[c].step = "created"
        /\ CallEnds(c) \/ CallGoes(c, h, "undoing")
        /\ Enqueued(h) \/ Lost(h)
    BY <1>4 DEF EnqueueFirst, ghosts
  <2>2. crashes' \in 0..MaxCrashes
    BY <1>1, <2>1 DEF HuntTypeOK
  <2> QED BY <1>3, <2>1, <2>2
<1>5. CASE Refuse(c)
  <2>1. /\ UNCHANGED <<hunt, run, bookings, overlap, uncounted, crashes>>
        /\ call[c].step \notin {"idle", "created", "resumed"} /\ CallEnds(c) /\ SameQueue
    BY <1>5 DEF Refuse, ghosts
  <2>2. crashes' \in 0..MaxCrashes
    BY <1>1, <2>1 DEF HuntTypeOK
  <2> QED BY <1>3, <2>1, <2>2
<1>6. CASE Enqueue(c)
  <2>1. /\ UNCHANGED <<hunt, run, bookings, overlap, uncounted, crashes>>
        /\ call[c].step \in {"resumed", "hurrying"} /\ CallEnds(c)
        /\ \/ Enqueued(h) \/ Lost(h)
           \/ SameQueue /\ call[c].step = "hurrying"
    BY <1>6 DEF Enqueue, MustEnqueue, ghosts
  <2>2. crashes' \in 0..MaxCrashes
    BY <1>1, <2>1 DEF HuntTypeOK
  <2> QED BY <1>3, <2>1, <2>2
<1>7. CASE CallDies(c)
  <2>1. /\ UNCHANGED <<hunt, run, bookings, overlap, uncounted>>
        /\ call[c].step # "idle" /\ CallEnds(c)
        /\ Lost(h) \/ (SameQueue /\ call[c].step \notin {"created", "resumed"})
    BY <1>7 DEF CallDies
  <2>2. crashes' \in 0..MaxCrashes
    BY <1>1, <1>7, HuntConstants DEF HuntTypeOK, CallDies
  <2> QED BY <1>3, <2>1, <2>2
\* The request writes a status.
<1>8. ASSUME NEW status \in Status \ {"none"}, SetStatus(h, status), SameQueue,
             UNCHANGED <<run, bookings, overlap, uncounted, crashes>>,
             \/ CallEnds(c) /\ status # "HUNTING"
             \/ CallGoes(c, h, "resumed"),
             call[c].step \in {"undoing", "pausing", "cancelling", "resuming"}
      PROVE  HuntInv'
  <2>1. h \in Hunt /\ hunt[h].status # "none"
    BY <1>8, RequestKnows
  <2>2. /\ call' \in [Call -> CallRow] /\ OtherCalls(c)
        /\ \/ call'[c].step = "idle" /\ call'[c].hunt = NoHunt /\ status # "HUNTING"
           \/ call'[c].step = "resumed" /\ call'[c].hunt = h
    BY <1>1, <1>8, <2>1, CallEnding, CallGoing DEF CallStep
  <2>3. /\ hunt' \in [Hunt -> Row] /\ OtherHunts(h)
        /\ hunt'[h].status = status /\ hunt'[h].used = hunt[h].used
    BY <1>1, <1>8, <2>1, StatusWritten
  <2>4. HuntTypeOK'
    BY <1>1, <1>8, <2>1, <2>2, <2>3 DEF HuntTypeOK, CallRow, OtherCalls, SameQueue
  <2>5. hunt'[h].status # "HUNTING" \/ Attended(h)'
    BY <2>2, <2>3 DEF Attended
  <2>6. QuietHunts
    BY <1>8, <2>1, <2>3 DEF QuietHunts, OtherHunts
  <2>7. \/ call'[c].step = "idle" /\ call'[c].hunt = NoHunt
        \/ /\ call'[c].step \notin {"idle", "counted"}
           /\ call'[c].hunt \in Hunt /\ hunt[call'[c].hunt].status # "none"
    BY <2>1, <2>2
  <2>8. UNCHANGED <<run, jobs, stranded>> /\ call[c].step \notin {"created", "resumed"}
    BY <1>8 DEF SameQueue
  <2> QED BY <2>1, <2>2, <2>3, <2>4, <2>5, <2>6, <2>7, <2>8, RequestMoves
<1>9. CASE Pause(c)
  <2>1. "PAUSED" \in Status \ {"none"}
    BY DEF Status
  <2> QED BY <1>8, <1>9, <2>1 DEF Pause, ghosts
<1>10. CASE Cancel(c)
  <2>1. "CANCELLED" \in Status \ {"none"}
    BY DEF Status
  <2> QED BY <1>8, <1>10, <2>1 DEF Cancel, ghosts
<1>11. CASE Resume(c)
  <2>1. "HUNTING" \in Status \ {"none"}
    BY DEF Status
  <2> QED BY <1>8, <1>11, <2>1 DEF Resume, ghosts
<1>12. CASE Undo(c)
  <2>1. /\ call[c].step = "undoing" /\ CallEnds(c) /\ SameQueue
        /\ UNCHANGED <<run, bookings, overlap, uncounted, crashes>>
        /\ hunt' = hunt \/ SetStatus(h, "deleted")
    BY <1>12 DEF Undo, Undone, SetStatus, ghosts
  <2>2. "deleted" \in Status \ {"none"} /\ crashes' \in 0..MaxCrashes
    BY <1>1, <2>1 DEF Status, HuntTypeOK
  <2>3. CASE hunt' = hunt
    BY <1>3, <2>1, <2>2, <2>3
  <2>4. CASE SetStatus(h, "deleted")
    BY <1>8, <2>1, <2>2, <2>4
  <2> QED BY <2>1, <2>3, <2>4
<1> QED BY <1>2, <1>4, <1>5, <1>6, <1>7, <1>9, <1>10, <1>11, <1>12 DEF Serve

-----------------------------------------------------------------------------
(* Runs.                                                                   *)

\* A row changes, or a job of it is skipped, while no request and no run moves.
LEMMA RowKeeps ==
    ASSUME HuntInv, NEW h \in Hunt,
           Toggle(h) \/ LeavesHeld(h) \/ \E w \in Worker : Skip(w, h)
    PROVE  HuntInv'
<1>1. HuntTypeOK
  BY DEF HuntInv
<1>2. UNCHANGED <<run, call, bookings, stranded, overlap, uncounted, crashes>>
  BY DEF Toggle, LeavesHeld, Skip, SameQueue, ghosts
<1>3. /\ hunt' \in [Hunt -> Row] /\ OtherHunts(h)
      /\ hunt'[h].status = hunt[h].status /\ hunt'[h].used = hunt[h].used
  <2>1. hunt[h] \in Row
    BY <1>1 DEF HuntTypeOK
  <2>2. CASE Toggle(h)
    <3> DEFINE row == [hunt[h] EXCEPT !.auto = ~hunt[h].auto]
    <3>1. (~hunt[h].auto) \in BOOLEAN
      OBVIOUS
    <3>2. row \in Row /\ row.status = hunt[h].status /\ row.used = hunt[h].used
      BY <2>1, <3>1, RowIsToggled
    <3>3. hunt' = [hunt EXCEPT ![h] = row]
      BY <2>2 DEF Toggle
    <3> HIDE DEF row
    <3> QED BY <1>1, <3>2, <3>3, RowWritten
  <2>3. CASE LeavesHeld(h)
    <3> DEFINE row == [hunt[h] EXCEPT !.lastHeld = FALSE]
    <3>1. row \in Row /\ row.status = hunt[h].status /\ row.used = hunt[h].used
      BY <2>1, RowIsToggled
    <3>2. hunt' = [hunt EXCEPT ![h] = row]
      BY <2>3 DEF LeavesHeld
    <3> HIDE DEF row
    <3> QED BY <1>1, <3>1, <3>2, RowWritten
  <2>4. CASE \E w \in Worker : Skip(w, h)
    BY <1>1, <2>4 DEF Skip, OtherHunts, HuntTypeOK
  <2> QED BY <2>2, <2>3, <2>4
<1>4. /\ jobs' \in [Hunt -> Nat] /\ \A g \in Hunt \ {h} : jobs'[g] = jobs[g]
      /\ hunt[h].status = "HUNTING" => jobs' = jobs
  BY <1>1 DEF Toggle, LeavesHeld, Skip, SameQueue, HuntTypeOK
<1>5. HuntTypeOK'
  BY <1>1, <1>2, <1>3, <1>4 DEF HuntTypeOK
<1>6. QuietHunts
  BY <1>2, <1>3 DEF QuietHunts, OtherHunts
<1>7. Books'
  BY <1>2, <1>5, <1>6, RestingRuns, BooksKept
<1>8. \A c \in Call : CallFits(c)'
  BY <1>1, <1>2, <1>6 DEF HuntInv, CallFits, QuietHunts, HuntTypeOK
<1>9. ASSUME NEW g \in Hunt PROVE Attends(g)
  BY <1>2, <1>3, <1>4 DEF Attends, Attended, OtherHunts
<1> QED BY <1>5, <1>7, <1>8, <1>9, Finish

\* A run goes on, or ends, without booking or counting.
LEMMA QuietRunMoves ==
    ASSUME HuntInv, NEW w \in Worker, NEW h \in Hunt, run[w].hunt = h, run[w].step # "idle",
           run' \in [Worker -> RunRow], OtherRuns(w), QuietRun(w),
           hunt' \in [Hunt -> Row], OtherHunts(h),
           hunt'[h].used = hunt[h].used,
           hunt'[h].status = "none" <=> hunt[h].status = "none",
           Enqueued(h) \/ Lost(h) \/ SameQueue,
           \/ hunt'[h].status # "HUNTING"
           \/ run'[w].hunt = h
           \/ Enqueued(h) \/ Lost(h),
           UNCHANGED <<call, bookings, uncounted, overlap>>, crashes' \in 0..MaxCrashes
    PROVE  HuntInv'
<1>1. HuntTypeOK
  BY DEF HuntInv
<1>2. /\ jobs' \in [Hunt -> Nat] /\ stranded' \subseteq Hunt
      /\ \A g \in Hunt : jobs[g] > 0 => jobs'[g] > 0
      /\ \A g \in Hunt \ {h} : g \in stranded => g \in stranded'
      /\ Enqueued(h) \/ Lost(h) => jobs'[h] > 0 \/ h \in stranded'
  BY <1>1, QueueWritten
<1>3. \A v \in Worker : QuietRun(v)
  BY DEF HuntInv, RunFits, OtherRuns, QuietRun
<1>4. HuntTypeOK'
  <2>1. \A v \in Worker : run'[v].step # "idle" => run'[v].hunt \in Hunt
    BY <1>1, <1>3 DEF HuntTypeOK, QuietRun
  <2> QED BY <1>1, <1>2, <2>1 DEF HuntTypeOK, RunRow
<1>5. QuietHunts /\ NoneInserted
  BY DEF QuietHunts, NoneInserted, OtherHunts
<1>6. Books'
  BY <1>3, <1>4, <1>5, BooksKept
<1>7. hunt'[h].status # "HUNTING" \/ Attended(h)'
  BY <1>2 DEF Attended
<1> QED BY <1>2, <1>4, <1>5, <1>6, <1>7, RunMoves

\* A run of an inserted hunt.
LEMMA RunKnows ==
    ASSUME HuntInv, NEW w \in Worker, run[w].step # "idle"
    PROVE  run[w].hunt \in Hunt /\ hunt[run[w].hunt].status # "none"
    BY DEF HuntInv, HuntTypeOK, RunFits

\* The steps of a run that leave the row alone, and go on.
LEMMA RunsOn ==
    ASSUME HuntInv, NEW w \in Worker,
           \/ NoHeadroom(w) \/ MissTarget(w) \/ HitTarget(w) \/ Decide(w) \/ HoldRejected(w)
           \/ Throw(w) /\ run[w].step # "held"
    PROVE  HuntInv'
<1>1. HuntTypeOK
  BY DEF HuntInv
<1> PICK h \in Hunt : h = run[w].hunt
  BY <1>1 DEF HuntTypeOK, NoHeadroom, MissTarget, HitTarget, Decide, HoldRejected, Throw
<1>2. /\ UNCHANGED <<hunt, call, bookings, uncounted, overlap, crashes>> /\ SameQueue
      /\ run[w].step \notin {"idle", "held"}
      /\ \/ RunGoesFor(w, "rescheduling", "HUNTING") \/ RunGoesFor(w, "ending", "HUNTING")
         \/ RunGoesFor(w, "ending", "FOUND") \/ RunGoesFor(w, "failing", "HUNTING")
         \/ RunGoes(w, "deciding") /\ run[w].step = "scanning"
         \/ RunGoes(w, "holding") /\ run[w].step = "deciding" /\ run[w].used < MaxHolds
  BY DEF NoHeadroom, MissTarget, HitTarget, Decide, MayHold, HoldRejected, Throw, ghosts
<1>3. /\ run' \in [Worker -> RunRow] /\ run'[w].hunt = h /\ OtherRuns(w)
      /\ \/ run'[w].step \in {"rescheduling", "ending", "failing"}
         \/ /\ run'[w].step = "deciding" /\ run[w].step = "scanning"
            /\ run'[w].used = run[w].used
         \/ /\ run'[w].step = "holding" /\ run[w].step = "deciding"
            /\ run'[w].used = run[w].used /\ run[w].used < MaxHolds
  BY <1>1, <1>2, RunGoing, RunForgetting DEF RunStep
<1>4. QuietRun(w)
  BY <1>2, <1>3 DEF QuietRun, Early
<1>5. hunt' \in [Hunt -> Row] /\ OtherHunts(h) /\ crashes' \in 0..MaxCrashes
  BY <1>1, <1>2 DEF HuntTypeOK, OtherHunts
<1> QED BY <1>2, <1>3, <1>4, <1>5, QuietRunMoves

\* The steps that end a scan, well or not.
LEMMA ScanEnds ==
    ASSUME HuntInv, NEW w \in Worker, End(w) \/ EndThrows(w) \/ Failed(w)
    PROVE  HuntInv'
<1>1. HuntTypeOK
  BY DEF HuntInv
<1> PICK h \in Hunt : h = run[w].hunt
  BY <1>1 DEF HuntTypeOK, End, EndThrows, Failed
<1>2. hunt[h] \in Row /\ hunt[h].status \in Status /\ run[w] \in RunRow
  BY <1>1 DEF HuntTypeOK, Row, RunRow
<1>3. /\ UNCHANGED <<call, bookings, uncounted, overlap, crashes>> /\ SameQueue
      /\ run[w].step \in {"ending", "failing"} /\ hunt[h].status # "none"
  BY DEF End, EndThrows, Failed, Exists, ghosts
\* The status the run leaves, and whether the run goes on.
<1>4. PICK n \in 0..Threshold, status \in Status :
        /\ hunt' = [hunt EXCEPT ![h] = Scanned(hunt[h], n, status)]
        /\ status # "none"
        /\ \/ RunGoes(w, "scheduling")
           \/ RunGoesFor(w, "failing", "HUNTING") \/ RunGoesFor(w, "rescheduling", "HUNTING")
           \/ RunEnds(w) /\ status # "HUNTING"
  <2> DEFINE next == IF run[w].next = "HUNTING" THEN hunt[run[w].hunt].status ELSE run[w].next
  <2>1. next \in Status /\ next # "none" /\ 0 \in 0..Threshold
    BY <1>2, <1>3, HuntConstants DEF RunRow, Status
  <2>2. CASE End(w)
    <3>1. /\ hunt' = [hunt EXCEPT ![h] = Scanned(hunt[h], 0, next)]
          /\ \/ RunGoes(w, "scheduling")
             \/ RunEnds(w) /\ run[w].next # "HUNTING"
      BY <2>2 DEF End, Scanned
    <3>2. run[w].next # "HUNTING" => next # "HUNTING"
      OBVIOUS
    <3> HIDE DEF next
    <3> QED BY <2>1, <3>1, <3>2
  <2>3. CASE EndThrows(w)
    <3>1. /\ hunt' = [hunt EXCEPT ![h] = Scanned(hunt[h], 0, next)]
          /\ RunGoesFor(w, "failing", "HUNTING")
      BY <2>3 DEF EndThrows, Scanned
    <3> HIDE DEF next
    <3> QED BY <2>1, <3>1
  <2>4. CASE Failed(w)
    <3> DEFINE n == NextStreak(run[w].streak)
               status == IF n >= Threshold THEN "PAUSED" ELSE hunt[h].status
    <3>1. n \in 0..Threshold
      BY <1>2, HuntConstants DEF NextStreak, RunRow
    <3>2. /\ hunt' = [hunt EXCEPT ![h] = Scanned(hunt[h], n, status)]
          /\ \/ RunEnds(w) /\ n >= Threshold
             \/ RunGoesFor(w, "rescheduling", "HUNTING")
      BY <2>4 DEF Failed, Scanned
    <3>3. status \in Status /\ status # "none" /\ (n >= Threshold => status # "HUNTING")
      BY <1>2, <1>3 DEF Status
    <3> HIDE DEF n, status
    <3> QED BY <3>1, <3>2, <3>3
  <2> QED BY <2>2, <2>3, <2>4
<1>5. /\ hunt' \in [Hunt -> Row] /\ OtherHunts(h)
      /\ hunt'[h].status = status /\ hunt'[h].used = hunt[h].used
  <2> DEFINE row == Scanned(hunt[h], n, status)
  <2>1. row \in Row /\ row.status = status /\ row.used = hunt[h].used
    BY <1>2, RowIsScanned
  <2>2. hunt' = [hunt EXCEPT ![h] = row]
    BY <1>4
  <2> HIDE DEF row
  <2> QED BY <1>1, <2>1, <2>2, RowWritten
<1>6. /\ run' \in [Worker -> RunRow] /\ OtherRuns(w)
      /\ \/ run'[w].hunt = h /\ run'[w].step \in {"scheduling", "failing", "rescheduling"}
         \/ run'[w].hunt = NoHunt /\ run'[w].step = "idle" /\ status # "HUNTING"
  BY <1>1, <1>3, <1>4, RunGoing, RunForgetting, RunEnding DEF RunStep
<1>7. QuietRun(w)
  BY <1>3, <1>6 DEF QuietRun, Early
<1>8. crashes' \in 0..MaxCrashes
  BY <1>1, <1>3 DEF HuntTypeOK
<1> QED BY <1>3, <1>4, <1>5, <1>6, <1>7, <1>8, QuietRunMoves

\* The steps that end a run with its job, or without.
LEMMA RunEndsQuietly ==
    ASSUME HuntInv, NEW w \in Worker,
           \/ EnqueueNext(w) \/ JobFails(w)
           \/ WorkerDies(w) /\ run[w].step # "held"
    PROVE  HuntInv'
<1>1. HuntTypeOK
  BY DEF HuntInv
<1> PICK h \in Hunt : h = run[w].hunt
  BY <1>1 DEF HuntTypeOK, EnqueueNext, JobFails, WorkerDies
<1>2. /\ UNCHANGED <<hunt, call, bookings, uncounted, overlap>>
      /\ run[w].step \notin {"idle", "held"} /\ RunEnds(w)
      /\ Enqueued(h) \/ Lost(h)
  BY DEF EnqueueNext, Schedules, JobFails, WorkerDies, ghosts
<1>3. crashes' \in 0..MaxCrashes
  BY <1>1, HuntConstants DEF HuntTypeOK, EnqueueNext, JobFails, WorkerDies, ghosts
<1>4. /\ run' \in [Worker -> RunRow] /\ OtherRuns(w)
      /\ run'[w].step = "idle" /\ run'[w].hunt = NoHunt
  BY <1>1, <1>2, RunEnding
<1>5. QuietRun(w)
  BY <1>2, <1>4 DEF QuietRun
<1>6. hunt' \in [Hunt -> Row] /\ OtherHunts(h)
  BY <1>1, <1>2 DEF HuntTypeOK, OtherHunts
<1> QED BY <1>2, <1>3, <1>4, <1>5, <1>6, QuietRunMoves

-----------------------------------------------------------------------------
(* The steps that book and count.                                          *)

LEMMA HeldIsFinite ==
    \A h : IsFiniteSet(Held(h)) /\ Cardinality(Held(h)) \in Nat
<1> SUFFICES ASSUME NEW h PROVE IsFiniteSet(Held(h)) /\ Cardinality(Held(h)) \in Nat
  OBVIOUS
<1>1. Held(h) \subseteq Worker /\ IsFiniteSet(Worker)
  BY HuntConstants DEF Held, RunsOf
<1> QED BY <1>1, FS_Subset, FS_CardinalityType

\* A job is taken: the snapshot is fresh, and the hunt overlaps if it has a run.
LEMMA LoadKeeps ==
    ASSUME HuntInv, NEW w \in Worker, NEW h \in Hunt, Load(w, h)
    PROVE  HuntInv'
<1>1. /\ HuntTypeOK /\ NoHunt \notin Hunt
      /\ \A v \in Worker : RunFits(v)
      /\ \A g \in Hunt : Untouched(g) /\ Solo(g)
      /\ HoldsAreCounted /\ ExtraHoldMeansOverlap
  BY HuntConstants DEF HuntInv
<1>2. /\ run[w].step = "idle" /\ run[w].hunt = NoHunt /\ hunt[h].status = "HUNTING"
      /\ UNCHANGED <<hunt, call, bookings, stranded, uncounted, crashes>>
      /\ jobs[h] > 0 /\ jobs' = [jobs EXCEPT ![h] = @ - 1]
      /\ overlap' = IF RunsOf(h) # {} THEN overlap \cup {h} ELSE overlap
  BY <1>1 DEF Load, RunFits
<1>3. /\ run' \in [Worker -> RunRow] /\ OtherRuns(w)
      /\ run'[w].step = "scanning" /\ run'[w].hunt = h /\ run'[w].used = hunt[h].used
  <2> DEFINE q == [step |-> "scanning", hunt |-> h, streak |-> hunt[h].streak,
                   used |-> hunt[h].used, auto |-> hunt[h].auto, next |-> "HUNTING"]
  <2>1. q \in RunRow
    BY <1>1 DEF RunRow, RunStep, HuntTypeOK, Row
  <2>2. run' = [run EXCEPT ![w] = q] /\ run \in [Worker -> RunRow]
    BY <1>1 DEF Load, HuntTypeOK, RunRow
  <2>3. q.step = "scanning" /\ q.hunt = h /\ q.used = hunt[h].used
    OBVIOUS
  <2> HIDE DEF q
  <2> QED BY <2>1, <2>2, <2>3 DEF OtherRuns
<1>4. HuntTypeOK'
  BY <1>1, <1>2, <1>3 DEF HuntTypeOK, RunRow, OtherRuns
<1>5. \A v \in Worker : RunFits(v)'
  BY <1>1, <1>2, <1>3 DEF RunFits, OtherRuns
<1>6. ASSUME NEW g \in Hunt PROVE RunsOf(g)' = IF g = h THEN RunsOf(g) \cup {w} ELSE RunsOf(g)
  BY <1>1, <1>2, <1>3 DEF RunsOf, OtherRuns
<1>7. ASSUME NEW g \in Hunt PROVE Solo(g)'
  <2>1. CASE g = h
    <3> SUFFICES ASSUME h \notin overlap' PROVE Solo(h)'
      BY <2>1 DEF Solo
    <3>1. RunsOf(h)' = {w}
      BY <1>2, <1>6
    <3> QED BY <1>2, <1>3, <3>1 DEF Solo
  <2>2. CASE g # h
    <3>1. RunsOf(g)' = RunsOf(g) /\ w \notin RunsOf(g)
      BY <1>1, <1>2, <1>6, <2>2 DEF RunsOf
    <3>2. \A v \in RunsOf(g) : run'[v] = run[v]
      BY <1>3, <3>1 DEF RunsOf, OtherRuns
    <3>3. g \in overlap <=> g \in overlap'
      BY <1>2, <2>2
    <3> QED BY <1>1, <1>2, <3>1, <3>2, <3>3 DEF Solo
  <2> QED BY <2>1, <2>2
<1>8. ASSUME NEW g \in Hunt PROVE Held(g)' = Held(g)
  <2>1. ASSUME NEW v \in Worker PROVE v \in Held(g)' <=> v \in Held(g)
    BY <1>2, <1>3 DEF Held, RunsOf, OtherRuns
  <2> QED BY <2>1 DEF Held, RunsOf
<1>9. HoldsAreCounted'
  BY <1>1, <1>2, <1>8 DEF HoldsAreCounted, Held
<1>10. ExtraHoldMeansOverlap'
  BY <1>1, <1>2 DEF ExtraHoldMeansOverlap
<1>11. Books'
  BY <1>1, <1>2, <1>5, <1>7, <1>9, <1>10 DEF Books, Untouched
<1>12. Attended(h)'
  BY <1>3 DEF Attended
<1>13. NoneInserted /\ OtherHunts(h) /\ \A g \in Hunt \ {h} : jobs'[g] = jobs[g]
  BY <1>1, <1>2 DEF NoneInserted, OtherHunts, HuntTypeOK
<1> QED BY <1>2, <1>3, <1>4, <1>11, <1>12, <1>13, RunMoves

\* A run that did not overlap another holds within the limit.
LEMMA HoldKeeps ==
    ASSUME HuntInv, NEW w \in Worker, Hold(w)
    PROVE  HuntInv'
<1>1. /\ HuntTypeOK /\ NoHunt \notin Hunt
      /\ \A v \in Worker : RunFits(v)
      /\ \A g \in Hunt : Untouched(g) /\ Solo(g)
      /\ HoldsAreCounted /\ ExtraHoldMeansOverlap
  BY HuntConstants DEF HuntInv
<1> PICK h \in Hunt : h = run[w].hunt
  BY <1>1 DEF HuntTypeOK, Hold
<1>2. /\ run[w].step = "holding" /\ hunt[h].status # "none" /\ run[w].used < MaxHolds
      /\ UNCHANGED <<hunt, call, jobs, stranded, overlap, uncounted, crashes>>
      /\ bookings' = [bookings EXCEPT ![h] = @ + 1] /\ RunGoes(w, "held")
  BY <1>1 DEF Hold, RunFits, SameQueue, ghosts
<1>3. /\ run' \in [Worker -> RunRow] /\ OtherRuns(w)
      /\ run'[w].step = "held" /\ run'[w].hunt = h
  BY <1>1, <1>2, RunGoing DEF RunStep
<1>4. HuntTypeOK'
  BY <1>1, <1>2, <1>3 DEF HuntTypeOK, RunRow, OtherRuns
<1>5. \A v \in Worker : RunFits(v)'
  BY <1>1, <1>2, <1>3 DEF RunFits, OtherRuns
<1>6. \A g \in Hunt : Untouched(g)'
  BY <1>1, <1>2 DEF Untouched, HuntTypeOK
<1>7. ASSUME NEW g \in Hunt PROVE RunsOf(g)' = RunsOf(g)
  BY <1>3 DEF RunsOf, OtherRuns
<1>8. \A g \in Hunt : Solo(g)'
  <2>1. \A v \in Worker : run'[v].step \in Early => run'[v] = run[v]
    BY <1>3 DEF OtherRuns, Early
  <2>2. \A g \in Hunt : \A v \in RunsOf(g) : v \in Worker
    BY DEF RunsOf
  <2> QED BY <1>1, <1>2, <1>7, <2>1, <2>2 DEF Solo
<1>9. /\ w \notin Held(h) /\ Held(h)' = Held(h) \cup {w}
      /\ \A g \in Hunt \ {h} : Held(g)' = Held(g)
  BY <1>2, <1>3 DEF Held, RunsOf, OtherRuns
<1>10. Cardinality(Held(h)') = Cardinality(Held(h)) + 1
  BY <1>9, HeldIsFinite, FS_AddElement
<1>11. HoldsAreCounted'
  <2>1. ASSUME NEW g \in Hunt
        PROVE  bookings'[g] = hunt'[g].used + uncounted'[g] + Cardinality(Held(g)')
    <3>1. bookings[g] = hunt[g].used + uncounted[g] + Cardinality(Held(g))
      BY <1>1 DEF HoldsAreCounted, Held
    <3>2. /\ bookings[g] \in Nat /\ hunt[g].used \in Nat /\ uncounted[g] \in Nat
          /\ Cardinality(Held(g)) \in Nat
      BY <1>1, HeldIsFinite DEF HuntTypeOK, Row
    <3>3. CASE g = h
      BY <1>1, <1>2, <1>10, <3>1, <3>2, <3>3 DEF HuntTypeOK
    <3>4. CASE g # h
      BY <1>1, <1>2, <1>9, <3>1, <3>2, <3>4 DEF HuntTypeOK
    <3> QED BY <3>3, <3>4
  <2> QED BY <2>1 DEF HoldsAreCounted, Held
<1>12. ExtraHoldMeansOverlap'
  <2> SUFFICES ASSUME NEW g \in Hunt, bookings'[g] > MaxHolds, g \notin overlap', uncounted'[g] = 0
               PROVE  FALSE
    BY <1>4 DEF ExtraHoldMeansOverlap, HuntTypeOK
  <2>1. CASE g = h
    <3>1. run[w].used = hunt[h].used /\ \A v \in RunsOf(h) : v = w
      BY <1>1, <1>2, <2>1 DEF Solo, RunsOf, Early
    <3>2. Held(h) = {}
      BY <1>2, <3>1 DEF Held
    <3>3. bookings[h] = hunt[h].used + uncounted[h] + Cardinality(Held(h))
      BY <1>1 DEF HoldsAreCounted, Held
    <3>4. Cardinality(Held(h)) = 0 /\ uncounted[h] = 0
      BY <1>2, <2>1, <3>2, FS_EmptySet
    <3>5. bookings'[h] = bookings[h] + 1 /\ hunt[h].used \in Nat /\ bookings[h] \in Nat
      BY <1>1, <1>2 DEF HuntTypeOK, Row
    <3> QED BY <1>2, <2>1, <3>1, <3>3, <3>4, <3>5, HuntConstants
  <2>2. CASE g # h
    BY <1>1, <1>2, <2>2 DEF ExtraHoldMeansOverlap, HuntTypeOK
  <2> QED BY <2>1, <2>2
<1>13. Books'
  BY <1>5, <1>6, <1>8, <1>11, <1>12 DEF Books
<1>14. Attended(h)' /\ NoneInserted /\ OtherHunts(h)
  BY <1>2, <1>3 DEF Attended, NoneInserted, OtherHunts
<1> QED BY <1>2, <1>3, <1>4, <1>13, <1>14, RunMoves

\* A booking is counted, or written down as uncounted, as its run leaves "held".
LEMMA Counting ==
    ASSUME HuntInv, HuntTypeOK', NEW w \in Worker, NEW h \in Hunt,
           run[w].hunt = h, run[w].step = "held", OtherRuns(w),
           \/ run'[w].hunt = h /\ run'[w].step \in {"ending", "failing"}
           \/ run'[w].hunt = NoHunt /\ run'[w].step = "idle",
           OtherHunts(h), hunt'[h].status # "none", UNCHANGED <<bookings, overlap>>,
           \A g \in Hunt \ {h} : uncounted'[g] = uncounted[g],
           \/ hunt'[h].used = hunt[h].used + 1 /\ uncounted'[h] = uncounted[h]
           \/ hunt'[h].used = hunt[h].used /\ uncounted'[h] = uncounted[h] + 1
    PROVE  Books'
<1>1. /\ HuntTypeOK /\ NoHunt \notin Hunt
      /\ \A v \in Worker : RunFits(v)
      /\ \A g \in Hunt : Untouched(g) /\ Solo(g)
      /\ HoldsAreCounted /\ ExtraHoldMeansOverlap
  BY HuntConstants DEF HuntInv
<1>2. \A v \in Worker : RunFits(v)'
  BY <1>1 DEF RunFits, OtherRuns, OtherHunts, HuntTypeOK
<1>3. \A g \in Hunt : Untouched(g)'
  BY <1>1 DEF Untouched, OtherHunts
<1>4. ASSUME NEW g \in Hunt PROVE RunsOf(g)' \subseteq RunsOf(g)
  BY <1>1 DEF RunsOf, OtherRuns
<1>5. ASSUME NEW g \in Hunt PROVE Solo(g)'
  <2>1. \A v \in RunsOf(g)' : v \in RunsOf(g) /\ (run'[v].step \in Early => v # w)
    BY <1>4 DEF Early
  <2>2. \A v \in RunsOf(g) : v # w => run'[v] = run[v]
    BY DEF RunsOf, OtherRuns
  <2>3. CASE g = h
    <3> SUFFICES ASSUME h \notin overlap PROVE Solo(h)'
      BY <2>3 DEF Solo
    <3>1. \A v \in RunsOf(h) : v = w
      BY <1>1 DEF Solo, RunsOf
    <3> QED BY <2>1, <2>3, <3>1 DEF Solo
  <2>4. CASE g # h
    <3>1. hunt'[g] = hunt[g]
      BY <2>4 DEF OtherHunts
    <3>2. Solo(g)
      BY <1>1
    <3> QED BY <2>1, <2>2, <3>1, <3>2 DEF Solo
  <2> QED BY <2>3, <2>4
<1>6. /\ w \in Held(h) /\ Held(h)' = Held(h) \ {w}
      /\ \A g \in Hunt \ {h} : Held(g)' = Held(g)
  BY <1>1 DEF Held, RunsOf, OtherRuns
<1>7. Cardinality(Held(h)') = Cardinality(Held(h)) - 1
  BY <1>6, HeldIsFinite, FS_RemoveElement
<1>8. HoldsAreCounted'
  <2>1. ASSUME NEW g \in Hunt
        PROVE  bookings'[g] = hunt'[g].used + uncounted'[g] + Cardinality(Held(g)')
    <3>1. bookings[g] = hunt[g].used + uncounted[g] + Cardinality(Held(g))
      BY <1>1 DEF HoldsAreCounted, Held
    <3>2. /\ bookings[g] \in Nat /\ hunt[g].used \in Nat /\ uncounted[g] \in Nat
          /\ Cardinality(Held(g)) \in Nat
      BY <1>1, HeldIsFinite DEF HuntTypeOK, Row
    <3>3. CASE g = h
      BY <1>7, <3>1, <3>2, <3>3
    <3>4. CASE g # h
      BY <1>6, <3>1, <3>4 DEF OtherHunts
    <3> QED BY <3>3, <3>4
  <2> QED BY <2>1 DEF HoldsAreCounted, Held
<1>9. ExtraHoldMeansOverlap'
  BY <1>1 DEF ExtraHoldMeansOverlap, HuntTypeOK
<1> QED BY <1>2, <1>3, <1>5, <1>8, <1>9 DEF Books

LEMMA CountKeeps ==
    ASSUME HuntInv, NEW w \in Worker,
           CountHold(w) \/ (Throw(w) /\ run[w].step = "held") \/ (WorkerDies(w) /\ run[w].step = "held")
    PROVE  HuntInv'
<1>1. HuntTypeOK
  BY DEF HuntInv
<1> PICK h \in Hunt : h = run[w].hunt
  BY <1>1 DEF HuntTypeOK, CountHold, Throw, WorkerDies
<1>2. hunt[h] \in Row /\ hunt[h].status # "none" /\ run[w].step = "held"
  BY <1>1, RunKnows DEF HuntTypeOK, CountHold
<1>3. UNCHANGED <<call, bookings, overlap>>
  BY DEF CountHold, Throw, WorkerDies, ghosts
<1>4. CASE CountHold(w)
  <2> DEFINE row == Counted(hunt[h], run[w])
  <2>1. row \in Row /\ row.status = "PAUSED" /\ row.used = hunt[h].used + 1
    BY <1>2, RowIsCounted
  <2>2. /\ hunt' = [hunt EXCEPT ![h] = row] /\ RunGoesFor(w, "ending", "PAUSED")
        /\ UNCHANGED <<jobs, stranded, uncounted, crashes>>
    BY <1>4 DEF CountHold, SameQueue, ghosts
  <2> HIDE DEF row
  <2>3. /\ hunt' \in [Hunt -> Row] /\ OtherHunts(h) /\ hunt'[h] = row
    BY <1>1, <2>1, <2>2, RowWritten
  <2>4. /\ run' \in [Worker -> RunRow] /\ OtherRuns(w)
        /\ run'[w].step = "ending" /\ run'[w].hunt = h
    BY <1>1, <1>2, <2>2, RunForgetting DEF RunStep
  <2>5. HuntTypeOK'
    BY <1>1, <1>3, <2>2, <2>3, <2>4 DEF HuntTypeOK, RunRow, OtherRuns
  <2>6. Books'
    BY <1>2, <1>3, <2>1, <2>2, <2>3, <2>4, <2>5, Counting
  <2>7. NoneInserted
    BY <1>2, <2>1, <2>3 DEF NoneInserted, OtherHunts
  <2>8. hunt'[h].status # "HUNTING"
    BY <2>1, <2>3
  <2> QED BY <1>3, <2>2, <2>3, <2>4, <2>5, <2>6, <2>7, <2>8, RunMoves
<1>5. CASE (Throw(w) \/ WorkerDies(w)) /\ run[w].step = "held"
  <2>1. /\ hunt' = hunt /\ uncounted' = [uncounted EXCEPT ![h] = @ + 1]
        /\ \/ RunGoesFor(w, "failing", "HUNTING") /\ SameQueue
           \/ RunEnds(w) /\ (Enqueued(h) \/ Lost(h))
    BY <1>5 DEF Throw, WorkerDies
  <2>2. crashes' \in 0..MaxCrashes
    BY <1>1, <1>5, HuntConstants DEF HuntTypeOK, Throw, WorkerDies
  <2>3. /\ run' \in [Worker -> RunRow] /\ OtherRuns(w)
        /\ \/ run'[w].hunt = h /\ run'[w].step = "failing"
           \/ run'[w].hunt = NoHunt /\ run'[w].step = "idle" /\ (Enqueued(h) \/ Lost(h))
    BY <1>1, <1>2, <2>1, RunForgetting, RunEnding DEF RunStep
  <2>4. /\ jobs' \in [Hunt -> Nat] /\ stranded' \subseteq Hunt
        /\ \A g \in Hunt : jobs[g] > 0 => jobs'[g] > 0
        /\ \A g \in Hunt \ {h} : g \in stranded => g \in stranded'
        /\ Enqueued(h) \/ Lost(h) => jobs'[h] > 0 \/ h \in stranded'
    BY <1>1, <2>1, QueueWritten
  <2>5. HuntTypeOK'
    <3>1. uncounted' \in [Hunt -> Nat] /\ hunt' \in [Hunt -> Row]
      BY <1>1, <2>1 DEF HuntTypeOK
    <3>2. \A v \in Worker : run'[v].step # "idle" => run'[v].hunt \in Hunt
      BY <1>1, <2>3 DEF HuntTypeOK, OtherRuns
    <3> QED BY <1>1, <1>3, <2>2, <2>3, <2>4, <3>1, <3>2 DEF HuntTypeOK, RunRow
  <2>6. /\ uncounted'[h] = uncounted[h] + 1
        /\ \A g \in Hunt \ {h} : uncounted'[g] = uncounted[g]
        /\ hunt'[h].used = hunt[h].used /\ hunt'[h].status # "none" /\ OtherHunts(h)
    BY <1>1, <1>2, <2>1 DEF HuntTypeOK, OtherHunts
  <2>7. Books'
    BY <1>2, <1>3, <2>3, <2>5, <2>6, Counting
  <2>8. Attended(h)' /\ NoneInserted
    BY <2>1, <2>3, <2>4 DEF Attended, NoneInserted
  <2> QED BY <1>3, <2>3, <2>4, <2>5, <2>6, <2>7, <2>8, RunMoves
<1> QED BY <1>4, <1>5

-----------------------------------------------------------------------------
(* The invariant.                                                          *)

LEMMA InitOK == HuntInit => HuntInv
<1> SUFFICES ASSUME HuntInit PROVE HuntInv
  OBVIOUS
<1>1. /\ \A h \in Hunt : hunt[h] = NoRow /\ jobs[h] = 0 /\ bookings[h] = 0 /\ uncounted[h] = 0
      /\ \A w \in Worker : run[w].step = "idle" /\ run[w].hunt = NoHunt
      /\ \A c \in Call : call[c].step = "idle"
  BY RowsTyped DEF HuntInit
<1>2. HuntTypeOK
  BY RowsTyped, HuntConstants DEF HuntInit, HuntTypeOK, RunRow, CallRow
<1>3. \A h \in Hunt : RunsOf(h) = {} /\ Held(h) = {}
  BY <1>1, HuntConstants DEF RunsOf, Held
<1>4. HoldsAreCounted
  <2>1. ASSUME NEW h \in Hunt
        PROVE  bookings[h] = hunt[h].used + uncounted[h] + Cardinality(Held(h))
    <3>1. Cardinality(Held(h)) = 0
      <4>1. Held(h) = {}
        BY <1>3
      <4> QED BY <4>1, FS_EmptySet, Zenon
    <3>2. hunt[h].used = 0
      BY <1>1 DEF NoRow
    <3> QED BY <1>1, <3>1, <3>2
  <2> QED BY <2>1 DEF HoldsAreCounted, Held
<1>5. \A w \in Worker : RunFits(w)
  BY <1>1 DEF RunFits
<1>6. \A c \in Call : CallFits(c)
  BY <1>1 DEF CallFits
<1>7. \A h \in Hunt : Untouched(h) /\ Solo(h) /\ hunt[h].status # "HUNTING"
  BY <1>1, <1>3, RowsTyped DEF Untouched, Solo
<1>8. ExtraHoldMeansOverlap
  BY <1>1, HuntConstants DEF ExtraHoldMeansOverlap
<1> QED BY <1>2, <1>4, <1>5, <1>6, <1>7, <1>8 DEF HuntInv

LEMMA StutterKeeps == ASSUME HuntInv, UNCHANGED huntVars PROVE HuntInv'
<1> USE DEF huntVars, ghosts
<1>1. HuntTypeOK'
  BY DEF HuntInv, HuntTypeOK
<1>2. QuietHunts /\ \A w \in Worker : QuietRun(w)
  BY RestingRuns DEF QuietHunts
<1>3. Books'
  BY <1>1, <1>2, BooksKept
<1>4. \A c \in Call : CallFits(c)'
  BY DEF HuntInv, CallFits
<1>5. \A h \in Hunt : Attends(h)
  BY DEF Attends, Attended
<1> QED BY <1>1, <1>3, <1>4, <1>5, Finish

LEMMA StepKeeps == HuntInv /\ [HuntNext]_huntVars => HuntInv'
<1> SUFFICES ASSUME HuntInv, [HuntNext]_huntVars PROVE HuntInv'
  OBVIOUS
<1>1. CASE UNCHANGED huntVars
  BY <1>1, StutterKeeps
<1>2. ASSUME NEW w \in Worker, Take(w) PROVE HuntInv'
  BY <1>2, LoadKeeps, RowKeeps DEF Take
<1>3. ASSUME NEW w \in Worker, Process(w) \/ WorkerDies(w) PROVE HuntInv'
  BY <1>3, RunsOn, ScanEnds, RunEndsQuietly, HoldKeeps, CountKeeps DEF Process
<1>4. ASSUME NEW c \in Call, (\E h \in Hunt : Ask(c, h)) \/ Serve(c) \/ CallDies(c) PROVE HuntInv'
  BY <1>4, AskKeeps, ServeKeeps
<1>5. ASSUME NEW h \in Hunt, Toggle(h) \/ LeavesHeld(h) PROVE HuntInv'
  BY <1>5, RowKeeps
<1> QED BY <1>1, <1>2, <1>3, <1>4, <1>5, Zenon DEF HuntNext, Proceeds

LEMMA Inductive == HuntSpec => []HuntInv
<1> QED BY InitOK, StepKeeps, PTL DEF HuntSpec

\* The rows, queues, runs and requests keep their types, for any number of them.
THEOREM HuntTypeCorrect == HuntSpec => []HuntTypeOK
<1>1. HuntInv => HuntTypeOK
  BY DEF HuntInv
<1> QED BY <1>1, Inductive, PTL

\* A hunt that is HUNTING has a job, a run or a request that will scan it again, whatever
\* pauses, resumes, deaths and failures overlap, unless an enqueue failed (hunter-run.service.ts).
THEOREM NoHuntIsForgotten == HuntSpec => []HuntingIsScheduled
<1>1. HuntInv => HuntingIsScheduled
  BY DEF HuntInv, HuntingIsScheduled, Scheduled, Attended, RunsOf
<1> QED BY <1>1, Inductive, PTL

\* Each booking of auto-hold is counted once, or its run is about to, or failed in between.
THEOREM BookingsAreCounted == HuntSpec => []HoldsAreCounted
<1>1. HuntInv => HoldsAreCounted
  BY DEF HuntInv
<1> QED BY <1>1, Inductive, PTL

\* Only overlapping runs, or a failure between a booking and its count, exceed what the user
\* allowed, however many workers run.
THEOREM HoldsAreLimited == HuntSpec => []ExtraHoldMeansOverlap
<1>1. HuntInv => ExtraHoldMeansOverlap
  BY DEF HuntInv
<1> QED BY <1>1, Inductive, PTL
=============================================================================
