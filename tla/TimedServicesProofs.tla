------------------------ MODULE TimedServicesProofs ------------------------
(***************************************************************************)
(* Proofs about parts that time governs: how old what a search serves may  *)
(* be when one cache is filled from another, that a QR outlives its replay *)
(* on the payment screen, and what became of each message of the notifier  *)
(* although its jobs are retried, put off and taken again.                 *)
(***************************************************************************)
EXTENDS FlightSearch, NotifierDispatch, PaymentScreen, FiniteSetTheorems, TLAPS

-----------------------------------------------------------------------------
(* The search of flights.                                                  *)
(*                                                                         *)
(* The age of a cache entry bounds the time since its rules were replaced; *)
(* an answer is cached at most RuleTtl - 1 ticks after its rules were, and *)
(* within the tick that wrote its snapshots.                               *)

RuleSet == (0..MaxVersion) \cup {Net}
SearchSteps == {"idle", "joined", "asking", "marking", "caching", "served", "failed"}
SearchRows == [step : SearchSteps, at : Process \cup {Nobody}, hunter : BOOLEAN, rules : RuleSet]

SearchTypes ==
    /\ version \in 0..MaxVersion /\ outage \in Nat /\ snapshot \in Nat
    /\ retired \in [0..MaxVersion -> Nat] /\ snapshotLost \in BOOLEAN
    /\ answer \in [rules : RuleSet, age : Nat]
    /\ ruleCache \in [Process -> [rules : RuleSet, age : Nat]]
    /\ search \in [Searcher -> SearchRows]
    /\ \A s \in Searcher : search[s].step # "idle" => search[s].at \in Process

\* Rules r were those of the database, or Net what a failing one left, n ticks ago at most.
Within(o, v, since, r, n) == IF r = Net THEN o <= n ELSE r \in 0..v /\ since[r] <= n
Recent(r, n) == Within(outage, version, retired, r, n)
RecentNext(r, n) == Within(outage', version', retired', r, n)

RulesAreRecent ==
    /\ \A v \in 0..MaxVersion : v >= version => retired[v] = 0
    /\ \A p \in Process : ruleCache[p].age < RuleTtl => Recent(ruleCache[p].rules, ruleCache[p].age)
    /\ answer.age < CacheTtl => Recent(answer.rules, RuleTtl - 1 + answer.age)
    /\ \A s \in Searcher : /\ search[s].step = "caching" => Recent(search[s].rules, RuleTtl - 1)
                           /\ Served(s) => Recent(search[s].rules, RuleTtl + CacheTtl - 2)

SnapshotsLive ==
    snapshotLost \/
    /\ answer.age < CacheTtl => snapshot <= answer.age
    /\ \A s \in Searcher : /\ search[s].step \in {"marking", "caching"} => snapshot = 0
                           /\ Served(s) => snapshot < CacheTtl

SearchInv == SearchTypes /\ RulesAreRecent /\ SnapshotsLive

\* The Map holds fetches that are under way: one who joins has to wait for the answer.
PromisesRun ==
    /\ inflight = [p \in Process |-> inflight[p]]
    /\ \A p \in Process :
          inflight[p] # NoPromise => inflight[p].step = "joined" /\ inflight[p].rules = Net

LEMMA SearchNumbers ==
    /\ CacheTtl \in Nat /\ CacheTtl > 0 /\ RuleTtl \in Nat /\ RuleTtl > 0
    /\ SnapshotTtl \in Nat /\ MaxVersion \in Nat /\ Horizon \in Nat /\ Net \notin 0..MaxVersion
BY SearchAssumption DEF Horizon

LEMMA SearchStarts == SearchInit => SearchInv
<1> SUFFICES ASSUME SearchInit PROVE SearchInv
  OBVIOUS
<1>1. SearchTypes
  <2>1. version \in 0..MaxVersion /\ outage \in Nat /\ snapshot \in Nat /\ snapshotLost \in BOOLEAN
    <3>1. version = 0 /\ outage = Horizon /\ snapshot = SnapshotTtl /\ snapshotLost = FALSE
      BY DEF SearchInit
    <3>2. 0 \in 0..MaxVersion
      BY SearchNumbers
    <3> QED BY <3>1, <3>2, SearchNumbers
  <2>2. SearchIdle \in SearchRows /\ SearchIdle.step = "idle" /\ Net \in RuleSet
    BY DEF SearchIdle, SearchRows, SearchSteps, RuleSet
  <2>3. /\ retired \in [0..MaxVersion -> Nat] /\ answer \in [rules : RuleSet, age : Nat]
        /\ ruleCache \in [Process -> [rules : RuleSet, age : Nat]]
    BY <2>2, SearchNumbers DEF SearchInit
  <2>4. search \in [Searcher -> SearchRows] /\ \A s \in Searcher : search[s].step = "idle"
    BY <2>2 DEF SearchInit
  <2> QED BY <2>1, <2>3, <2>4 DEF SearchTypes
<1>2. RulesAreRecent
  BY SearchNumbers DEF SearchInit, SearchIdle, RulesAreRecent, Within, Served
<1>3. SnapshotsLive
  BY SearchNumbers DEF SearchInit, SearchIdle, SnapshotsLive, Served
<1> QED BY <1>1, <1>2, <1>3 DEF SearchInv

\* The time since the rules were replaced only matters to entries that are still alive.
LEMMA RecentLater ==
    ASSUME SearchTypes, NEW r, NEW n \in Int, NEW m \in Int, n <= m, Recent(r, n)
    PROVE  Recent(r, m)
BY SearchNumbers DEF SearchTypes, Recent, Within

\* A search that has nothing to do with the rules yet.
LEMMA SearchGoes ==
    ASSUME SearchInv, NEW s \in Searcher, NEW step \in {"idle", "joined", "asking"}, NEW row,
           row \in SearchRows, row.step = step, step # "idle" => row.at \in Process,
           search' = [search EXCEPT ![s] = row],
           UNCHANGED <<answer, snapshot, ruleCache, version, retired, outage, snapshotLost>>
    PROVE  SearchInv'
<1>1. /\ \A t \in Searcher \ {s} : search'[t] = search[t]
      /\ search'[s] = row /\ search' \in [Searcher -> SearchRows]
  BY DEF SearchInv, SearchTypes
<1>2. SearchTypes'
  BY <1>1 DEF SearchInv, SearchTypes
<1>3. \A t \in Searcher : search'[t].step \in {"marking", "caching", "served"} => search'[t] = search[t]
  BY <1>1
<1>4. RulesAreRecent'
  BY <1>3 DEF SearchInv, RulesAreRecent, Recent, Within, Served
<1>5. SnapshotsLive'
  BY <1>3 DEF SearchInv, SnapshotsLive, Served
<1> QED BY <1>2, <1>4, <1>5 DEF SearchInv

LEMMA SearchBegins ==
    ASSUME SearchInv, PromisesRun, NEW s \in Searcher, StartSearch(s)
    PROVE  SearchInv'
<1>1. PICK p \in Process, hunter \in BOOLEAN : CacheHit(p, s, hunter) \/ Join(p, s, hunter) \/ Lead(p, s, hunter)
  BY DEF StartSearch
<1>2. UNCHANGED <<answer, snapshot, ruleCache, version, retired, outage, snapshotLost>>
  BY DEF StartSearch
<1>3. CASE Join(p, s, hunter)
  <2> DEFINE row == [step |-> "joined", at |-> p, hunter |-> hunter, rules |-> Net]
  <2>1. row \in SearchRows /\ row.step = "joined" /\ row.at \in Process
    BY DEF SearchRows, SearchSteps, RuleSet
  <2>2. search' = [search EXCEPT ![s] = row]
    <3>1. inflight[p].step = "joined" /\ inflight[p].rules = Net
      BY <1>3 DEF Join, PromisesRun
    <3> QED BY <1>3, <3>1 DEF Join
  <2> HIDE DEF row
  <2> QED BY <1>2, <2>1, <2>2, SearchGoes
<1>4. CASE Lead(p, s, hunter)
  <2> DEFINE row == [step |-> "asking", at |-> p, hunter |-> hunter, rules |-> Net]
  <2>1. row \in SearchRows /\ row.step = "asking" /\ row.at \in Process
    BY DEF SearchRows, SearchSteps, RuleSet
  <2>2. search' = [search EXCEPT ![s] = row]
    BY <1>4 DEF Lead
  <2> HIDE DEF row
  <2> QED BY <1>2, <2>1, <2>2, SearchGoes
<1>5. CASE CacheHit(p, s, hunter)
  <2>1. /\ answer.age < CacheTtl /\ answer.rules \in RuleSet /\ answer.age \in Nat
        /\ \A t \in Searcher \ {s} : search'[t] = search[t]
        /\ search'[s] = [step |-> "served", at |-> p, hunter |-> hunter, rules |-> answer.rules]
        /\ search' = [t \in Searcher |-> search'[t]]
    BY <1>5 DEF CacheHit, SearchInv, SearchTypes
  <2>2. search'[s] \in SearchRows
    BY <2>1 DEF SearchRows, SearchSteps
  <2>3. SearchTypes'
    BY <1>2, <2>1, <2>2 DEF SearchInv, SearchTypes
  <2>4. Recent(answer.rules, RuleTtl + CacheTtl - 2)
    <3>1. Recent(answer.rules, RuleTtl - 1 + answer.age)
      BY <2>1 DEF SearchInv, RulesAreRecent
    <3>2. RuleTtl - 1 + answer.age <= RuleTtl + CacheTtl - 2
      BY <2>1, SearchNumbers
    <3> QED BY <2>1, <3>1, <3>2, RecentLater, SearchNumbers DEF SearchInv
  <2>6. RulesAreRecent'
    BY <1>2, <2>1, <2>4 DEF SearchInv, RulesAreRecent, Recent, Within, Served
  <2>7. SnapshotsLive'
    <3>1. snapshotLost \/ snapshot < CacheTtl
      BY <2>1, SearchNumbers DEF SearchInv, SearchTypes, SnapshotsLive
    <3> QED BY <1>2, <2>1, <3>1 DEF SearchInv, SnapshotsLive, Served
  <2> QED BY <2>3, <2>6, <2>7 DEF SearchInv
<1> QED BY <1>1, <1>3, <1>4, <1>5

\* The fetch ends for all who share it, without an answer.
LEMMA FetchIsOver ==
    ASSUME SearchInv, NEW s \in Searcher, FetchFails(s)
    PROVE  SearchInv'
<1>1. /\ UNCHANGED <<answer, snapshot, ruleCache, version, retired, outage, snapshotLost>>
      /\ \A t \in Searcher : \/ (search'[t] = [search[t] EXCEPT !.step = "failed"] /\ t \in Sharers(s))
                              \/ search'[t] = search[t]
      /\ search' = [t \in Searcher |-> search'[t]]
  BY DEF FetchFails
<1>2. ASSUME NEW t \in Searcher, t \in Sharers(s), search'[t] = [search[t] EXCEPT !.step = "failed"]
      PROVE  search'[t] \in SearchRows /\ search'[t].step = "failed" /\ search'[t].at \in Process
  <2>1. search[t] \in SearchRows /\ search[t].at \in Process
    BY <1>2 DEF Sharers, FetchFails, SearchInv, SearchTypes
  <2> QED BY <1>2, <2>1 DEF SearchRows, SearchSteps
<1>3. SearchTypes'
  <2>1. \A t \in Searcher : search'[t] \in SearchRows
    BY <1>1, <1>2 DEF SearchInv, SearchTypes
  <2>2. \A t \in Searcher : search'[t].step # "idle" => search'[t].at \in Process
    BY <1>1, <1>2 DEF SearchInv, SearchTypes
  <2> QED BY <1>1, <2>1, <2>2 DEF SearchInv, SearchTypes
<1>4. \A t \in Searcher : search'[t].step \in {"marking", "caching", "served"} => search'[t] = search[t]
  BY <1>1, <1>2
<1>5. RulesAreRecent'
  BY <1>1, <1>4 DEF SearchInv, RulesAreRecent, Recent, Within, Served
<1>6. SnapshotsLive'
  BY <1>1, <1>4 DEF SearchInv, SnapshotsLive, Served
<1> QED BY <1>3, <1>5, <1>6 DEF SearchInv

LEMMA SnapshotsSaved ==
    ASSUME SearchInv, NEW s \in Searcher, SaveSnapshots(s)
    PROVE  SearchInv'
<1>1. /\ UNCHANGED <<answer, ruleCache, version, retired, outage>>
      /\ search[s].step = "asking"
      /\ search' = [search EXCEPT ![s] = [@ EXCEPT !.step = "marking"]]
      /\ snapshot' = 0 \/ (snapshotLost' = TRUE /\ snapshot' = snapshot)
      /\ snapshotLost' \in BOOLEAN
  BY DEF SaveSnapshots, Step
<1>2. /\ \A t \in Searcher \ {s} : search'[t] = search[t]
      /\ search'[s] = [search[s] EXCEPT !.step = "marking"]
      /\ search' = [t \in Searcher |-> search'[t]] /\ search[s] \in SearchRows
  BY <1>1 DEF SearchInv, SearchTypes
<1>3. /\ search'[s] \in SearchRows /\ search'[s].step = "marking" /\ search'[s].at \in Process
  BY <1>1, <1>2 DEF SearchRows, SearchSteps, SearchInv, SearchTypes
<1>4. SearchTypes'
  BY <1>1, <1>2, <1>3 DEF SearchInv, SearchTypes
<1>5. RulesAreRecent'
  BY <1>1, <1>2, <1>3 DEF SearchInv, RulesAreRecent, Recent, Within, Served
<1>6. SnapshotsLive'
  BY <1>1, <1>2, <1>3, SearchNumbers DEF SearchInv, SearchTypes, SnapshotsLive, Served
<1> QED BY <1>4, <1>5, <1>6 DEF SearchInv

\* What loadActiveRules gives is recent, whichever way it comes by it.
LEMMA OffersMarkedUp ==
    ASSUME SearchInv, NEW s \in Searcher, MarkUp(s)
    PROVE  SearchInv'
<1> DEFINE p == search[s].at
<1>1. /\ UNCHANGED <<answer, snapshot, version, retired, snapshotLost>>
      /\ search[s].step = "marking" /\ p \in Process
  BY DEF MarkUp, SearchInv, SearchTypes
<1>2. PICK r \in RuleSet :
          /\ search' = Marked(s, r)
          /\ \/ /\ RulesAlive(p) /\ r = ruleCache[p].rules /\ UNCHANGED <<ruleCache, outage>>
             \/ /\ r = version /\ UNCHANGED outage
                /\ ruleCache' = [ruleCache EXCEPT ![p] = [rules |-> r, age |-> 0]]
             \/ /\ r = Net /\ outage' = 0
                /\ ruleCache' = [ruleCache EXCEPT ![p] = [rules |-> r, age |-> 0]]
  <2>1. ruleCache[p].rules \in RuleSet /\ version \in RuleSet /\ Net \in RuleSet
    BY <1>1 DEF SearchInv, SearchTypes, RuleSet
  <2>2. CASE RulesAlive(p) /\ search' = Marked(s, ruleCache[p].rules) /\ UNCHANGED <<ruleCache, outage, outages>>
    BY <2>1, <2>2, Zenon
  <2>3. CASE /\ search' = Marked(s, version) /\ UNCHANGED <<outage, outages>>
             /\ ruleCache' = [ruleCache EXCEPT ![p] = [rules |-> version, age |-> 0]]
    BY <2>1, <2>3, Zenon
  <2>4. CASE /\ search' = Marked(s, Net) /\ outage' = 0
             /\ ruleCache' = [ruleCache EXCEPT ![p] = [rules |-> Net, age |-> 0]]
    BY <2>1, <2>4, Zenon
  <2> QED BY <2>2, <2>3, <2>4, Zenon DEF MarkUp
<1> HIDE DEF p
<1>3. /\ \A t \in Searcher \ {s} : search'[t] = search[t]
      /\ search'[s] = [search[s] EXCEPT !.step = "caching", !.rules = r]
      /\ search' = [t \in Searcher |-> search'[t]] /\ search[s] \in SearchRows
  BY <1>2 DEF SearchInv, SearchTypes, Marked
<1>4. /\ search'[s] \in SearchRows /\ search'[s].step = "caching" /\ search'[s].rules = r
      /\ search'[s].at \in Process
  BY <1>1, <1>3 DEF SearchRows, SearchSteps, p
<1>5. /\ outage' \in Nat /\ outage' <= outage
      /\ \A q \in Process : ruleCache'[q] = ruleCache[q] \/ ruleCache'[q] = [rules |-> r, age |-> 0]
      /\ ruleCache' \in [Process -> [rules : RuleSet, age : Nat]]
  BY <1>1, <1>2 DEF SearchInv, SearchTypes
<1>6. SearchTypes'
  <2>1. search' \in [Searcher -> SearchRows]
    BY <1>3, <1>4 DEF SearchInv, SearchTypes
  <2>2. \A t \in Searcher : search'[t].step # "idle" => search'[t].at \in Process
    BY <1>3, <1>4 DEF SearchInv, SearchTypes
  <2> QED BY <1>1, <1>5, <2>1, <2>2 DEF SearchInv, SearchTypes
<1>7. ASSUME NEW x, NEW n \in Int, Recent(x, n) PROVE RecentNext(x, n)
  BY <1>1, <1>5, <1>7, SearchNumbers DEF Recent, RecentNext, Within, SearchInv, SearchTypes
<1>8. /\ RecentNext(r, RuleTtl - 1)
      /\ ruleCache' = ruleCache \/ RecentNext(r, 0)
  <2>1. CASE RulesAlive(p) /\ r = ruleCache[p].rules /\ UNCHANGED <<ruleCache, outage>>
    <3>1. /\ Recent(r, ruleCache[p].age) /\ ruleCache[p].age \in Nat /\ ruleCache[p].age <= RuleTtl - 1
      BY <1>1, <2>1, SearchNumbers DEF RulesAlive, SearchInv, SearchTypes, RulesAreRecent
    <3>2. Recent(r, RuleTtl - 1)
      BY <3>1, RecentLater, SearchNumbers DEF SearchInv
    <3> QED BY <2>1, <3>2, <1>7, SearchNumbers
  <2>2. CASE r = version /\ outage' = outage
    <3>1. Recent(r, 0) /\ Recent(r, RuleTtl - 1)
      BY <2>2, SearchNumbers DEF SearchInv, SearchTypes, RulesAreRecent, Recent, Within
    <3> QED BY <3>1, <1>7, SearchNumbers
  <2>3. CASE r = Net /\ outage' = 0
    BY <2>3, SearchNumbers DEF RecentNext, Within
  <2> QED BY <1>2, <2>1, <2>2, <2>3
<1>9. RulesAreRecent'
  <2>1. ASSUME NEW q \in Process, ruleCache'[q].age < RuleTtl
        PROVE  RecentNext(ruleCache'[q].rules, ruleCache'[q].age)
    <3>1. CASE ruleCache'[q] = ruleCache[q]
      BY <2>1, <3>1, <1>7 DEF SearchInv, SearchTypes, RulesAreRecent
    <3>2. CASE ruleCache'[q] # ruleCache[q]
      BY <3>2, <1>5, <1>8
    <3> QED BY <3>1, <3>2
  <2>2. answer'.age < CacheTtl => RecentNext(answer'.rules, RuleTtl - 1 + answer'.age)
    BY <1>1, <1>7, SearchNumbers DEF SearchInv, SearchTypes, RulesAreRecent
  <2>3. ASSUME NEW t \in Searcher
        PROVE  /\ search'[t].step = "caching" => RecentNext(search'[t].rules, RuleTtl - 1)
               /\ search'[t].step = "served" => RecentNext(search'[t].rules, RuleTtl + CacheTtl - 2)
    <3>1. CASE t = s
      BY <3>1, <1>4, <1>8
    <3>2. CASE t # s
      BY <3>2, <1>3, <1>7, SearchNumbers DEF SearchInv, RulesAreRecent, Within, Served
    <3> QED BY <3>1, <3>2
  <2>4. \A v \in 0..MaxVersion : v >= version' => retired'[v] = 0
    BY <1>1 DEF SearchInv, RulesAreRecent
  <2> QED BY <2>1, <2>2, <2>3, <2>4 DEF RulesAreRecent, Served, Recent, RecentNext
<1>10. SnapshotsLive'
  BY <1>1, <1>3, <1>4 DEF SearchInv, SnapshotsLive, Served
<1> QED BY <1>6, <1>9, <1>10 DEF SearchInv

\* The answer is cached, or not, and given to all who share the fetch.
LEMMA SearchAnswered ==
    ASSUME SearchInv, NEW s \in Searcher, Answer(s)
    PROVE  SearchInv'
<1>1. /\ search[s].step = "caching" /\ search[s].rules \in RuleSet
      /\ UNCHANGED <<snapshot, ruleCache, version, retired, outage, snapshotLost>>
      /\ answer' = answer \/ answer' = [rules |-> search[s].rules, age |-> 0]
      /\ search' = [j \in Searcher |-> IF j \in Sharers(s)
                      THEN [search[j] EXCEPT !.step = "served", !.rules = search[s].rules] ELSE search[j]]
  BY DEF Answer, SearchInv, SearchTypes, SearchRows
<1>2. ASSUME NEW t \in Searcher
      PROVE  \/ search'[t] = search[t]
             \/ /\ search'[t] \in SearchRows /\ search'[t].at \in Process
                /\ search'[t].step = "served" /\ search'[t].rules = search[s].rules
  <2>1. CASE t \in Sharers(s)
    <3>1. search'[t] = [search[t] EXCEPT !.step = "served", !.rules = search[s].rules]
      BY <1>1, <2>1
    <3>2. search[t] \in SearchRows /\ search[t].at \in Process
      BY <1>1, <2>1 DEF Sharers, SearchInv, SearchTypes
    <3> QED BY <1>1, <3>1, <3>2 DEF SearchRows, SearchSteps
  <2>2. CASE t \notin Sharers(s)
    BY <1>1, <2>2
  <2> QED BY <2>1, <2>2
<1>3. search' = [t \in Searcher |-> search'[t]]
  BY <1>1
<1>4. SearchTypes'
  <2>1. search' \in [Searcher -> SearchRows]
    BY <1>2, <1>3 DEF SearchInv, SearchTypes
  <2>2. \A t \in Searcher : search'[t].step # "idle" => search'[t].at \in Process
    BY <1>2 DEF SearchInv, SearchTypes
  <2>3. answer' \in [rules : RuleSet, age : Nat]
    <3>1. CASE answer' = answer
      BY <3>1 DEF SearchInv, SearchTypes
    <3>2. CASE answer' = [rules |-> search[s].rules, age |-> 0]
      BY <1>1, <3>2
    <3> QED BY <1>1, <3>1, <3>2
  <2> QED BY <1>1, <2>1, <2>2, <2>3 DEF SearchInv, SearchTypes
<1>5. Recent(search[s].rules, RuleTtl - 1)
  BY <1>1 DEF SearchInv, RulesAreRecent
<1>6. Recent(search[s].rules, RuleTtl + CacheTtl - 2)
  BY <1>5, RecentLater, SearchNumbers DEF SearchInv
<1>7. \A x, n : RecentNext(x, n) <=> Recent(x, n)
  BY <1>1 DEF Recent, RecentNext
<1>8. RulesAreRecent'
  <2>1. ASSUME NEW q \in Process, ruleCache'[q].age < RuleTtl
        PROVE  RecentNext(ruleCache'[q].rules, ruleCache'[q].age)
    BY <1>1, <1>7, <2>1 DEF SearchInv, RulesAreRecent
  <2>2. answer'.age < CacheTtl => RecentNext(answer'.rules, RuleTtl - 1 + answer'.age)
    <3>1. CASE answer' = answer
      BY <3>1, <1>7 DEF SearchInv, RulesAreRecent
    <3>2. CASE answer' = [rules |-> search[s].rules, age |-> 0]
      <4>1. answer'.rules = search[s].rules /\ RuleTtl - 1 + answer'.age = RuleTtl - 1
        BY <3>2, SearchNumbers
      <4> QED BY <4>1, <1>5, <1>7
    <3> QED BY <1>1, <3>1, <3>2
  <2>3. ASSUME NEW t \in Searcher
        PROVE  /\ search'[t].step = "caching" => RecentNext(search'[t].rules, RuleTtl - 1)
               /\ search'[t].step = "served" => RecentNext(search'[t].rules, RuleTtl + CacheTtl - 2)
    BY <1>2, <1>6, <1>7 DEF SearchInv, RulesAreRecent, Served
  <2>4. \A v \in 0..MaxVersion : v >= version' => retired'[v] = 0
    BY <1>1 DEF SearchInv, RulesAreRecent
  <2> QED BY <2>1, <2>2, <2>3, <2>4 DEF RulesAreRecent, Served, Recent, RecentNext
<1>9. SnapshotsLive'
  <2>1. snapshotLost \/ snapshot = 0
    BY <1>1 DEF SearchInv, SnapshotsLive
  <2>2. CASE snapshotLost
    BY <1>1, <2>2 DEF SnapshotsLive
  <2>3. CASE ~snapshotLost /\ snapshot = 0
    <3>1. answer'.age < CacheTtl => snapshot' <= answer'.age
      <4>1. answer'.age \in Nat
        BY <1>4 DEF SearchTypes
      <4>2. snapshot' = 0
        BY <1>1, <2>3
      <4> QED BY <4>1, <4>2
    <3>2. \A t \in Searcher : /\ search'[t].step \in {"marking", "caching"} => snapshot' = 0
                              /\ search'[t].step = "served" => snapshot' < CacheTtl
      BY <1>1, <2>3, SearchNumbers
    <3> QED BY <3>1, <3>2 DEF SnapshotsLive, Served
  <2> QED BY <2>1, <2>2, <2>3
<1> QED BY <1>4, <1>8, <1>9 DEF SearchInv

LEMMA RulesChange ==
    ASSUME SearchInv, ChangeRules
    PROVE  SearchInv'
<1>1. /\ version' = version + 1 /\ version < MaxVersion
      /\ UNCHANGED <<answer, snapshot, ruleCache, search, retired, outage, snapshotLost>>
  BY DEF ChangeRules
<1>2. SearchTypes'
  BY <1>1, SearchNumbers DEF SearchInv, SearchTypes
<1>3. ASSUME NEW x, NEW n, Recent(x, n) PROVE RecentNext(x, n)
  BY <1>1, <1>3, SearchNumbers DEF Recent, RecentNext, Within, SearchInv, SearchTypes
<1>4. \A v \in 0..MaxVersion : v >= version' => retired'[v] = 0
  BY <1>1, SearchNumbers DEF SearchInv, SearchTypes, RulesAreRecent
<1>5. RulesAreRecent'
  BY <1>1, <1>3, <1>4 DEF SearchInv, RulesAreRecent, Served, Recent, RecentNext
<1>6. SnapshotsLive'
  BY <1>1 DEF SearchInv, SnapshotsLive, Served
<1> QED BY <1>2, <1>5, <1>6 DEF SearchInv

\* Nobody is between the rules and the cache while time passes.
LEMMA SearchTicks ==
    ASSUME SearchInv, SearchTick
    PROVE  SearchInv'
<1>1. /\ \A s \in Searcher : search[s].step \notin {"marking", "caching", "served"}
      /\ search' = search /\ version' = version /\ snapshotLost' = snapshotLost
      /\ answer' = [answer EXCEPT !.age = Min2(answer.age + 1, CacheTtl)]
      /\ snapshot' = Min2(snapshot + 1, SnapshotTtl)
      /\ outage' = Min2(outage + 1, Horizon)
      /\ ruleCache' = [p \in Process |-> [ruleCache[p] EXCEPT !.age = Min2(@ + 1, RuleTtl)]]
      /\ retired' = [v \in 0..MaxVersion |-> IF v < version THEN Min2(retired[v] + 1, Horizon) ELSE 0]
  BY DEF SearchTick
<1>2. /\ answer'.rules = answer.rules /\ answer'.age = Min2(answer.age + 1, CacheTtl)
      /\ answer' \in [rules : RuleSet, age : Nat]
  <2>1. answer \in [rules : RuleSet, age : Nat]
    BY DEF SearchInv, SearchTypes
  <2>2. answer' = [answer EXCEPT !.age = Min2(answer.age + 1, CacheTtl)]
    BY <1>1
  <2> QED BY <2>1, <2>2, SearchNumbers DEF Min2
<1>3. ASSUME NEW p \in Process
      PROVE  /\ ruleCache'[p].rules = ruleCache[p].rules
             /\ ruleCache'[p].age = Min2(ruleCache[p].age + 1, RuleTtl)
             /\ ruleCache'[p] \in [rules : RuleSet, age : Nat]
  <2>1. ruleCache[p] \in [rules : RuleSet, age : Nat]
    BY DEF SearchInv, SearchTypes
  <2>2. ruleCache'[p] = [ruleCache[p] EXCEPT !.age = Min2(@ + 1, RuleTtl)]
    BY <1>1
  <2> QED BY <2>1, <2>2, SearchNumbers DEF Min2
<1>4. SearchTypes'
  <2>1. outage' \in Nat /\ snapshot' \in Nat /\ retired' \in [0..MaxVersion -> Nat]
    <3>1. outage \in Nat /\ snapshot \in Nat /\ retired \in [0..MaxVersion -> Nat] /\ version \in 0..MaxVersion
      BY DEF SearchInv, SearchTypes
    <3>2. outage' \in Nat /\ snapshot' \in Nat
      BY <1>1, <3>1, SearchNumbers DEF Min2
    <3>3. ASSUME NEW v \in 0..MaxVersion
          PROVE  (IF v < version THEN Min2(retired[v] + 1, Horizon) ELSE 0) \in Nat
      <4>1. retired[v] \in Nat
        BY <3>1
      <4> QED BY <4>1, SearchNumbers DEF Min2
    <3> QED BY <1>1, <3>2, <3>3
  <2>2. ruleCache' \in [Process -> [rules : RuleSet, age : Nat]]
    BY <1>1, <1>3
  <2> QED BY <1>1, <1>2, <2>1, <2>2 DEF SearchInv, SearchTypes
<1>5. ASSUME NEW x, NEW n \in Int, Recent(x, n) PROVE RecentNext(x, n + 1)
  <2>1. outage' = Min2(outage + 1, Horizon) /\ outage \in Nat /\ version' = version
    BY <1>1 DEF SearchInv, SearchTypes
  <2>2. CASE x = Net
    <3>1. outage <= n
      BY <1>5, <2>2 DEF Recent, Within
    <3>2. outage' <= n + 1
      BY <2>1, <3>1, SearchNumbers DEF Min2
    <3> QED BY <2>2, <3>2 DEF RecentNext, Within
  <2>3. CASE x # Net
    <3>1. x \in 0..version /\ retired[x] <= n
      BY <1>5, <2>3 DEF Recent, Within
    <3>2. x \in 0..MaxVersion /\ retired[x] \in Nat /\ 0 <= n
      BY <3>1, SearchNumbers DEF SearchInv, SearchTypes
    <3>3. retired'[x] = IF x < version THEN Min2(retired[x] + 1, Horizon) ELSE 0
      BY <1>1, <3>2
    <3>4. retired'[x] <= n + 1
      BY <3>1, <3>2, <3>3, SearchNumbers DEF Min2
    <3> QED BY <2>1, <2>3, <3>1, <3>4 DEF RecentNext, Within
  <2> QED BY <2>2, <2>3
<1>6. RulesAreRecent'
  <2>1. ASSUME NEW q \in Process, ruleCache'[q].age < RuleTtl
        PROVE  RecentNext(ruleCache'[q].rules, ruleCache'[q].age)
    <3>1. ruleCache'[q].age = ruleCache[q].age + 1 /\ ruleCache[q].age < RuleTtl /\ ruleCache[q].age \in Nat
      BY <1>3, <2>1, SearchNumbers DEF Min2, SearchInv, SearchTypes
    <3> QED BY <1>3, <1>5, <3>1 DEF SearchInv, RulesAreRecent
  <2>2. ASSUME answer'.age < CacheTtl PROVE RecentNext(answer'.rules, RuleTtl - 1 + answer'.age)
    <3>1. answer'.age = answer.age + 1 /\ answer.age < CacheTtl /\ answer.age \in Nat
      BY <1>2, <2>2, SearchNumbers DEF Min2, SearchInv, SearchTypes
    <3>2. RecentNext(answer.rules, RuleTtl - 1 + answer.age + 1)
      BY <1>5, <3>1, SearchNumbers DEF SearchInv, RulesAreRecent
    <3>3. RuleTtl - 1 + answer.age + 1 = RuleTtl - 1 + answer'.age
      BY <3>1, SearchNumbers
    <3> QED BY <1>2, <3>2, <3>3
  <2>3. \A v \in 0..MaxVersion : v >= version' => retired'[v] = 0
    BY <1>1, SearchNumbers DEF SearchInv, SearchTypes
  <2> QED BY <1>1, <2>1, <2>2, <2>3 DEF RulesAreRecent, Served, Recent, RecentNext
<1>7. SnapshotsLive'
  <2>1. CASE snapshotLost
    BY <1>1, <2>1 DEF SnapshotsLive
  <2>2. CASE ~snapshotLost
    <3>1. answer'.age < CacheTtl => snapshot' <= answer'.age
      BY <1>1, <1>2, <2>2, SearchNumbers DEF Min2, SearchInv, SearchTypes, SnapshotsLive
    <3> QED BY <1>1, <3>1 DEF SnapshotsLive, Served
  <2> QED BY <2>1, <2>2
<1> QED BY <1>4, <1>6, <1>7 DEF SearchInv

\* A settled fetch is forgotten at once.
LEMMA PromiseStep == PromisesRun /\ [SearchNext]_searchVars => PromisesRun'
<1> SUFFICES ASSUME PromisesRun, [SearchNext]_searchVars PROVE PromisesRun'
  OBVIOUS
<1>1. CASE inflight' = inflight
  BY <1>1 DEF PromisesRun
<1>2. CASE \E s \in Searcher, p \in Process : inflight' = [inflight EXCEPT ![p] = Promise(s)]
  BY <1>2 DEF PromisesRun, Promise
<1>3. CASE \E p : inflight' = [inflight EXCEPT ![p] = NoPromise]
  BY <1>3 DEF PromisesRun
<1> QED
  BY <1>1, <1>2, <1>3
     DEF SearchNext, StartSearch, CacheHit, Join, Lead, Proceed, FetchFails, SaveSnapshots, MarkUp, Answer, Leave,
         Forgotten, ChangeRules, SearchTick, searchVars

LEMMA SearchStep == SearchInv /\ PromisesRun /\ [SearchNext]_searchVars => SearchInv'
<1> SUFFICES ASSUME SearchInv, PromisesRun, [SearchNext]_searchVars PROVE SearchInv'
  OBVIOUS
<1>1. ASSUME NEW s \in Searcher, Leave(s) PROVE SearchInv'
  <2>1. SearchIdle \in SearchRows /\ SearchIdle.step = "idle"
    BY DEF SearchIdle, SearchRows, SearchSteps, RuleSet
  <2>2. /\ search' = [search EXCEPT ![s] = SearchIdle]
        /\ UNCHANGED <<answer, snapshot, ruleCache, version, retired, outage, snapshotLost>>
    BY <1>1 DEF Leave
  <2> QED BY <2>1, <2>2, SearchGoes
<1>2. CASE UNCHANGED searchVars
  BY <1>2 DEF searchVars, SearchInv, SearchTypes, RulesAreRecent, SnapshotsLive, Recent, Served
<1> QED BY <1>1, <1>2, SearchBegins, FetchIsOver, SnapshotsSaved, OffersMarkedUp, SearchAnswered,
           RulesChange, SearchTicks
        DEF SearchNext, Proceed

\* Where snapshots live longer than answers (MUADI_OFFER_SNAPSHOT_TTL_SECONDS and
\* FLIGHT_SEARCH_CACHE_TTL_SECONDS), whatever is served was marked up by rules replaced no
\* longer ago than the two caches in a row allow, net only that long after the database
\* failed, and its snapshots are still there unless the last write of them failed
\* (flights.service.ts, search; markup.service.ts, loadActiveRules).
THEOREM AnswersStayRecent ==
    ASSUME SnapshotTtl > CacheTtl
    PROVE  SearchSpec => []AnswersAreRecent
<1>1. SearchInv => AnswersAreRecent
  BY SearchNumbers DEF SearchInv, SearchTypes, RulesAreRecent, SnapshotsLive, AnswersAreRecent, Recent, Within
<1>2. SearchInit => PromisesRun
  BY DEF SearchInit, PromisesRun
<1> QED BY <1>1, <1>2, SearchStarts, SearchStep, PromiseStep, PTL DEF SearchSpec

-----------------------------------------------------------------------------
(* The payment screen.                                                     *)
(*                                                                         *)
(* As long as nothing excuses it, one request is under way at most and     *)
(* what Redis replays is the live QR, which outlives the replay.           *)

ScreenRows == [at : {"closed", "loading", "waiting", "creating", "storing", "error", "success"},
               qr : 0..MaxQrs, status : {"open", "paid", "ticketed", "issue_failed", "expired"}]

ScreenTypes ==
    /\ booking \in {"open", "paid", "ticketed", "issue_failed", "expired"} /\ crossed \in BOOLEAN
    /\ qrs \in 0..MaxQrs /\ liveQr \in 0..qrs /\ flaws \in Nat
    /\ life \in [1..MaxQrs -> 0..QrLife] /\ replay \in [qr : 0..MaxQrs, left : 0..ReplayLife]
    /\ screens \in [Screen -> ScreenRows]

OneRequests == \A s, t \in Screen : Requesting(s) /\ Requesting(t) => s = t
RequestSound(s) ==
    /\ screens[s].at = "creating" => replay.left = 0
    /\ screens[s].at = "storing" =>
          screens[s].qr = liveQr /\ liveQr # 0 /\ life[liveQr] = QrLife
ReplaySound == replay.left > 0 => replay.qr = liveQr /\ liveQr # 0 /\ life[liveQr] >= replay.left

ReplayIsLive ==
    /\ \A q \in 1..MaxQrs : q > qrs => life[q] = QrLife
    /\ \/ booking # "open" \/ flaws # 0 \/ crossed
       \/ OneRequests /\ ReplaySound /\ \A s \in Screen : RequestSound(s)

ScreenInv == ScreenTypes /\ ReplayIsLive

LEMMA ScreenNumbers ==
    MaxQrs \in Nat /\ MaxQrs > 0 /\ QrLife \in Nat /\ QrLife > 0 /\ ReplayLife \in Nat /\ MaxFlaws \in Nat
BY ScreenAssumption

LEMMA ScreenStarts == ScreenInit => ScreenInv
<1> SUFFICES ASSUME ScreenInit PROVE ScreenInv
  OBVIOUS
<1>1. /\ booking = "open" /\ qrs = 0 /\ liveQr = 0 /\ crossed = FALSE /\ flaws = 0
      /\ life = [q \in 1..MaxQrs |-> QrLife] /\ replay = [qr |-> 0, left |-> 0]
      /\ \A s \in Screen : screens[s] = NewScreen
  BY DEF ScreenInit
<1>2. NewScreen \in ScreenRows /\ NewScreen.at = "closed"
  BY ScreenNumbers DEF NewScreen, ScreenRows
<1>3. ScreenTypes
  <2>1. screens \in [Screen -> ScreenRows]
    BY <1>2 DEF ScreenInit
  <2>2. life \in [1..MaxQrs -> 0..QrLife] /\ replay \in [qr : 0..MaxQrs, left : 0..ReplayLife]
    BY <1>1, ScreenNumbers
  <2>3. booking \in {"open", "paid", "ticketed", "issue_failed", "expired"} /\ crossed \in BOOLEAN
    BY <1>1
  <2>4. qrs \in 0..MaxQrs /\ liveQr \in 0..qrs /\ flaws \in Nat
    BY <1>1, ScreenNumbers
  <2> QED BY <2>1, <2>2, <2>3, <2>4 DEF ScreenTypes
<1>4. ReplayIsLive
  BY <1>1, <1>2, ScreenNumbers DEF ReplayIsLive, OneRequests, ReplaySound, RequestSound, Requesting
<1> QED BY <1>3, <1>4 DEF ScreenInv

\* A screen that asks for nothing and is given nothing new.
LEMMA ScreenMoves ==
    ASSUME ScreenInv, NEW s \in Screen, NEW row \in ScreenRows, row.at \notin {"creating", "storing"},
           screens' = [screens EXCEPT ![s] = row],
           UNCHANGED <<booking, qrs, liveQr, life, replay, crossed, flaws>>
    PROVE  ScreenInv'
<1>1. /\ \A t \in Screen \ {s} : screens'[t] = screens[t]
      /\ screens'[s] = row /\ screens' \in [Screen -> ScreenRows]
  BY DEF ScreenInv, ScreenTypes
<1>2. ScreenTypes'
  BY <1>1 DEF ScreenInv, ScreenTypes
<1>3. ReplayIsLive'
  BY <1>1 DEF ScreenInv, ReplayIsLive, OneRequests, ReplaySound, RequestSound, Requesting
<1> QED BY <1>2, <1>3 DEF ScreenInv

LEMMA ScreensMove ==
    ASSUME ScreenInv, NEW s \in Screen, OpenScreen(s) \/ ReplayQr(s) \/ QrRefused(s) \/ Poll(s) \/ CloseScreen(s)
    PROVE  ScreenInv'
<1>1. UNCHANGED <<booking, qrs, liveQr, life, replay, crossed, flaws>>
  BY DEF OpenScreen, ReplayQr, QrRefused, Poll, CloseScreen
<1>2. screens[s] \in ScreenRows /\ booking \in {"open", "paid", "ticketed", "issue_failed", "expired"} /\ replay.qr \in 0..MaxQrs
  BY ScreenNumbers DEF ScreenInv, ScreenTypes
<1>3. ASSUME NEW at \in {"closed", "loading", "waiting", "error"}, ScreenGoes(s, at) PROVE ScreenInv'
  <2> DEFINE row == [screens[s] EXCEPT !.at = at]
  <2>1. row \in ScreenRows /\ row.at = at
    BY <1>2 DEF ScreenRows
  <2>2. screens' = [screens EXCEPT ![s] = row]
    BY <1>3 DEF ScreenGoes
  <2> HIDE DEF row
  <2> QED BY <1>1, <2>1, <2>2, ScreenMoves
<1>4. CASE ReplayQr(s)
  <2> DEFINE row == [screens[s] EXCEPT !.at = "waiting", !.qr = replay.qr]
  <2>1. row \in ScreenRows /\ row.at = "waiting"
    BY <1>2 DEF ScreenRows
  <2>2. screens' = [screens EXCEPT ![s] = row]
    BY <1>4 DEF ReplayQr, ShowQr
  <2> HIDE DEF row
  <2> QED BY <1>1, <2>1, <2>2, ScreenMoves
<1>5. CASE Poll(s)
  <2> DEFINE row == Told(screens[s])
  <2>1. screens' = [screens EXCEPT ![s] = row]
    BY <1>5 DEF Poll
  <2>2. row \in ScreenRows /\ row.at \in {"success", screens[s].at}
    BY <1>2 DEF ScreenRows, Told
  <2>3. \/ row.at \notin {"creating", "storing"} \/ row = [screens[s] EXCEPT !.status = booking]
    BY <1>2 DEF ScreenRows, Told
  <2>4. CASE row.at \notin {"creating", "storing"}
    <3> HIDE DEF row
    <3> QED BY <1>1, <2>1, <2>2, <2>4, ScreenMoves
  <2>5. CASE row = [screens[s] EXCEPT !.status = booking]
    <3>1. row.at = screens[s].at /\ row.qr = screens[s].qr
      BY <1>2, <2>5 DEF ScreenRows
    <3> HIDE DEF row
    <3>2. /\ screens' \in [Screen -> ScreenRows]
          /\ \A t \in Screen : screens'[t].at = screens[t].at /\ screens'[t].qr = screens[t].qr
      BY <2>1, <2>2, <3>1 DEF ScreenInv, ScreenTypes
    <3>3. ScreenTypes'
      BY <1>1, <3>2 DEF ScreenInv, ScreenTypes
    <3>4. ReplayIsLive'
      BY <1>1, <3>2 DEF ScreenInv, ReplayIsLive, OneRequests, ReplaySound, RequestSound, Requesting
    <3> QED BY <3>3, <3>4 DEF ScreenInv
  <2> QED BY <2>3, <2>4, <2>5
<1>6. CASE screens' = [screens EXCEPT ![s] = NewScreen]
  <2>1. NewScreen \in ScreenRows /\ NewScreen.at = "closed"
    BY ScreenNumbers DEF NewScreen, ScreenRows
  <2> QED BY <1>1, <1>6, <2>1, ScreenMoves
<1> QED BY <1>3, <1>4, <1>5, <1>6 DEF OpenScreen, QrRefused, CloseScreen

LEMMA ReplayMissed ==
    ASSUME ScreenInv, NEW s \in Screen, ReplayMisses(s)
    PROVE  ScreenInv'
<1>1. /\ screens' = [screens EXCEPT ![s] = [@ EXCEPT !.at = "creating"]]
      /\ UNCHANGED <<booking, qrs, liveQr, life, replay>>
      /\ crossed' = (crossed \/ \E t \in Screen \ {s} : Requesting(t))
      /\ (replay.left = 0 /\ flaws' = flaws) \/ (flaws' = flaws + 1)
  BY DEF ReplayMisses, ScreenGoes, Replays, ScreenInv, ScreenTypes
<1>2. /\ \A t \in Screen \ {s} : screens'[t] = screens[t]
      /\ screens[s] \in ScreenRows /\ screens'[s] = [screens[s] EXCEPT !.at = "creating"]
      /\ screens' = [t \in Screen |-> screens'[t]]
  BY <1>1 DEF ScreenInv, ScreenTypes
<1>3. screens'[s] \in ScreenRows /\ screens'[s].at = "creating"
  BY <1>2 DEF ScreenRows
<1>4. ScreenTypes'
  <2>1. screens' \in [Screen -> ScreenRows]
    BY <1>2, <1>3 DEF ScreenInv, ScreenTypes
  <2>2. crossed' \in BOOLEAN
    BY <1>1
  <2>3. flaws' \in Nat
    BY <1>1 DEF ScreenInv, ScreenTypes
  <2> QED BY <1>1, <2>1, <2>2, <2>3 DEF ScreenInv, ScreenTypes
<1>5. ReplayIsLive'
  <2>1. \A q \in 1..MaxQrs : q > qrs' => life'[q] = QrLife
    BY <1>1 DEF ScreenInv, ReplayIsLive
  <2>2. CASE booking # "open" \/ flaws # 0 \/ crossed \/ flaws' = flaws + 1
    BY <1>1, <2>1, <2>2 DEF ReplayIsLive, ScreenInv, ScreenTypes
  <2>3. CASE \E t \in Screen \ {s} : Requesting(t)
    BY <1>1, <2>1, <2>3 DEF ReplayIsLive
  <2>4. CASE /\ booking = "open" /\ flaws = 0 /\ ~crossed /\ replay.left = 0
             /\ \A t \in Screen \ {s} : ~Requesting(t)
    <3>1. \A t \in Screen : Requesting(t)' => t = s
      BY <1>2, <2>4 DEF Requesting
    <3>2. ReplaySound' /\ \A t \in Screen : RequestSound(t)'
      BY <1>1, <1>2, <1>3, <2>4 DEF ReplaySound, RequestSound, Requesting
    <3> QED BY <2>1, <3>1, <3>2 DEF ReplayIsLive, OneRequests
  <2> QED BY <1>1, <2>2, <2>3, <2>4
<1> QED BY <1>4, <1>5 DEF ScreenInv

LEMMA QrCreated ==
    ASSUME ScreenInv, NEW s \in Screen, CreateQr(s)
    PROVE  ScreenInv'
<1>1. /\ screens[s].at = "creating" /\ qrs < MaxQrs /\ qrs' = qrs + 1 /\ liveQr' = qrs + 1
      /\ screens' = [screens EXCEPT ![s] = [@ EXCEPT !.at = "storing", !.qr = qrs + 1]]
      /\ UNCHANGED <<booking, life, replay, crossed, flaws>>
  BY DEF CreateQr
<1>2. /\ \A t \in Screen \ {s} : screens'[t] = screens[t]
      /\ screens[s] \in ScreenRows /\ screens'[s] = [screens[s] EXCEPT !.at = "storing", !.qr = qrs + 1]
      /\ screens' = [t \in Screen |-> screens'[t]]
  BY <1>1 DEF ScreenInv, ScreenTypes
<1>3. qrs + 1 \in 1..MaxQrs /\ qrs \in Nat
  BY <1>1, ScreenNumbers DEF ScreenInv, ScreenTypes
<1>4. screens'[s] \in ScreenRows /\ screens'[s].at = "storing" /\ screens'[s].qr = qrs + 1
  <2>1. qrs + 1 \in 0..MaxQrs
    BY <1>3, ScreenNumbers
  <2> QED BY <1>2, <2>1 DEF ScreenRows
<1>5. ScreenTypes'
  <2>1. screens' \in [Screen -> ScreenRows]
    BY <1>2, <1>4 DEF ScreenInv, ScreenTypes
  <2>2. qrs' \in 0..MaxQrs /\ liveQr' \in 0..qrs' /\ replay' \in [qr : 0..MaxQrs, left : 0..ReplayLife]
    BY <1>1, <1>3, ScreenNumbers DEF ScreenInv, ScreenTypes
  <2> QED BY <1>1, <2>1, <2>2 DEF ScreenInv, ScreenTypes
<1>6. \A q \in 1..MaxQrs : q > qrs' => life'[q] = QrLife
  BY <1>1, <1>3 DEF ScreenInv, ReplayIsLive
<1>7. life'[liveQr'] = QrLife /\ liveQr' # 0
  BY <1>1, <1>3 DEF ScreenInv, ReplayIsLive
<1>8. CASE booking # "open" \/ flaws # 0 \/ crossed
  BY <1>1, <1>5, <1>6, <1>8 DEF ScreenInv, ReplayIsLive
<1>9. CASE OneRequests /\ ReplaySound /\ \A t \in Screen : RequestSound(t)
  <2>1. \A t \in Screen \ {s} : ~Requesting(t)
    BY <1>1, <1>9 DEF OneRequests, Requesting
  <2>2. replay'.left = 0
    BY <1>1, <1>9 DEF RequestSound
  <2>3. OneRequests'
    BY <1>2, <2>1 DEF OneRequests, Requesting
  <2>4. \A t \in Screen : RequestSound(t)'
    BY <1>1, <1>2, <1>4, <1>7, <2>1, <2>2 DEF RequestSound, Requesting
  <2>5. ReplaySound'
    BY <2>2 DEF ReplaySound
  <2> QED BY <1>5, <1>6, <2>3, <2>4, <2>5 DEF ScreenInv, ReplayIsLive
<1> QED BY <1>8, <1>9 DEF ScreenInv, ReplayIsLive

LEMMA QrStored ==
    ASSUME ScreenInv, ReplayLife <= QrLife, NEW s \in Screen, StoreQr(s)
    PROVE  ScreenInv'
<1>1. /\ screens[s].at = "storing"
      /\ screens' = [screens EXCEPT ![s] = [@ EXCEPT !.at = "waiting"]]
      /\ UNCHANGED <<booking, qrs, liveQr, life, crossed>>
      /\ \/ replay' = [qr |-> screens[s].qr, left |-> ReplayLife] /\ flaws' = flaws
         \/ replay' = replay /\ flaws' = flaws + 1
  BY DEF StoreQr, ScreenGoes
<1>2. /\ \A t \in Screen \ {s} : screens'[t] = screens[t]
      /\ screens[s] \in ScreenRows /\ screens'[s] = [screens[s] EXCEPT !.at = "waiting"]
      /\ screens' = [t \in Screen |-> screens'[t]]
  BY <1>1 DEF ScreenInv, ScreenTypes
<1>3. screens'[s] \in ScreenRows /\ screens'[s].at = "waiting"
  BY <1>2 DEF ScreenRows
<1>4. screens' \in [Screen -> ScreenRows]
  BY <1>2, <1>3 DEF ScreenInv, ScreenTypes
<1>5. ScreenTypes'
  <2>1. screens[s].qr \in 0..MaxQrs
    BY <1>2 DEF ScreenRows
  <2>2. replay' \in [qr : 0..MaxQrs, left : 0..ReplayLife]
    <3>1. CASE replay' = [qr |-> screens[s].qr, left |-> ReplayLife]
      BY <2>1, <3>1, ScreenNumbers
    <3>2. CASE replay' = replay
      BY <3>2 DEF ScreenInv, ScreenTypes
    <3> QED BY <1>1, <3>1, <3>2
  <2>3. flaws' \in Nat
    BY <1>1 DEF ScreenInv, ScreenTypes
  <2> QED BY <1>1, <1>4, <2>2, <2>3 DEF ScreenInv, ScreenTypes
<1>6. \A q \in 1..MaxQrs : q > qrs' => life'[q] = QrLife
  BY <1>1 DEF ScreenInv, ReplayIsLive
<1>7. CASE booking # "open" \/ flaws # 0 \/ crossed \/ flaws' = flaws + 1
  <2>1. booking' # "open" \/ flaws' # 0 \/ crossed'
    BY <1>1, <1>7 DEF ScreenInv, ScreenTypes
  <2> QED BY <1>5, <1>6, <2>1 DEF ScreenInv, ReplayIsLive
<1>8. CASE /\ OneRequests /\ ReplaySound /\ \A t \in Screen : RequestSound(t)
           /\ replay' = [qr |-> screens[s].qr, left |-> ReplayLife]
  <2>1. \A t \in Screen : Requesting(t)' => t # s /\ Requesting(t)
    BY <1>2, <1>3 DEF Requesting
  <2>2. \A t \in Screen : ~Requesting(t)'
    BY <1>1, <1>8, <2>1 DEF OneRequests, Requesting
  <2>3. screens[s].qr = liveQr /\ liveQr # 0 /\ life[liveQr] = QrLife
    BY <1>1, <1>8 DEF RequestSound
  <2>4. ReplaySound'
    BY <1>1, <1>8, <2>3, ScreenNumbers DEF ReplaySound
  <2>5. OneRequests' /\ \A t \in Screen : RequestSound(t)'
    BY <2>2 DEF OneRequests, RequestSound, Requesting
  <2> QED BY <1>5, <1>6, <2>4, <2>5 DEF ScreenInv, ReplayIsLive
<1> QED BY <1>1, <1>7, <1>8 DEF ScreenInv, ReplayIsLive

\* The time a QR has left and that of its replay pass together.
LEMMA FiveMinutesPass ==
    ASSUME ScreenInv, FiveMinutes
    PROVE  ScreenInv'
<1>1. /\ \A s \in Screen : ~Requesting(s)
      /\ life' = [q \in 1..MaxQrs |-> IF q <= qrs THEN Less(life[q]) ELSE life[q]]
      /\ replay' = [replay EXCEPT !.left = Less(replay.left)]
      /\ liveQr' = IF liveQr # 0 /\ life'[liveQr] = 0 THEN 0 ELSE liveQr
      /\ UNCHANGED <<booking, qrs, screens, crossed, flaws>>
  BY DEF FiveMinutes
<1>2. /\ replay'.qr = replay.qr /\ replay'.left = Less(replay.left)
      /\ replay' \in [qr : 0..MaxQrs, left : 0..ReplayLife]
  <2>1. replay \in [qr : 0..MaxQrs, left : 0..ReplayLife]
    BY DEF ScreenInv, ScreenTypes
  <2> QED BY <1>1, <2>1, ScreenNumbers DEF Less
<1>3. ASSUME NEW q \in 1..MaxQrs
      PROVE  /\ life'[q] \in 0..QrLife
             /\ q <= qrs => life'[q] = Less(life[q])
             /\ q > qrs => life'[q] = life[q]
  <2>1. life[q] \in 0..QrLife /\ q \in Int /\ qrs \in Int
    BY ScreenNumbers DEF ScreenInv, ScreenTypes
  <2>2. life'[q] = IF q <= qrs THEN Less(life[q]) ELSE life[q]
    BY <1>1
  <2> QED BY <2>1, <2>2, ScreenNumbers DEF Less
<1>4. ScreenTypes'
  <2>1. life' \in [1..MaxQrs -> 0..QrLife]
    BY <1>1, <1>3
  <2>2. liveQr' \in 0..qrs'
    BY <1>1 DEF ScreenInv, ScreenTypes
  <2> QED BY <1>1, <1>2, <2>1, <2>2 DEF ScreenInv, ScreenTypes
<1>5. \A q \in 1..MaxQrs : q > qrs' => life'[q] = QrLife
  BY <1>1, <1>3 DEF ScreenInv, ReplayIsLive
<1>6. OneRequests' /\ \A s \in Screen : RequestSound(s)'
  BY <1>1 DEF OneRequests, RequestSound, Requesting
<1>7. CASE booking # "open" \/ flaws # 0 \/ crossed
  BY <1>1, <1>4, <1>5, <1>7 DEF ScreenInv, ReplayIsLive
<1>8. CASE ReplaySound
  <2>1. ASSUME replay'.left > 0
        PROVE  replay'.qr = liveQr' /\ liveQr' # 0 /\ life'[liveQr'] >= replay'.left
    <3>1. replay.left > 1 /\ replay'.left = replay.left - 1
      BY <1>2, <2>1, ScreenNumbers DEF Less, ScreenInv, ScreenTypes
    <3>2. /\ replay.left \in Nat /\ replay.qr = liveQr /\ life[liveQr] >= replay.left
          /\ liveQr \in 1..MaxQrs /\ liveQr <= qrs /\ life[liveQr] \in 0..QrLife
      BY <1>8, <3>1, ScreenNumbers DEF ReplaySound, ScreenInv, ScreenTypes
    <3>3. life'[liveQr] = life[liveQr] - 1
      BY <1>3, <3>1, <3>2, ScreenNumbers DEF Less
    <3>4. liveQr' = liveQr
      BY <1>1, <3>1, <3>2, <3>3, ScreenNumbers
    <3> QED BY <1>2, <3>1, <3>2, <3>3, <3>4, ScreenNumbers
  <2>2. ReplaySound'
    BY <2>1 DEF ReplaySound
  <2> QED BY <1>4, <1>5, <1>6, <2>2 DEF ScreenInv, ReplayIsLive
<1> QED BY <1>7, <1>8 DEF ScreenInv, ReplayIsLive

LEMMA ScreenStep ==
    ASSUME ScreenInv, ReplayLife <= QrLife, [ScreenNext]_screenVars
    PROVE  ScreenInv'
<1>1. ASSUME TransferArrives \/ AdminIssues \/ DeadlinePasses PROVE ScreenInv'
  <2>1. /\ booking' \in {"paid", "ticketed", "issue_failed", "expired"} /\ liveQr' \in {0, liveQr}
        /\ UNCHANGED <<qrs, life, replay, screens, crossed, flaws>>
    BY <1>1 DEF TransferArrives, AdminIssues, DeadlinePasses
  <2>2. ScreenTypes'
    BY <2>1 DEF ScreenInv, ScreenTypes
  <2>3. ReplayIsLive'
    BY <2>1 DEF ScreenInv, ReplayIsLive
  <2> QED BY <2>2, <2>3 DEF ScreenInv
<1>2. CASE UNCHANGED screenVars
  BY <1>2 DEF screenVars, ScreenInv, ScreenTypes, ReplayIsLive, OneRequests, ReplaySound, RequestSound, Requesting
<1> QED BY <1>1, <1>2, ScreensMove, ReplayMissed, QrCreated, QrStored, FiveMinutesPass DEF ScreenNext

\* Where a replay ends before the QR it replays, a tab is handed the QR that can be paid, or
\* the booking is closed, Redis failed or two requests crossed (sepay.service.ts,
\* createIntentForBooking; usePayment.ts).
THEOREM HandedQrIsLive ==
    ASSUME ReplayLife <= QrLife
    PROVE  ScreenSpec => OfferedQrIsLive
<1> DEFINE Handed(s) ==
       screens[s].at \in {"loading", "storing"} /\ screens'[s].at = "waiting" =>
          \/ screens'[s].qr = liveQr
          \/ booking # "open" \/ flaws # 0 \/ crossed
<1>1. ASSUME ScreenInv, ScreenNext, NEW s \in Screen PROVE Handed(s)
  <2> SUFFICES ASSUME screens[s].at \in {"loading", "storing"}, screens'[s].at = "waiting"
               PROVE  screens'[s].qr = liveQr \/ booking # "open" \/ flaws # 0 \/ crossed
    OBVIOUS
  <2>1. screens \in [Screen -> ScreenRows]
    BY <1>1 DEF ScreenInv, ScreenTypes
  <2>2. ReplayQr(s) \/ StoreQr(s)
    <3>1. ASSUME NEW t \in Screen, NEW row, screens' = [screens EXCEPT ![t] = row] PROVE t = s
      BY <2>1, <3>1
    <3>2. screens' # screens
      BY <2>1
    <3>3. PICK t \in Screen : OpenScreen(t) \/ ReplayQr(t) \/ ReplayMisses(t) \/ CreateQr(t)
                                \/ QrRefused(t) \/ StoreQr(t) \/ Poll(t) \/ CloseScreen(t)
      BY <1>1, <3>2 DEF ScreenNext, TransferArrives, AdminIssues, DeadlinePasses, FiveMinutes
    <3>4. \E row : screens' = [screens EXCEPT ![t] = row]
      BY <3>3, Zenon DEF OpenScreen, ReplayQr, ReplayMisses, CreateQr, QrRefused, StoreQr, Poll, CloseScreen,
                         ScreenGoes, ShowQr
    <3>5. t = s
      BY <3>1, <3>4
    <3>6. ASSUME NEW at, at # "waiting" PROVE ~ScreenGoes(s, at)
      BY <2>1, <3>6 DEF ScreenGoes, ScreenRows
    <3>7. ~OpenScreen(s) /\ ~ReplayMisses(s) /\ ~QrRefused(s)
      BY <3>6 DEF OpenScreen, ReplayMisses, QrRefused
    <3>8. ~CreateQr(s) /\ ~CloseScreen(s)
      BY <2>1, <3>6 DEF CreateQr, CloseScreen, NewScreen, ScreenRows
    <3>9. ~Poll(s)
      <4>1. screens[s].at # "waiting" /\ screens[s] \in ScreenRows
        BY <2>1
      <4>2. Poll(s) => screens'[s] = Told(screens[s])
        BY <2>1 DEF Poll
      <4> QED BY <4>1, <4>2 DEF ScreenRows, Told
    <3> QED BY <3>3, <3>5, <3>7, <3>8, <3>9
  <2>3. CASE ReplayQr(s)
    <3>1. replay.left > 0 /\ screens'[s].qr = replay.qr
      BY <2>1, <2>3 DEF ReplayQr, Replays, ShowQr, ScreenRows
    <3> QED BY <1>1, <3>1 DEF ScreenInv, ReplayIsLive, ReplaySound
  <2>4. CASE StoreQr(s)
    <3>1. screens[s].at = "storing" /\ screens'[s].qr = screens[s].qr
      BY <2>1, <2>4 DEF StoreQr, ScreenGoes, ScreenRows
    <3> QED BY <1>1, <3>1 DEF ScreenInv, ReplayIsLive, RequestSound
  <2> QED BY <2>2, <2>3, <2>4
<1>2. ReplayLife <= QrLife => (ScreenInv /\ [ScreenNext]_screenVars => ScreenInv')
  BY ScreenStep
<1>3. ScreenInv /\ [ScreenNext]_screenVars => [\A s \in Screen : Handed(s)]_screenVars
  BY <1>1
<1>4. ScreenSpec => [][\A s \in Screen : Handed(s)]_screenVars
  BY <1>2, <1>3, ScreenStarts, PTL DEF ScreenSpec
<1> QED BY <1>4 DEF OfferedQrIsLive

-----------------------------------------------------------------------------
(* The notifications.                                                      *)
(*                                                                         *)
(* Every message that arrived, job that may still send one and caller that *)
(* is still to enqueue one is paid for by the note or by its troubles; the *)
(* jobs know of no message that did not arrive; and a note that is for     *)
(* Telegram keeps such a job until a message arrives or something fails.   *)

Asks(job, n) == job # Null /\ job.note = n /\ job.step # "writing"
Pending(n) == {j \in Job : Asks(jobs[j], n)}
One(condition) == IF condition THEN 1 ELSE 0

NotifierTypes ==
    /\ prefs \in PrefRows /\ clock \in 0..Day - 1
    /\ notes \in [Note -> NoteRows \cup {Null}] /\ jobs \in [Job -> JobRows \cup {Null}]
    /\ mail \in [Note -> Nat] /\ mishaps \in [Note -> Nat]
    /\ \A j \in Job : jobs[j] # Null => notes[jobs[j].note] # Null
    /\ \A n \in adding : n \in Note /\ notes[n] # Null

MailPaid(n) ==
    /\ IsFiniteSet(Pending(n))
    /\ mail[n] + Cardinality(Pending(n)) + One(n \in adding) <= 1 + mishaps[n]
    /\ notes[n] = Null => mail[n] = 0

MailOwed(n) ==
    notes[n] # Null /\ "TELEGRAM" \in notes[n].attempted /\ mail[n] = 0 /\ mishaps[n] = 0 /\ n \notin refused =>
        n \in adding \/ Pending(n) # {}

MailTold(n) == notes[n] # Null /\ "TELEGRAM" \in notes[n].succeeded => mail[n] > 0
JobTold(j) == jobs[j] # Null /\ (jobs[j].sent \/ "TELEGRAM" \in jobs[j].seen) => mail[jobs[j].note] > 0

MailKept ==
    /\ \A n \in Note : MailPaid(n) /\ MailOwed(n) /\ MailTold(n)
    /\ \A j \in Job : JobTold(j)

NotifierInv == NotifierTypes /\ MailKept

LEMMA NoRowIsNull == Null \notin NoteRows /\ Null \notin JobRows /\ Day \in Nat /\ Day > 0 /\ Attempts \in Nat
BY NotifierAssumption

\* What becomes of the jobs that may still send a message when one job changes.
LEMMA PendingMoves ==
    ASSUME NotifierTypes, NEW j \in Job, NEW x, NEW n \in Note,
           jobs' = [jobs EXCEPT ![j] = x], IsFiniteSet(Pending(n))
    PROVE  /\ Asks(x, n) => Pending(n)' # {}
           /\ ~Asks(jobs[j], n) => Pending(n) \subseteq Pending(n)'
           /\ IsFiniteSet(Pending(n)')
           /\ Cardinality(Pending(n)) \in Nat
           /\ Cardinality(Pending(n)') \in Nat
           /\ Cardinality(Pending(n)') + One(Asks(jobs[j], n)) = Cardinality(Pending(n)) + One(Asks(x, n))
<1>1. /\ jobs'[j] = x /\ \A k \in Job \ {j} : jobs'[k] = jobs[k]
  BY DEF NotifierTypes
<1>2. CASE Asks(x, n) <=> Asks(jobs[j], n)
  <2>1. Pending(n)' = Pending(n)
    BY <1>1, <1>2 DEF Pending
  <2>2. Asks(x, n) => j \in Pending(n)
    BY <1>2 DEF Pending
  <2>3. One(Asks(x, n)) = One(Asks(jobs[j], n)) /\ One(Asks(x, n)) \in Nat
    BY <1>2 DEF One
  <2> QED BY <2>1, <2>2, <2>3, FS_CardinalityType
<1>3. CASE Asks(x, n) /\ ~Asks(jobs[j], n)
  <2>1. Pending(n)' = Pending(n) \cup {j} /\ j \notin Pending(n)
    BY <1>1, <1>3 DEF Pending
  <2>2. IsFiniteSet(Pending(n)') /\ Cardinality(Pending(n)') = Cardinality(Pending(n)) + 1
    BY <2>1, FS_AddElement
  <2> QED BY <1>3, <2>1, <2>2, FS_CardinalityType DEF One
<1>4. CASE ~Asks(x, n) /\ Asks(jobs[j], n)
  <2>1. Pending(n)' = Pending(n) \ {j} /\ j \in Pending(n)
    BY <1>1, <1>4 DEF Pending
  <2>2. IsFiniteSet(Pending(n)') /\ Cardinality(Pending(n)') = Cardinality(Pending(n)) - 1
    BY <2>1, FS_RemoveElement
  <2> QED BY <1>4, <2>2, FS_CardinalityType DEF One
<1> QED BY <1>2, <1>3, <1>4

\* What a step does to one note, its job in one slot and its messages.
Moved(j, x, n) ==
    /\ jobs' = [jobs EXCEPT ![j] = x]
    /\ x \in JobRows \cup {Null} /\ (x # Null => x.note = n) /\ (jobs[j] # Null => jobs[j].note = n)
    /\ prefs' = prefs /\ clock' = clock /\ refused \subseteq refused'
    /\ adding' = adding \/ adding' = adding \ {n}
    /\ notes[n] # Null
    /\ \A m \in Note \ {n} : mail'[m] = mail[m] /\ mishaps'[m] = mishaps[m]
    /\ mail' \in [Note -> Nat] /\ mishaps' \in [Note -> Nat]
    /\ mail'[n] >= mail[n] /\ mishaps'[n] >= mishaps[n]
    /\ mail'[n] + One(Asks(x, n)) + One(n \in adding') - mishaps'[n]
         <= mail[n] + One(Asks(jobs[j], n)) + One(n \in adding) - mishaps[n]
    /\ x # Null /\ (x.sent \/ "TELEGRAM" \in x.seen) => mail'[n] > 0
    /\ \/ mail'[n] > 0 \/ mishaps'[n] > 0 \/ n \in refused' \/ "TELEGRAM" \notin notes[n].attempted
       \/ Asks(x, n) \/ (~Asks(jobs[j], n) /\ adding' = adding)

\* The row of a note keeps the channels it is for, and gains no message that did not arrive.
RowMoved(n) ==
    /\ notes' \in [Note -> NoteRows \cup {Null}]
    /\ \A m \in Note \ {n} : notes'[m] = notes[m]
    /\ notes'[n] # Null /\ notes'[n].attempted = notes[n].attempted
    /\ "TELEGRAM" \in notes'[n].succeeded => "TELEGRAM" \in notes[n].succeeded \/ mail'[n] > 0

LEMMA JobMoves ==
    ASSUME NotifierInv, NEW j \in Job, NEW x, NEW n \in Note, Moved(j, x, n), RowMoved(n)
    PROVE  NotifierInv'
<1>1. /\ jobs'[j] = x /\ \A k \in Job \ {j} : jobs'[k] = jobs[k]
      /\ jobs' \in [Job -> JobRows \cup {Null}]
  BY DEF Moved, NotifierInv, NotifierTypes
<1>2. \A m \in Note : notes[m] # Null => notes'[m] # Null
  BY DEF RowMoved
<1>3. NotifierTypes'
  <2>1. \A k \in Job : jobs'[k] # Null => notes'[jobs'[k].note] # Null
    <3>1. ASSUME NEW k \in Job, jobs'[k] # Null PROVE notes'[jobs'[k].note] # Null
      <4>1. CASE k = j
        BY <1>1, <3>1, <4>1 DEF Moved, RowMoved
      <4>2. CASE k # j
        <5>1. jobs[k] # Null /\ jobs[k].note \in Note /\ notes[jobs[k].note] # Null /\ jobs'[k] = jobs[k]
          BY <1>1, <3>1, <4>2 DEF NotifierInv, NotifierTypes, JobRows
        <5> QED BY <1>2, <5>1
      <4> QED BY <4>1, <4>2
    <3> QED BY <3>1
  <2>2. \A m \in adding' : m \in Note /\ notes'[m] # Null
    BY <1>2 DEF Moved, NotifierInv, NotifierTypes
  <2> QED BY <1>1, <2>1, <2>2 DEF Moved, RowMoved, NotifierInv, NotifierTypes
<1>4. ASSUME NEW m \in Note PROVE MailPaid(m)' /\ MailOwed(m)' /\ MailTold(m)'
  <2>1. MailPaid(m) /\ MailOwed(m) /\ MailTold(m) /\ NotifierTypes
    BY DEF NotifierInv, MailKept
  <2>2. jobs' = [jobs EXCEPT ![j] = x]
    BY DEF Moved
  <2>3. /\ Asks(x, m) => Pending(m)' # {}
        /\ ~Asks(jobs[j], m) => Pending(m) \subseteq Pending(m)'
        /\ IsFiniteSet(Pending(m)')
        /\ Cardinality(Pending(m)) \in Nat
        /\ Cardinality(Pending(m)') \in Nat
        /\ Cardinality(Pending(m)') + One(Asks(jobs[j], m)) = Cardinality(Pending(m)) + One(Asks(x, m))
    BY <2>1, <2>2, PendingMoves DEF MailPaid
  <2>4. /\ mail[m] \in Nat /\ mishaps[m] \in Nat /\ mail'[m] \in Nat /\ mishaps'[m] \in Nat
        /\ One(Asks(jobs[j], m)) \in 0..1 /\ One(Asks(x, m)) \in 0..1
        /\ One(m \in adding) \in 0..1 /\ One(m \in adding') \in 0..1
    BY <1>3, <2>1 DEF NotifierTypes, One
  <2>5. CASE m = n
    <3>1. mail'[m] + Cardinality(Pending(m)') + One(m \in adding') <= 1 + mishaps'[m]
      <4>1. mail[m] + Cardinality(Pending(m)) + One(m \in adding) <= 1 + mishaps[m]
        BY <2>1 DEF MailPaid
      <4>2. mail'[m] + One(Asks(x, m)) + One(m \in adding') - mishaps'[m]
              <= mail[m] + One(Asks(jobs[j], m)) + One(m \in adding) - mishaps[m]
        BY <2>5 DEF Moved
      <4> QED BY <2>3, <2>4, <4>1, <4>2
    <3>2. MailPaid(m)'
      BY <2>3, <2>5, <3>1 DEF MailPaid, RowMoved
    <3>3. MailTold(m)'
      BY <2>1, <2>4, <2>5 DEF MailTold, Moved, RowMoved
    <3>4. MailOwed(m)'
      <4>1. SUFFICES ASSUME "TELEGRAM" \in notes'[m].attempted, mail'[m] = 0, mishaps'[m] = 0, m \notin refused'
                     PROVE  m \in adding' \/ Pending(m)' # {}
        BY DEF MailOwed
      <4>2. "TELEGRAM" \in notes[m].attempted /\ mail[m] = 0 /\ mishaps[m] = 0 /\ m \notin refused /\ notes[m] # Null
        BY <2>4, <2>5, <4>1 DEF Moved, RowMoved
      <4>3. m \in adding \/ Pending(m) # {}
        BY <2>1, <4>2 DEF MailOwed
      <4>4. Asks(x, m) \/ (~Asks(jobs[j], m) /\ adding' = adding)
        BY <2>4, <2>5, <4>1, <4>2 DEF Moved
      <4> QED BY <2>3, <4>3, <4>4
    <3> QED BY <3>2, <3>3, <3>4
  <2>6. CASE m # n
    <3>1. /\ notes'[m] = notes[m] /\ mail'[m] = mail[m] /\ mishaps'[m] = mishaps[m]
          /\ (m \in adding' <=> m \in adding) /\ (m \in refused => m \in refused')
      BY <2>6 DEF Moved, RowMoved
    <3>2. ~Asks(x, m) /\ ~Asks(jobs[j], m)
      BY <2>6 DEF Asks, Moved
    <3>3. Cardinality(Pending(m)') = Cardinality(Pending(m)) /\ Pending(m) \subseteq Pending(m)'
      BY <2>3, <3>2 DEF One
    <3>4. One(m \in adding') = One(m \in adding)
      BY <3>1 DEF One
    <3>5. MailPaid(m)'
      BY <2>1, <2>3, <3>1, <3>3, <3>4 DEF MailPaid
    <3>6. MailOwed(m)' /\ MailTold(m)'
      BY <2>1, <3>1, <3>3 DEF MailOwed, MailTold
    <3> QED BY <3>5, <3>6
  <2> QED BY <2>5, <2>6
<1>5. ASSUME NEW k \in Job PROVE JobTold(k)'
  <2>1. CASE k = j
    BY <1>1, <2>1 DEF JobTold, Moved
  <2>2. CASE k # j
    <3>1. jobs'[k] = jobs[k] /\ JobTold(k) /\ (jobs[k] # Null => jobs[k].note \in Note)
      BY <1>1, <2>2 DEF NotifierInv, NotifierTypes, MailKept, JobRows
    <3>2. \A m \in Note : mail[m] > 0 => mail'[m] > 0
      BY DEF Moved, NotifierInv, NotifierTypes
    <3> QED BY <3>1, <3>2 DEF JobTold
  <2> QED BY <2>1, <2>2
<1> QED BY <1>3, <1>4, <1>5 DEF NotifierInv, MailKept

LEMMA NewJob ==
    ASSUME NEW n \in Note, NEW wait \in Int
    PROVE  /\ JobFor(n, wait) \in JobRows /\ JobFor(n, wait) # Null /\ Asks(JobFor(n, wait), n)
           /\ JobFor(n, wait).note = n /\ ~JobFor(n, wait).sent /\ JobFor(n, wait).seen = {}
<1> DEFINE x == JobFor(n, wait)
<1>1. x = [note |-> n, wait |-> wait, left |-> Attempts, step |-> "waiting",
           prefs |-> Null, seen |-> {}, sent |-> FALSE]
  BY DEF JobFor
<1>2. Attempts \in Int /\ Null \in PrefRows \cup {Null} /\ {} \in SUBSET Channels
  BY NoRowIsNull
<1>3. x \in JobRows
  BY <1>1, <1>2 DEF JobRows
<1>4. x.note = n /\ x.step = "waiting" /\ x.sent = FALSE /\ x.seen = {}
  BY <1>1
<1> HIDE DEF x
<1> QED BY <1>3, <1>4, NoRowIsNull DEF Asks, x

LEMMA JobAgain ==
    ASSUME NEW j \in Job, jobs[j] \in JobRows, NEW left \in Int
    PROVE  /\ Again(j, left) \in JobRows /\ Again(j, left) # Null /\ Asks(Again(j, left), jobs[j].note)
           /\ Again(j, left).note = jobs[j].note /\ ~Again(j, left).sent /\ Again(j, left).seen = {}
<1>1. jobs[j].note \in Note
  BY DEF JobRows
<1>2. /\ Again(j, left).note = jobs[j].note /\ ~Again(j, left).sent /\ Again(j, left).seen = {}
      /\ Again(j, left).step = "waiting" /\ Again(j, left) \in JobRows
  <2> DEFINE x == JobFor(jobs[j].note, 0)
  <2>1. x \in JobRows /\ x.note = jobs[j].note /\ ~x.sent /\ x.seen = {} /\ x.step = "waiting"
    BY <1>1, NewJob DEF JobFor
  <2>2. Again(j, left) = [x EXCEPT !.left = left]
    BY DEF Again
  <2> HIDE DEF x
  <2> QED BY <2>1, <2>2 DEF JobRows
<1> QED BY <1>2, NoRowIsNull DEF Asks

\* What the rows say of a job that is there, and of the note it is about.
LEMMA JobsNote ==
    ASSUME NotifierInv, NEW j \in Job, jobs[j] # Null
    PROVE  /\ jobs[j] \in JobRows /\ jobs[j].note \in Note /\ notes[jobs[j].note] \in NoteRows
           /\ notes[jobs[j].note] # Null
           /\ jobs[j].sent \/ "TELEGRAM" \in jobs[j].seen => mail[jobs[j].note] > 0
           /\ mail[jobs[j].note] \in Nat /\ mishaps[jobs[j].note] \in Nat
<1>1. jobs[j] \in JobRows /\ jobs[j].note \in Note /\ JobTold(j)
  BY DEF NotifierInv, NotifierTypes, MailKept, JobRows
<1> QED BY <1>1 DEF NotifierInv, NotifierTypes, JobTold

LEMMA RowStays ==
    ASSUME NotifierInv, NEW n \in Note, notes[n] # Null, notes' = notes
    PROVE  RowMoved(n)
BY DEF NotifierInv, NotifierTypes, RowMoved

LEMMA WaitIsNumber ==
    ASSUME NotifierInv, NEW n \in Note
    PROVE  Defers(n) \in Int
<1>1. prefs.quiet \in Quiet /\ clock \in Int
  BY NoRowIsNull DEF NotifierInv, NotifierTypes, PrefRows
<1>2. prefs.quiet # Null => prefs.quiet[2] \in Int
  BY <1>1, NotifierAssumption
<1>3. QuietHoursDefer(prefs.quiet, clock) \in Int
  <2>1. CASE ~InQuiet(prefs.quiet, clock)
    BY <2>1 DEF QuietHoursDefer
  <2>2. CASE InQuiet(prefs.quiet, clock)
    <3>1. prefs.quiet[2] \in Int /\ Day \in Int
      BY <1>2, <2>2, NoRowIsNull DEF InQuiet
    <3> QED BY <1>1, <2>2, <3>1 DEF QuietHoursDefer
  <2> QED BY <2>1, <2>2
<1> QED BY <1>3 DEF Defers

\* A job that changes without a message, and whose note may meet trouble.
Quietly(j, x, n) ==
    /\ jobs' = [jobs EXCEPT ![j] = x]
    /\ x \in JobRows \cup {Null} /\ (x # Null => x.note = n) /\ (jobs[j] # Null => jobs[j].note = n)
    /\ prefs' = prefs /\ clock' = clock /\ refused' = refused /\ mail' = mail
    /\ adding' = adding \/ adding' = adding \ {n}
    /\ notes[n] # Null
    /\ mishaps' = mishaps \/ mishaps' = [mishaps EXCEPT ![n] = @ + 1]
    /\ One(Asks(x, n)) + One(n \in adding') <= One(Asks(jobs[j], n)) + One(n \in adding) + mishaps'[n] - mishaps[n]
    /\ x # Null /\ (x.sent \/ "TELEGRAM" \in x.seen) => mail[n] > 0
    /\ \/ mishaps'[n] # mishaps[n] \/ "TELEGRAM" \notin notes[n].attempted
       \/ Asks(x, n) \/ (~Asks(jobs[j], n) /\ adding' = adding)

LEMMA QuietMove ==
    ASSUME NotifierInv, NEW j \in Job, NEW x, NEW n \in Note, Quietly(j, x, n)
    PROVE  Moved(j, x, n)
<1>1. /\ mail \in [Note -> Nat] /\ mishaps \in [Note -> Nat]
  BY DEF NotifierInv, NotifierTypes
<1>2. /\ mishaps' \in [Note -> Nat] /\ \A m \in Note \ {n} : mishaps'[m] = mishaps[m]
      /\ mishaps'[n] \in {mishaps[n], mishaps[n] + 1}
  BY <1>1 DEF Quietly
<1>3. /\ mail[n] \in Nat /\ mishaps[n] \in Nat /\ One(Asks(x, n)) \in Int /\ One(n \in adding') \in Int
      /\ One(Asks(jobs[j], n)) \in Int /\ One(n \in adding) \in Int
  BY <1>1 DEF One
<1>4. mail'[n] + One(Asks(x, n)) + One(n \in adding') - mishaps'[n]
        <= mail[n] + One(Asks(jobs[j], n)) + One(n \in adding) - mishaps[n]
  <2>1. /\ mail' = mail
        /\ One(Asks(x, n)) + One(n \in adding')
             <= One(Asks(jobs[j], n)) + One(n \in adding) + mishaps'[n] - mishaps[n]
    BY DEF Quietly
  <2> QED BY <1>2, <1>3, <2>1
<1>5. \/ mail'[n] > 0 \/ mishaps'[n] > 0 \/ n \in refused' \/ "TELEGRAM" \notin notes[n].attempted
      \/ Asks(x, n) \/ (~Asks(jobs[j], n) /\ adding' = adding)
  BY <1>2, <1>3 DEF Quietly
<1> QED BY <1>1, <1>2, <1>3, <1>4, <1>5 DEF Moved, Quietly

LEMMA FirstJob ==
    ASSUME NotifierInv, NEW n \in Note, AddJob(n)
    PROVE  NotifierInv'
<1>1. PICK j \in Job : jobs[j] = Null /\ jobs' = [jobs EXCEPT ![j] = JobFor(n, 0)]
  BY DEF AddJob, FreeJobs
<1>2. n \in adding /\ adding' = adding \ {n} /\ UNCHANGED <<prefs, clock, notes, mail, mishaps, refused>>
  BY DEF AddJob
<1>3. notes[n] # Null /\ mishaps[n] \in Nat
  BY <1>2 DEF NotifierInv, NotifierTypes
<1>4. /\ One(n \in adding') = 0 /\ One(n \in adding) = 1 /\ One(Asks(JobFor(n, 0), n)) = 1
      /\ One(Asks(jobs[j], n)) = 0
  BY <1>1, <1>2, NewJob DEF One, Asks
<1>5. Quietly(j, JobFor(n, 0), n)
  BY <1>1, <1>2, <1>3, <1>4, NewJob DEF Quietly
<1> QED BY <1>2, <1>3, <1>5, RowStays, QuietMove, JobMoves

LEMMA NothingToSend ==
    ASSUME NotifierInv, NEW j \in Job, DispatchNothing(j)
    PROVE  NotifierInv'
<1>n. PICK n : n = jobs[j].note
  OBVIOUS
<1>1. /\ jobs[j] # Null /\ jobs' = [jobs EXCEPT ![j] = Null] /\ "TELEGRAM" \notin notes[n].attempted
      /\ UNCHANGED <<prefs, clock, notes, adding, mail, mishaps, refused>>
  BY <1>n, <1>n DEF DispatchNothing, Due, Externals
<1>2. n \in Note /\ notes[n] # Null /\ mishaps[n] \in Nat
  BY <1>n, <1>1, JobsNote
<1>3. One(Asks(Null, n)) = 0 /\ One(Asks(jobs[j], n)) \in 0..1
  BY <1>n, <1>n DEF One, Asks
<1>4. One(n \in adding') = One(n \in adding) /\ One(n \in adding) \in Int
  BY <1>n, <1>1 DEF One
<1>5. Quietly(j, Null, n)
  BY <1>n, <1>1, <1>2, <1>3, <1>4 DEF Quietly
<1> QED BY <1>n, <1>1, <1>2, <1>5, RowStays, QuietMove, JobMoves

LEMMA JobPutOff ==
    ASSUME NotifierInv, NEW j \in Job, DispatchDefers(j)
    PROVE  NotifierInv'
<1>n. PICK n, x : n = jobs[j].note /\ x = JobFor(n, Defers(n))
  OBVIOUS
<1>1. /\ jobs[j] # Null /\ jobs[j].step = "waiting" /\ jobs' = [jobs EXCEPT ![j] = x]
      /\ UNCHANGED <<prefs, clock, notes, adding, mail, mishaps, refused>>
  BY <1>n DEF DispatchDefers, Due
<1>2. n \in Note /\ notes[n] # Null /\ mishaps[n] \in Nat
  BY <1>n, <1>1, JobsNote
<1>3. x \in JobRows /\ Asks(x, n) /\ x.note = n /\ ~x.sent /\ x.seen = {}
  BY <1>n, <1>2, NewJob, WaitIsNumber
<1>4. One(Asks(x, n)) = 1 /\ One(Asks(jobs[j], n)) = 1
  BY <1>n, <1>1, <1>3 DEF One, Asks
<1>5. One(n \in adding') = One(n \in adding) /\ One(n \in adding) \in Int
  BY <1>n, <1>1 DEF One
<1>m. One(Asks(x, n)) + One(n \in adding') <= One(Asks(jobs[j], n)) + One(n \in adding) + mishaps'[n] - mishaps[n]
  BY <1>1, <1>2, <1>4, <1>5
<1>6. Quietly(j, x, n)
  BY <1>m, <1>n, <1>1, <1>2, <1>3, <1>4, <1>5 DEF Quietly
<1> QED BY <1>n, <1>1, <1>2, <1>6, RowStays, QuietMove, JobMoves

LEMMA JobPutOffTwice ==
    ASSUME NotifierInv, NEW j \in Job, DefersTwice(j)
    PROVE  NotifierInv'
<1>n. PICK n, x : n = jobs[j].note /\ x = JobFor(n, Defers(n))
  OBVIOUS
<1>1. PICK k \in Job : jobs[k] = Null /\ jobs' = [jobs EXCEPT ![k] = x]
  BY <1>n DEF DefersTwice, FreeJobs
<1>2. /\ jobs[j] # Null /\ mishaps' = [mishaps EXCEPT ![n] = @ + 1]
      /\ UNCHANGED <<prefs, clock, notes, adding, mail, refused>>
  BY <1>n DEF DefersTwice, Due, Mishap
<1>3. n \in Note /\ notes[n] # Null /\ mishaps[n] \in Nat
  BY <1>n, <1>2, JobsNote
<1>4. mishaps'[n] = mishaps[n] + 1
  BY <1>n, <1>2, <1>3 DEF NotifierInv, NotifierTypes
<1>5. x \in JobRows /\ Asks(x, n) /\ x.note = n /\ ~x.sent /\ x.seen = {}
  BY <1>n, <1>3, NewJob, WaitIsNumber
<1>6. One(Asks(x, n)) = 1 /\ One(Asks(jobs[k], n)) = 0
  BY <1>n, <1>1, <1>5 DEF One, Asks
<1>7. One(n \in adding') = One(n \in adding) /\ One(n \in adding) \in Int
  BY <1>n, <1>2 DEF One
<1>m. One(Asks(x, n)) + One(n \in adding') <= One(Asks(jobs[k], n)) + One(n \in adding) + mishaps'[n] - mishaps[n]
  BY <1>3, <1>4, <1>6, <1>7
<1>8. Quietly(k, x, n)
  BY <1>m, <1>n, <1>1, <1>2, <1>3, <1>4, <1>5, <1>6, <1>7 DEF Quietly
<1> QED BY <1>n, <1>2, <1>3, <1>8, RowStays, QuietMove, JobMoves

LEMMA SendingStarts ==
    ASSUME NotifierInv, NEW j \in Job, DispatchStarts(j)
    PROVE  NotifierInv'
<1>n. PICK n : n = jobs[j].note
  OBVIOUS
<1>x. PICK x : x = [jobs[j] EXCEPT !.step = "sending", !.prefs = prefs, !.seen = notes[n].succeeded]
  OBVIOUS
<1>1. /\ jobs[j] # Null /\ jobs[j].step = "waiting" /\ jobs' = [jobs EXCEPT ![j] = x]
      /\ UNCHANGED <<prefs, clock, notes, adding, mail, mishaps, refused>>
  BY <1>n, <1>x DEF DispatchStarts, Due
<1>2. /\ n \in Note /\ notes[n] # Null /\ mishaps[n] \in Nat /\ jobs[j] \in JobRows /\ notes[n] \in NoteRows
      /\ jobs[j].sent => mail[n] > 0
      /\ "TELEGRAM" \in notes[n].succeeded => mail[n] > 0
  BY <1>n, <1>1, JobsNote DEF NotifierInv, MailKept, MailTold
<1>3. /\ x \in JobRows /\ x.note = n /\ x.step = "sending" /\ x.sent = jobs[j].sent
      /\ x.seen = notes[n].succeeded
  BY <1>n, <1>x, <1>2 DEF JobRows, NoteRows, NotifierInv, NotifierTypes
<1>4. Asks(x, n) /\ Asks(jobs[j], n)
  BY <1>n, <1>1, <1>3, NoRowIsNull DEF Asks
<1>5. One(Asks(x, n)) = 1 /\ One(Asks(jobs[j], n)) = 1
  BY <1>n, <1>4 DEF One
<1>6. One(n \in adding') = One(n \in adding) /\ One(n \in adding) \in Int
  BY <1>n, <1>1 DEF One
<1>m. One(Asks(x, n)) + One(n \in adding') <= One(Asks(jobs[j], n)) + One(n \in adding) + mishaps'[n] - mishaps[n]
  BY <1>1, <1>2, <1>5, <1>6
<1>7. Quietly(j, x, n)
  BY <1>m, <1>n, <1>1, <1>2, <1>3, <1>4, <1>5, <1>6 DEF Quietly
<1> QED BY <1>n, <1>1, <1>2, <1>7, RowStays, QuietMove, JobMoves

LEMMA JobFails ==
    ASSUME NotifierInv, NEW j \in Job, JobThrows(j) \/ WorkerStalls(j)
    PROVE  NotifierInv'
<1>n. PICK n : n = jobs[j].note
  OBVIOUS
<1>1. /\ jobs[j] # Null /\ mishaps' = [mishaps EXCEPT ![n] = @ + 1]
      /\ UNCHANGED <<prefs, clock, notes, adding, mail, refused>>
  BY <1>n DEF JobThrows, WorkerStalls, Due, Sending, Writing, Mishap
<1>2. /\ n \in Note /\ notes[n] # Null /\ mishaps[n] \in Nat /\ jobs[j] \in JobRows
      /\ jobs[j].left \in Int
  BY <1>n, <1>1, JobsNote DEF JobRows
<1>3. mishaps'[n] = mishaps[n] + 1
  BY <1>n, <1>1, <1>2 DEF NotifierInv, NotifierTypes
<1>4. PICK x : /\ jobs' = [jobs EXCEPT ![j] = x]
               /\ x = Null \/ \E left \in Int : x = Again(j, left)
  <2>1. jobs[j].left - 1 \in Int
    BY <1>n, <1>2
  <2> QED BY <1>n, <1>2, <2>1 DEF JobThrows, WorkerStalls, Thrown
<1>5. x \in JobRows \cup {Null} /\ (x # Null => x.note = n /\ ~x.sent /\ x.seen = {})
  BY <1>n, <1>2, <1>4, JobAgain
<1>6. One(Asks(x, n)) \in 0..1 /\ One(Asks(jobs[j], n)) \in 0..1
  BY <1>n DEF One
<1>7. One(n \in adding') = One(n \in adding) /\ One(n \in adding) \in Int
  BY <1>n, <1>1 DEF One
<1>8. One(Asks(x, n)) + One(n \in adding') <= One(Asks(jobs[j], n)) + One(n \in adding) + mishaps'[n] - mishaps[n]
  BY <1>n, <1>2, <1>3, <1>6, <1>7
<1>9. Quietly(j, x, n)
  BY <1>n, <1>1, <1>2, <1>3, <1>4, <1>5, <1>8 DEF Quietly
<1> QED BY <1>n, <1>1, <1>2, <1>9, RowStays, QuietMove, JobMoves

\* One message more at most, and a job the less that may send one.
LEMMA MessageSent ==
    ASSUME NotifierInv, NEW j \in Job, Send(j)
    PROVE  NotifierInv'
<1>1. PICK n : n = jobs[j].note
  OBVIOUS
<1>2. PICK arrives \in BOOLEAN, confirmed \in BOOLEAN :
          /\ confirmed => arrives
          /\ mail' = [mail EXCEPT ![n] = IF arrives THEN @ + 1 ELSE @]
          /\ refused' = IF "TELEGRAM" \in Externals(n) /\ ~confirmed THEN refused \cup {n} ELSE refused
          /\ jobs' = [jobs EXCEPT ![j] = [jobs[j] EXCEPT !.step = "writing", !.sent = confirmed]]
  BY <1>1, Zenon DEF Send
<1>3. PICK x : x = [jobs[j] EXCEPT !.step = "writing", !.sent = confirmed]
  OBVIOUS
<1>4. /\ jobs[j] # Null /\ jobs[j].step = "sending"
      /\ UNCHANGED <<prefs, clock, notes, adding, mishaps>>
  BY DEF Send, Sending
<1>5. /\ n \in Note /\ notes[n] # Null /\ mishaps[n] \in Nat /\ mail[n] \in Nat /\ jobs[j] \in JobRows
      /\ "TELEGRAM" \in jobs[j].seen => mail[n] > 0
  BY <1>1, <1>4, JobsNote
<1>6. /\ x \in JobRows /\ x.note = n /\ x.step = "writing" /\ x.sent = confirmed /\ x.seen = jobs[j].seen
  BY <1>1, <1>3, <1>5 DEF JobRows
<1>7. /\ mail \in [Note -> Nat] /\ mishaps \in [Note -> Nat]
  BY DEF NotifierInv, NotifierTypes
<1>8. /\ mail' \in [Note -> Nat] /\ \A m \in Note \ {n} : mail'[m] = mail[m]
      /\ mail'[n] = mail[n] + One(arrives)
  BY <1>2, <1>5, <1>7 DEF One
<1>9. One(Asks(x, n)) = 0 /\ One(Asks(jobs[j], n)) = 1
  BY <1>1, <1>4, <1>6 DEF One, Asks
<1>10. One(n \in adding') = One(n \in adding) /\ One(n \in adding) \in Int /\ One(arrives) \in 0..1
  BY <1>4 DEF One
<1>11. mail'[n] + One(Asks(x, n)) + One(n \in adding') - mishaps'[n]
         <= mail[n] + One(Asks(jobs[j], n)) + One(n \in adding) - mishaps[n]
  BY <1>4, <1>5, <1>8, <1>9, <1>10
<1>12. confirmed => mail'[n] > 0
  BY <1>2, <1>5, <1>8 DEF One
<1>13. "TELEGRAM" \notin notes[n].attempted \/ confirmed \/ n \in refused'
  BY <1>2 DEF Externals
<1>14. Moved(j, x, n)
  BY <1>1, <1>2, <1>3, <1>4, <1>5, <1>6, <1>7, <1>8, <1>10, <1>11, <1>12, <1>13 DEF Moved
<1> QED BY <1>4, <1>5, <1>14, RowStays, JobMoves

LEMMA RowWritten ==
    ASSUME NotifierInv, NEW j \in Job, Write(j)
    PROVE  NotifierInv'
<1>1. PICK n : n = jobs[j].note
  OBVIOUS
<1>2. /\ jobs[j] # Null /\ jobs[j].step = "writing" /\ jobs' = [jobs EXCEPT ![j] = Null]
      /\ notes' = [notes EXCEPT ![n] = [@ EXCEPT !.succeeded = Succeeded(j)]]
      /\ UNCHANGED <<prefs, clock, adding, mail, mishaps, refused>>
  BY <1>1 DEF Write, Writing
<1>3. /\ n \in Note /\ notes[n] # Null /\ notes[n] \in NoteRows /\ mishaps[n] \in Nat /\ jobs[j] \in JobRows
      /\ jobs[j].sent \/ "TELEGRAM" \in jobs[j].seen => mail[n] > 0
  BY <1>1, <1>2, JobsNote
<1>4. One(Asks(Null, n)) = 0 /\ One(Asks(jobs[j], n)) = 0
  BY <1>2 DEF One, Asks
<1>5. One(n \in adding') = One(n \in adding) /\ One(n \in adding) \in Int
  BY <1>2 DEF One
<1>6. One(Asks(Null, n)) + One(n \in adding') <= One(Asks(jobs[j], n)) + One(n \in adding) + mishaps'[n] - mishaps[n]
  BY <1>2, <1>3, <1>4, <1>5
<1>7. ~Asks(jobs[j], n)
  BY <1>2 DEF Asks
<1>8. Quietly(j, Null, n)
  BY <1>1, <1>2, <1>3, <1>6, <1>7 DEF Quietly
<1>9. RowMoved(n)
  <2>1. Succeeded(j) \in SUBSET Channels /\ ("TELEGRAM" \in Succeeded(j) => mail[n] > 0)
    BY <1>3 DEF Succeeded, JobRows, Channels
  <2>2. notes'[n] = [notes[n] EXCEPT !.succeeded = Succeeded(j)] /\ \A m \in Note \ {n} : notes'[m] = notes[m]
    BY <1>2, <1>3 DEF NotifierInv, NotifierTypes
  <2>3. notes'[n] \in NoteRows /\ notes'[n].attempted = notes[n].attempted /\ notes'[n].succeeded = Succeeded(j)
    BY <1>3, <2>1, <2>2 DEF NoteRows
  <2>4. notes' \in [Note -> NoteRows \cup {Null}]
    BY <1>2, <1>3, <2>2, <2>3 DEF NotifierInv, NotifierTypes
  <2> QED BY <1>2, <2>1, <2>2, <2>3, <2>4, NoRowIsNull DEF RowMoved
<1> QED BY <1>3, <1>8, <1>9, QuietMove, JobMoves

LEMMA RowCreated ==
    ASSUME NotifierInv, NEW n \in Note, CreateRow(n)
    PROVE  NotifierInv'
<1>1. PICK kind \in Kinds, requested \in {{}, {"IN_APP"}, {"TELEGRAM"}} :
          notes' = [notes EXCEPT ![n] = [kind |-> kind, succeeded |-> {"IN_APP"},
                                         attempted |-> ResolveChannels(prefs, requested)]]
  BY DEF CreateRow
<1>2. /\ notes[n] = Null /\ adding' = adding \cup {n}
      /\ UNCHANGED <<prefs, clock, jobs, mail, mishaps, refused>>
  BY DEF CreateRow
<1>3. NotifierTypes /\ MailPaid(n) /\ n \notin adding
  BY <1>2 DEF NotifierInv, NotifierTypes, MailKept
<1>4. /\ notes'[n] \in NoteRows /\ notes'[n] # Null /\ "TELEGRAM" \notin notes'[n].succeeded
      /\ \A m \in Note \ {n} : notes'[m] = notes[m]
      /\ notes' = [m \in Note |-> notes'[m]]
  <2>1. ResolveChannels(prefs, requested) \in SUBSET Channels
    BY DEF ResolveChannels, EnabledChannels, Channels
  <2>2. notes'[n] = [kind |-> kind, succeeded |-> {"IN_APP"}, attempted |-> ResolveChannels(prefs, requested)]
    BY <1>1, <1>3 DEF NotifierTypes
  <2>3. notes'[n] \in NoteRows
    BY <2>1, <2>2 DEF NoteRows, Channels
  <2> QED BY <1>1, <1>3, <2>2, <2>3, NoRowIsNull DEF NotifierTypes
<1>5. Pending(n) = {} /\ Cardinality(Pending(n)) = 0 /\ IsFiniteSet(Pending(n))
  BY <1>2, <1>3, FS_EmptySet DEF NotifierTypes, Pending, Asks
<1>6. \A m \in Note : Pending(m)' = Pending(m)
  BY <1>2 DEF Pending
<1>7. NotifierTypes'
  <2>1. notes' \in [Note -> NoteRows \cup {Null}]
    BY <1>3, <1>4 DEF NotifierTypes
  <2>2. \A m \in Note : notes[m] # Null => notes'[m] # Null
    BY <1>4
  <2>3. \A k \in Job : jobs'[k] # Null => notes'[jobs'[k].note] # Null
    BY <1>2, <1>3, <2>2 DEF NotifierTypes, JobRows
  <2>4. \A m \in adding' : m \in Note /\ notes'[m] # Null
    BY <1>2, <1>3, <1>4, <2>2 DEF NotifierTypes
  <2> QED BY <1>2, <1>3, <2>1, <2>3, <2>4 DEF NotifierTypes
<1>8. ASSUME NEW m \in Note PROVE MailPaid(m)' /\ MailOwed(m)' /\ MailTold(m)'
  <2>1. CASE m = n
    <3>1. mail[m] = 0 /\ mishaps[m] \in Nat /\ One(m \in adding') = 1
      BY <1>2, <1>3, <2>1 DEF MailPaid, NotifierTypes, One
    <3>2. MailPaid(m)'
      BY <1>2, <1>4, <1>5, <1>6, <2>1, <3>1 DEF MailPaid
    <3>3. MailOwed(m)' /\ MailTold(m)'
      BY <1>2, <1>4, <2>1 DEF MailOwed, MailTold
    <3> QED BY <3>2, <3>3
  <2>2. CASE m # n
    <3>1. notes'[m] = notes[m] /\ (m \in adding' <=> m \in adding) /\ One(m \in adding') = One(m \in adding)
      BY <1>2, <1>4, <2>2 DEF One
    <3>2. MailPaid(m) /\ MailOwed(m) /\ MailTold(m)
      BY DEF NotifierInv, MailKept
    <3> QED BY <1>2, <1>6, <3>1, <3>2 DEF MailPaid, MailOwed, MailTold
  <2> QED BY <2>1, <2>2
<1>9. ASSUME NEW j \in Job PROVE JobTold(j)'
  BY <1>2 DEF NotifierInv, MailKept, JobTold
<1> QED BY <1>7, <1>8, <1>9 DEF NotifierInv, MailKept

LEMMA CallerFails ==
    ASSUME NotifierInv, NEW n \in Note, AddFails(n)
    PROVE  NotifierInv'
<1>1. /\ n \in adding /\ adding' = adding \ {n} /\ mishaps' = [mishaps EXCEPT ![n] = @ + 1]
      /\ UNCHANGED <<prefs, clock, notes, jobs, mail, refused>>
  BY DEF AddFails, Mishap
<1>2. /\ mishaps' \in [Note -> Nat] /\ mishaps'[n] = mishaps[n] + 1 /\ mishaps[n] \in Nat
      /\ \A m \in Note \ {n} : mishaps'[m] = mishaps[m]
  BY <1>1 DEF NotifierInv, NotifierTypes
<1>3. NotifierTypes'
  BY <1>1, <1>2 DEF NotifierInv, NotifierTypes
<1>4. \A m \in Note : Pending(m)' = Pending(m)
  BY <1>1 DEF Pending
<1>5. ASSUME NEW m \in Note PROVE MailPaid(m)' /\ MailOwed(m)' /\ MailTold(m)'
  <2>1. MailPaid(m) /\ MailOwed(m) /\ MailTold(m) /\ mail[m] \in Nat /\ mishaps[m] \in Nat
    BY DEF NotifierInv, NotifierTypes, MailKept
  <2>2. MailTold(m)'
    BY <1>1, <2>1 DEF MailTold
  <2>3. CASE m = n
    <3>1. One(m \in adding') = 0 /\ One(m \in adding) = 1
      BY <1>1, <2>3 DEF One
    <3>2. MailPaid(m)'
      BY <1>1, <1>2, <1>4, <2>1, <2>3, <3>1, FS_CardinalityType DEF MailPaid
    <3>3. MailOwed(m)'
      BY <1>2, <2>3 DEF MailOwed
    <3> QED BY <2>2, <3>2, <3>3
  <2>4. CASE m # n
    <3>1. (m \in adding' <=> m \in adding) /\ One(m \in adding') = One(m \in adding) /\ mishaps'[m] = mishaps[m]
      BY <1>1, <1>2, <2>4 DEF One
    <3> QED BY <1>1, <1>4, <2>1, <2>2, <3>1 DEF MailPaid, MailOwed
  <2> QED BY <2>3, <2>4
<1>6. ASSUME NEW j \in Job PROVE JobTold(j)'
  BY <1>1 DEF NotifierInv, MailKept, JobTold
<1> QED BY <1>3, <1>5, <1>6 DEF NotifierInv, MailKept

\* Jobs wait, and neither their notes nor what they know change.
LEMMA TimePasses ==
    ASSUME NotifierInv, Tick \/ EditPrefs \/ UNCHANGED notifierVars
    PROVE  NotifierInv'
<1>1. UNCHANGED <<notes, adding, mail, mishaps, refused>>
  BY DEF Tick, EditPrefs, notifierVars
<1>2. prefs' \in PrefRows /\ clock' \in 0..Day - 1
  <2>1. CASE Tick
    <3>1. clock' = (clock + 1) % Day /\ prefs' = prefs /\ clock + 1 \in Int
      BY <2>1, NoRowIsNull DEF Tick, NotifierInv, NotifierTypes
    <3> QED BY <3>1, NoRowIsNull DEF NotifierInv, NotifierTypes
  <2>2. CASE EditPrefs
    BY <2>2 DEF EditPrefs, PrefRows, NotifierInv, NotifierTypes
  <2>3. CASE UNCHANGED notifierVars
    BY <2>3 DEF notifierVars, NotifierInv, NotifierTypes
  <2> QED BY <2>1, <2>2, <2>3
<1>3. /\ \A j \in Job : \/ jobs'[j] = jobs[j]
                        \/ /\ jobs[j] # Null /\ jobs'[j] \in JobRows
                           /\ jobs'[j].note = jobs[j].note /\ jobs'[j].step = jobs[j].step
                           /\ jobs'[j].sent = jobs[j].sent /\ jobs'[j].seen = jobs[j].seen
      /\ jobs' = [j \in Job |-> jobs'[j]]
  <2>1. CASE Tick
    <3>1. jobs' = [j \in Job |-> IF jobs[j] # Null /\ jobs[j].step = "waiting"
                                 THEN [jobs[j] EXCEPT !.wait = @ - 1] ELSE jobs[j]]
      BY <2>1 DEF Tick
    <3>2. ASSUME NEW j \in Job, jobs[j] # Null, jobs'[j] = [jobs[j] EXCEPT !.wait = @ - 1]
          PROVE  /\ jobs'[j] \in JobRows
                 /\ jobs'[j].note = jobs[j].note /\ jobs'[j].step = jobs[j].step
                 /\ jobs'[j].sent = jobs[j].sent /\ jobs'[j].seen = jobs[j].seen
      <4>1. jobs[j] \in JobRows
        BY <3>2 DEF NotifierInv, NotifierTypes
      <4> QED BY <3>2, <4>1 DEF JobRows
    <3> QED BY <3>1, <3>2
  <2>2. CASE jobs' = jobs
    BY <2>2 DEF NotifierInv, NotifierTypes
  <2> QED BY <2>1, <2>2 DEF EditPrefs, notifierVars
<1>4. NotifierTypes'
  <2>1. jobs' \in [Job -> JobRows \cup {Null}]
    BY <1>3 DEF NotifierInv, NotifierTypes
  <2>2. \A j \in Job : jobs'[j] # Null => notes'[jobs'[j].note] # Null
    BY <1>1, <1>3 DEF NotifierInv, NotifierTypes
  <2> QED BY <1>1, <1>2, <2>1, <2>2 DEF NotifierInv, NotifierTypes
<1>5. \A m \in Note : Pending(m)' = Pending(m)
  BY <1>3, NoRowIsNull DEF Pending, Asks
<1>6. ASSUME NEW m \in Note PROVE MailPaid(m)' /\ MailOwed(m)' /\ MailTold(m)'
  BY <1>1, <1>5 DEF NotifierInv, MailKept, MailPaid, MailOwed, MailTold
<1>7. ASSUME NEW j \in Job PROVE JobTold(j)'
  BY <1>1, <1>3 DEF NotifierInv, MailKept, JobTold
<1> QED BY <1>4, <1>6, <1>7 DEF NotifierInv, MailKept

LEMMA NotifierStarts == NotifierInit => NotifierInv
<1> SUFFICES ASSUME NotifierInit PROVE NotifierInv
  OBVIOUS
<1>1. /\ notes = [n \in Note |-> Null] /\ jobs = [j \in Job |-> Null] /\ adding = {} /\ clock = 0
      /\ mail = [n \in Note |-> 0] /\ mishaps = [n \in Note |-> 0] /\ prefs \in PrefRows
  BY DEF NotifierInit, PrefRows
<1>2. NotifierTypes
  BY <1>1, NoRowIsNull DEF NotifierTypes
<1>3. ASSUME NEW n \in Note PROVE MailPaid(n) /\ MailOwed(n) /\ MailTold(n)
  <2>1. Pending(n) = {} /\ One(n \in adding) = 0
    BY <1>1 DEF Pending, Asks, One
  <2> QED BY <1>1, <2>1, FS_EmptySet DEF MailPaid, MailOwed, MailTold
<1>4. ASSUME NEW j \in Job PROVE JobTold(j)
  BY <1>1 DEF JobTold
<1> QED BY <1>2, <1>3, <1>4 DEF NotifierInv, MailKept

LEMMA NotifierStep == NotifierInv /\ [NotifierNext]_notifierVars => NotifierInv'
BY RowCreated, FirstJob, CallerFails, NothingToSend, JobPutOff, JobPutOffTwice, SendingStarts, MessageSent,
   RowWritten, JobFails, TimePasses
   DEF NotifierNext, DispatchStep

\* A message arrives at most once more than its note met trouble, a note marked as sent did
\* arrive, and one that never did had trouble or was refused (notifier.service.ts, dispatch;
\* notify-dispatch.processor.ts).
THEOREM EveryMessageIsAccountedFor == NotifierSpec => []MessagesAreAccountedFor
<1>1. ASSUME NotifierInv PROVE MessagesAreAccountedFor
  <2>1. ASSUME NEW n \in Note, notes[n] # Null
        PROVE  /\ mail[n] <= 1 + mishaps[n]
               /\ "TELEGRAM" \in notes[n].succeeded => mail[n] > 0
               /\ n \notin adding /\ JobsOf(n) = {} /\ "TELEGRAM" \in notes[n].attempted /\ mail[n] = 0
                    => mishaps[n] > 0 \/ n \in refused
    <3>1. MailPaid(n) /\ MailOwed(n) /\ MailTold(n) /\ mail[n] \in Nat /\ mishaps[n] \in Nat
      BY <1>1 DEF NotifierInv, NotifierTypes, MailKept
    <3>2. Cardinality(Pending(n)) \in Nat /\ One(n \in adding) \in Nat
      BY <3>1, FS_CardinalityType DEF MailPaid, One
    <3>3. mail[n] <= 1 + mishaps[n]
      BY <3>1, <3>2 DEF MailPaid
    <3>4. Pending(n) \subseteq JobsOf(n)
      BY DEF Pending, JobsOf, Asks
    <3> QED BY <2>1, <3>1, <3>3, <3>4 DEF MailOwed, MailTold
  <2> QED BY <2>1 DEF MessagesAreAccountedFor
<1>2. NotifierInv => MessagesAreAccountedFor
  BY <1>1
<1> QED BY <1>2, NotifierStarts, NotifierStep, PTL DEF NotifierSpec
=============================================================================
