---------------------------- MODULE FlightSearch ----------------------------
(***************************************************************************)
(* A search of one route and day (flights/flights.service.ts): the answer  *)
(* cached in Redis, the fetch that searches of one process share, the      *)
(* snapshots that make offers holdable, and the mark-up rules, which every *)
(* process caches too (pricing/markup.service.ts).  Real-time searches and *)
(* the hunter's go through the same code; only the sessions they may take  *)
(* differ (real-muadi.provider.ts).                                        *)
(*                                                                         *)
(* A set of rules is a version number; Net is the empty set a process      *)
(* falls back on when the database fails.  Ages count ticks of 60 s.       *)
(***************************************************************************)
EXTENDS Integers

CONSTANTS
    Process, Searcher,
    CacheTtl,     \* FLIGHT_SEARCH_CACHE_TTL_SECONDS
    RuleTtl,      \* rulesCacheTtlMs
    SnapshotTtl,  \* MUADI_OFFER_SNAPSHOT_TTL_SECONDS
    MaxVersion,   \* Bound on the changes of the rules.
    MaxOutages,   \* Bound on failing reads of the rules and on lost snapshots.
    Net, Nobody

ASSUME SearchAssumption ==
    /\ CacheTtl \in Nat \ {0} /\ RuleTtl \in Nat \ {0} /\ SnapshotTtl \in Nat /\ MaxVersion \in Nat
    /\ Net \notin Nat

VARIABLES
    answer,    \* The Redis entry: [rules, age], age CacheTtl when there is none.
    snapshot,  \* Ticks since the snapshots were written; SnapshotTtl when there are none.
    ruleCache, \* Each process's rules: [rules, age], age RuleTtl when they must be read.
    inflight,  \* The promise in each process's Map: [by, step, rules], what awaiting it gives.
    search,    \* Each searcher: [step, at, hunter, rules].
    version,   \* The rules in the database.
    retired,   \* Ticks since each version was replaced, up to Horizon.
    outage,    \* Ticks since a read of the rules failed, up to Horizon.
    outages,
    snapshotLost \* The last write of the snapshots failed.

searchVars == <<answer, snapshot, ruleCache, inflight, search, version, retired, outage, outages, snapshotLost>>

Horizon == CacheTtl + RuleTtl + 1
Min2(a, b) == IF a < b THEN a ELSE b

SearchIdle == [step |-> "idle", at |-> Nobody, hunter |-> FALSE, rules |-> Net]

NoPromise == [by |-> Nobody, step |-> "none", rules |-> Net]
Promise(s) == [by |-> s, step |-> "joined", rules |-> Net]

SearchInit ==
    /\ answer = [rules |-> Net, age |-> CacheTtl] /\ snapshot = SnapshotTtl
    /\ ruleCache = [p \in Process |-> [rules |-> Net, age |-> RuleTtl]]
    /\ inflight = [p \in Process |-> NoPromise]
    /\ search = [s \in Searcher |-> SearchIdle]
    /\ version = 0 /\ retired = [v \in 0..MaxVersion |-> 0]
    /\ outage = Horizon /\ outages = 0 /\ snapshotLost = FALSE

Step(s, step) == [search EXCEPT ![s] = [@ EXCEPT !.step = step]]
Served(s) == search[s].step = "served"

\* getCachedResponse: an entry that is alive; a Redis that fails counts as none.
CacheHit(p, s, hunter) ==
    /\ answer.age < CacheTtl
    /\ search' = [search EXCEPT ![s] = [step |-> "served", at |-> p, hunter |-> hunter, rules |-> answer.rules]]
    /\ UNCHANGED inflight

\* Awaits the promise in the Map; one that is settled gives its result, or its error, at once.
Join(p, s, hunter) ==
    /\ inflight[p] # NoPromise
    /\ search' = [search EXCEPT ![s] = [step |-> inflight[p].step, at |-> p, hunter |-> hunter,
                                        rules |-> inflight[p].rules]]
    /\ UNCHANGED inflight

Lead(p, s, hunter) ==
    /\ inflight[p] = NoPromise
    /\ search' = [search EXCEPT ![s] = [step |-> "asking", at |-> p, hunter |-> hunter, rules |-> Net]]
    /\ inflight' = [inflight EXCEPT ![p] = Promise(s)]

\* The look into the Map follows the answer of Redis without an await.
StartSearch(s) ==
    /\ search[s].step = "idle"
    /\ \E p \in Process, hunter \in BOOLEAN : CacheHit(p, s, hunter) \/ Join(p, s, hunter) \/ Lead(p, s, hunter)
    /\ UNCHANGED <<answer, snapshot, ruleCache, version, retired, outage, outages, snapshotLost>>

FaultKeepsFailed(s) ==
    [inflight EXCEPT ![search[s].at] = IF search[s].step = "asking" THEN [@ EXCEPT !.step = "failed"] ELSE NoPromise]
\* finally: the Map forgets the fetch, whether it answers or throws.
Forgotten(s) == [inflight EXCEPT ![search[s].at] = NoPromise]

\* Those who share the fetch of s, itself included.
Sharers(s) == {j \in Searcher : j = s \/ (search[j].step = "joined" /\ inflight[search[j].at].by = s)}

\* No session (for the hunter: no headroom), no airline answers, or a flight that cannot
\* be normalised: every sharer fails, a real-time search that joined the hunter's too.
FetchFails(s) ==
    /\ search[s].step = "asking"
    /\ search' = [j \in Searcher |-> IF j \in Sharers(s) THEN [search[j] EXCEPT !.step = "failed"] ELSE search[j]]
    /\ inflight' = Forgotten(s)
    /\ UNCHANGED <<answer, snapshot, ruleCache, version, retired, outage, outages, snapshotLost>>

\* The snapshots of net prices, before the mark-up; one that cannot be written is skipped.
SaveSnapshots(s) ==
    /\ search[s].step = "asking"
    /\ \/ snapshot' = 0 /\ snapshotLost' = FALSE /\ UNCHANGED outages
       \/ outages < MaxOutages /\ outages' = outages + 1 /\ snapshotLost' = TRUE /\ UNCHANGED snapshot
    /\ search' = Step(s, "marking")
    /\ UNCHANGED <<answer, ruleCache, inflight, version, retired, outage>>

Marked(s, rules) == [search EXCEPT ![s] = [@ EXCEPT !.step = "caching", !.rules = rules]]

FaultNeverExpires(p) == TRUE
RulesAlive(p) == ruleCache[p].age < RuleTtl

\* loadActiveRules: this process's rules, the database's, or none if it fails.
MarkUp(s) ==
    LET p == search[s].at IN
    /\ search[s].step = "marking"
    /\ \/ RulesAlive(p) /\ search' = Marked(s, ruleCache[p].rules) /\ UNCHANGED <<ruleCache, outage, outages>>
       \/ /\ ~RulesAlive(p)
          /\ search' = Marked(s, version)
          /\ ruleCache' = [ruleCache EXCEPT ![p] = [rules |-> version, age |-> 0]]
          /\ UNCHANGED <<outage, outages>>
       \/ /\ ~RulesAlive(p) /\ outages < MaxOutages
          /\ search' = Marked(s, Net)
          /\ ruleCache' = [ruleCache EXCEPT ![p] = [rules |-> Net, age |-> 0]]
          /\ outage' = 0 /\ outages' = outages + 1
    /\ UNCHANGED <<answer, snapshot, inflight, version, retired, snapshotLost>>

\* setCachedResponse (or its failure), then the answer to everybody who shares it.
Answer(s) ==
    /\ search[s].step = "caching"
    /\ answer' \in {answer, [rules |-> search[s].rules, age |-> 0]}
    /\ search' = [j \in Searcher |-> IF j \in Sharers(s)
                                     THEN [search[j] EXCEPT !.step = "served", !.rules = search[s].rules] ELSE search[j]]
    /\ inflight' = Forgotten(s)
    /\ UNCHANGED <<snapshot, ruleCache, version, retired, outage, outages, snapshotLost>>

\* The caller takes the answer, or the error, and goes.
Leave(s) ==
    /\ search[s].step \in {"served", "failed"}
    /\ search' = [search EXCEPT ![s] = SearchIdle]
    /\ UNCHANGED <<answer, snapshot, ruleCache, inflight, version, retired, outage, outages, snapshotLost>>

ChangeRules ==
    /\ version < MaxVersion /\ version' = version + 1
    /\ UNCHANGED <<answer, snapshot, ruleCache, inflight, search, retired, outage, outages, snapshotLost>>

\* Sixty seconds, which only a question to the airlines outlasts.
SearchTick ==
    /\ \A s \in Searcher : search[s].step \notin {"marking", "caching", "served", "failed"}
    /\ answer' = [answer EXCEPT !.age = Min2(@ + 1, CacheTtl)]
    /\ snapshot' = Min2(snapshot + 1, SnapshotTtl)
    /\ ruleCache' = [p \in Process |-> [ruleCache[p] EXCEPT !.age = Min2(@ + 1, RuleTtl)]]
    /\ retired' = [v \in 0..MaxVersion |-> IF v < version THEN Min2(retired[v] + 1, Horizon) ELSE 0]
    /\ outage' = Min2(outage + 1, Horizon)
    /\ UNCHANGED <<inflight, search, version, outages, snapshotLost>>

Proceed(s) == FetchFails(s) \/ SaveSnapshots(s) \/ MarkUp(s) \/ Answer(s) \/ Leave(s)

SearchNext == (\E s \in Searcher : StartSearch(s) \/ Proceed(s)) \/ ChangeRules \/ SearchTick

SearchSpec == SearchInit /\ [][SearchNext]_searchVars

\* The provider answers or times out, and nothing waits for more than that.
SearchFairness == \A s \in Searcher : WF_searchVars(Proceed(s))
SearchFairSpec == SearchSpec /\ SearchFairness

-----------------------------------------------------------------------------
(* Properties. *)

\* The two caches in a row bound what is served: prices by rules replaced less than
\* RuleTtl + CacheTtl ago, net prices only that long after the database failed, and
\* offers whose snapshots are still there to be held, unless they were not written.  The
\* last needs snapshots that outlive answers, which two settings of their own decide.
AnswersAreRecent ==
    \A s \in Searcher : Served(s) =>
        /\ search[s].rules # Net => retired[search[s].rules] <= RuleTtl + CacheTtl - 2
        /\ search[s].rules = Net => outage <= RuleTtl + CacheTtl - 2
        /\ snapshotLost \/ snapshot < SnapshotTtl

\* An error is never given again: when no fetch fails any more, searches stop failing too,
\* those that come to a process whose last fetch had failed (search, finally) included.
ErrorsEnd ==
    <>[][\A s \in Searcher : ~FetchFails(s)]_searchVars
        => <>[](\A s \in Searcher : search[s].step # "failed")
=============================================================================
