--------------------------- MODULE MCServicesLive ---------------------------
(* Four more parts that share no state (see MCServices), under the fairness *)
(* each of them states.                                                     *)
EXTENDS AuthSessions, NotifierDispatch, FlightSearch, PaymentScreen

CONSTANT browser
MCStores == {browser}
MCStoreOf == [t \in Tabs |-> browser]
MCQuiet == {Null, <<2, 1>>}

VARIABLE focus

services == <<focus, vars, notifierVars, searchVars, screenVars>>

Auth(A) == focus = "auth" /\ A /\ UNCHANGED <<focus, notifierVars, searchVars, screenVars>>
Notifier(A) == focus = "notifier" /\ A /\ UNCHANGED <<focus, vars, searchVars, screenVars>>
Search(A) == focus = "search" /\ A /\ UNCHANGED <<focus, vars, notifierVars, screenVars>>
Pay(A) == focus = "screen" /\ A /\ UNCHANGED <<focus, vars, notifierVars, searchVars>>

ServicesInit ==
    /\ focus \in {"auth", "notifier", "search", "screen"}
    /\ AuthInit /\ NotifierInit /\ SearchInit /\ ScreenInit
    /\ focus = "notifier" \/ prefs.quiet = Null

ServicesNext == Auth(AuthNext) \/ Notifier(NotifierNext) \/ Search(SearchNext) \/ Pay(ScreenNext)

\* The fairness of the focus; the others never move.
ServicesFairness ==
    /\ \A h \in Handlers : WF_services(Auth(Work(h)))
    /\ \A c \in Calls : WF_services(Auth(CallStep(c)))
    /\ \A n \in Note : WF_services(Notifier(AddJob(n) \/ AddFails(n)))
    /\ \A j \in Job : WF_services(Notifier(DispatchStep(j)))
    /\ WF_services(Notifier(Tick))
    /\ \A s \in Searcher : WF_services(Search(Proceed(s)))
    /\ \A s \in Screen : WF_services(Pay(Poll(s)))

ServicesSpec == ServicesInit /\ [][ServicesNext]_services /\ ServicesFairness
=============================================================================
