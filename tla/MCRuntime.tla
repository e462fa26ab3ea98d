----------------------------- MODULE MCRuntime -----------------------------
(***************************************************************************)
(* Services of the running program that share no state but wait and race   *)
(* inside: a behaviour is one of the chosen service, the others rest.      *)
(***************************************************************************)
EXTENDS EventBus, ExecutionStrategies, RealTimeMonitor, MetricsHistory, PluginReload

CONSTANTS e1, e2, t1, t2, t3

VARIABLE service

-----------------------------------------------------------------------------
MCFilters == {{e1}, {e1, e2}}

\* Every dependency relation between three tests, cycles and a missing test included.
MCOrders == {<<t1, t2, t3>>, <<t1, t2>>}
MCSuites == [order : MCOrders, deps : {d \in [Tests -> SUBSET Tests] : Cardinality(d[t1]) <= 1}]

\* Files of two plugins, one that is no library and one whose name is no text.
MCFile(plugin, library) == [plugin |-> plugin, library |-> library]
MCNotifications ==
    {<<MCFile("p", TRUE)>>,
     <<MCFile("p", FALSE), MCFile("q", TRUE), MCFile(NoName, TRUE), MCFile("p", TRUE)>>}

-----------------------------------------------------------------------------
MCInit ==
    /\ service \in {"events", "strategies", "monitor", "history", "reload"}
    /\ BusInit /\ StrategyInit /\ MonitorInit /\ HistoryInit /\ ReloadInit

MCNext ==
    /\ UNCHANGED service
    /\ \/ service = "events" /\ BusNext
       \/ service # "events" /\ UNCHANGED busVars
    /\ \/ service = "strategies" /\ StrategyNext
       \/ service # "strategies" /\ UNCHANGED strategyVars
    /\ \/ service = "monitor" /\ MonitorNext
       \/ service # "monitor" /\ UNCHANGED monitorVars
    /\ \/ service = "history" /\ HistoryNext
       \/ service # "history" /\ UNCHANGED historyVars
    /\ \/ service = "reload" /\ ReloadNext
       \/ service # "reload" /\ UNCHANGED reloadVars

\* BusFairness, StrategyFairness, MonitorFairness, HistoryFairness and ReloadFairness, each
\* for the behaviours of its service.
MCFairness ==
    /\ \A s \in Subscribers : WF_busVars(service = "events" /\ (recv(s) \/ recv_lagged(s)))
    /\ \A p \in Publishers : WF_busVars(service = "events" /\ send(p))
    /\ WF_strategyVars(service = "strategies" /\ tick)
    /\ WF_strategyVars(service = "strategies" /\ StrategyStep)
    /\ \A c \in Clients : WF_monitorVars(service = "monitor" /\ Proceed(c))
    /\ \A r \in Readers : WF_historyVars(service = "history" /\ ReaderStep(r))
    /\ \A l \in Collectors : WF_historyVars(service = "history" /\ LoopStep(l))
    /\ \A c \in Channels :
          /\ WF_reloadVars(service = "reload" /\ TaskStep(c))
          /\ WF_reloadVars(service = "reload" /\ debounce_tick(c))
    /\ WF_reloadVars(service = "reload" /\ advance)

MCSpec ==
    /\ MCInit
    /\ [][MCNext]_<<busVars, strategyVars, monitorVars, historyVars, reloadVars, service>>
    /\ MCFairness

-----------------------------------------------------------------------------
\* The state of every service is well typed.
RuntimeTypeOK ==
    BusTypeOK /\ StrategyTypeOK /\ MonitorTypeOK /\ HistoryTypeOK /\ ReloadTypeOK

\* What is begun ends: a subscriber gets past every event, an execution of a suite returns,
\* and so do the calls of the monitor and of the metrics history, unless they meet one of
\* the two places where a task waits for a lock that it holds itself; the last change of a
\* plugin file comes out of the debouncing.
RuntimeCallsEnd ==
    EventuallyRead /\ ExecuteEnds /\ MonitorCallsEnd /\ HistoryCallsEnd /\ ReloadsTold
=============================================================================
