# A verification project for apirunner

apirunner is an asynchronous (tokio) runner of API tests.  This directory holds TLA+ modules of
the parts where its own logic lives, the TLC configurations that check them on small instances,
and theorems that TLAPS proves for every value of the constants.  `PROJECT.json` maps each
definition to the lines of `src/src/` it models.

## Inventory

Paths are relative to `src/src/`.

| Component | State | Operations | What is hard | Correct means |
|---|---|---|---|---|
| Distributed execution, `distributed_execution.rs` | node registry; `pending_tasks`, `active_tasks`, `completed_tasks` behind three locks; failed nodes | `register_node`, `update_heartbeat`, `deregister_node`, clean-up; `add_task`, `distribute_tasks`, `handle_task_completion`, `handle_task_failure`, `all_tasks_completed`; monitor; `execute` | stale node lists, late and repeated reports, retries, conflicting lock orders, time-out | a task is in one place, is tried as often as allowed, its outcome is final; `execute` returns and covers its tasks |
| Event bus, `event.rs`, `event_persistence.rs` | store, broadcast channel, receivers | `publish`, `subscribe`, `recv`, filters, queries, replay | two publishers, a store that fails after it wrote, slow receivers, two stores with two orders | what is broadcast is stored; receivers see a filtered, ordered part of it and are told of loss; a query finds what was asked for |
| Event transactions, `event_transaction.rs` | map of transactions behind one lock, handlers | begin, process, commit, rollback, clean up | publication fails midway; the lock is released before the rollback of a rejected event | committed means complete; undone once; a rejected transaction publishes no more |
| Execution strategies, `execution.rs` | context of variables, semaphore, time of the last request | serial and parallel execution | cycles, missing tests, order, rate limit | dependencies first, everything that can run runs, bounded bursts |
| Application, `main.rs`, `app.rs` | initialized and shutdown flags | start, command, signals, shutdown | `select!` over futures | success means that the command succeeded |
| Plugin manager, `plugin_manager.rs`, `plugin.rs` | registry of plugins, libraries, watcher, reload events held back | discover, register, load, initialize, unload, reload, load with dependencies; watch, debounce | the lock is released during a load; the registry changes between the steps of a long operation; events overtake one another | the status of an entry is true; dependencies first; the last change of a file is told |
| Authentication, `auth_*.rs`, `*_auth_plugin.rs` | tokens and failures of a chain, history of attempts | authenticate, chains of steps run by a manager or an executor | retries in retries, failure of a step, order of a chain | every step has an answer, tokens rest on tokens, requests are bounded |
| Real-time monitoring, `real_time_monitoring.rs` | progress, cancellation tokens, result channels, counts | start, update, record, complete, cancel, shut down | three locks that no operation takes together, updates after a cancellation, nested locks | the three parts agree, a cancellation is signalled, calls return |
| Interactive execution, `interactive_execution.rs` | one execution state for all sessions, inspector, subscribers | a session with its steps, breakpoints and events; batches | sessions beside each other write one state; subscribers may fail; refused publications are swallowed | every step once and in order; start and end offered to the bus once each |
| Metrics, `metrics.rs`, `metrics_history.rs` | counters; snapshots, baselines | record, snapshot; collect, clean up, trend, comparison | counters are read one by one; one more collecting loop at every start, times taken before the lock and a clock that may be set back; nested read locks | counts that were there, a bounded history, sound baselines, calls return |
| Alerting, `alerting.rs` | rules, alert states | add, remove, evaluate, acknowledge, escalate, notify | several loops; state read and written under separate locks | nobody is told twice; whole stories |
| Configuration, `configuration.rs` | configuration, history, paths, secrets | load, reload, roll back, hot reload | the owner and the hot reload task write beside each other; files change during a reload; a precedence that is given and ignored | only validated configurations are in force; the files end up in force |
| Test case storage, `test_case_manager.rs`, `storage/` | files and metadata | create, read, update, delete, search | read-modify-write, writes that land after the call, crashes, unreadable files | what was acknowledged is on disk; a search finds what was asked for, page by page |
| Templates, `template_*.rs` | template files, built-in templates and fragments | create, list, validate, instantiate, apply a fragment | replacement one by one inside JSON text, in the order of a map | what is made of a template is the replacement of its variables |
| Data sources, `data_source.rs` | configuration | parse, convert, transform, validate | quotations, wrappers, types | all formats yield the same records |
| Assertions, `json_assertions.rs`, `xml_assertions.rs`, `cross_system_validations.rs` | settings | initialize, evaluate | paths, types, order | the same expectation means the same everywhere |
| Workflow validation, `workflow_validation.rs` | state kept over runs | execute, roll back | order, variables passed on, failure in the middle | a step runs after its prerequisites; undone backwards |
| Result analysis, `result_analysis.rs` | results, indices, browser | add, analyse, compare, filter, sort, summarise | indices beside results | indices and views tell the truth |
| Linter, `test_case_linter.rs` | rules, configuration | lint a test case or several | thresholds, enabled and disabled rules | nothing but what was hidden is missing |
| Import and export, `import_export/` | none | export to Postman; import of Postman and OpenAPI | folders regrouped in the order of a map, variables in two notations | what was exported comes back; requests are those specified |
| REST plugin, reporting, CLI, quality metrics, documentation | little | I/O, parsing, formatting, statistics | | |

The command line builds an `Application`, which owns the event bus and the managers.  A strategy
executes a suite and publishes its events on the bus; `EventTransactionManager` publishes on the
same bus; the distributed executor partitions a suite over nodes, and its monitor reports failures
to the same distributor as the nodes do; the plugin manager serves anyone who holds it.  The
metrics history and the alerting read the snapshots of the metrics.

## Modules

Distributed execution, events and strategies:

- **TaskPool** is the abstract specification of a pool: a task is submitted, started, fails and is
  retried up to a limit, or is answered.  It knows nothing of nodes or queues.
- **TaskDistribution** is `NodeDiscovery` and `TaskDistributor`.  Every operation keeps its locks
  to its end and is one action, except `distribute_tasks`, which reads the nodes
  (`distribute_read`) before it locks the queues (`distribute_assign`), so that the list may be
  stale.  It refines TaskPool (`ImplementsPool`): `stage` of a task is the container it is in and
  `tries` is `retry_count`.
- **DistributedExecutor** extends it with `execute`, the monitor and callers of the reports, now
  with the locks themselves: `requests` keeps for each of the three locks the requests in the
  order tokio serves them, granted or waiting.  `WaitsFor` says who waits for whom.
- **EventBus** is `EventBus` with a store and bounded broadcast channel; publication is
  `store_event`, then `send`.  Receivers count broadcasts.
- **EventTransactions** extends EventBus: the lock of the map is `holder`, `client` is where
  each operation is in its publications; a rejected event releases the lock before the rollback.
- **EventQueries** has the filters of events and the queries of the two stores: sled keeps the
  events under texts of time and id, one for each pair, and orders them as texts, digit by digit
  (so 9 comes after 10); the memory keeps them as they come and compares times.
- **ExecutionStrategies** is the serial and the parallel strategy: `sort_by_dependencies` and
  `group_by_dependency_levels` as operators, then the tests of a level under a semaphore and the
  rate limiter with its check, sleep and update in separate actions.  `tick` is a unit of time.
- **Application** is `main` with the `select!` over the command and the shutdown handler.

Plugins, monitoring and metrics:

- **PluginManager** is the registry and the life of each plugin instance.  Operations on the
  registry are one action each; `load_plugin` is two, as the lock is released while the library is
  opened.  Reload, discovery and loading with dependencies are sequences of these: `client` keeps
  what a client does next.  Kahn's algorithm is `resolve_load_order`, the set of orders it may
  return as it iterates over hash maps.
- **PluginReload** is the file watcher and the task that holds its events back: a channel per
  start, `pending` with one event per plugin, a wall clock that may be set back.  The task of the
  code only prints what comes out of it; `processed` is what it prints.
- **RealTimeMonitor** has the three maps of the monitor and its metrics.  An operation of the code
  goes from lock to lock, and each lock is an action here; `at` is where a client is.
- **MetricsHistory** is the loops that collect, one for each call of `start_collection`, and readers
  behind a fair lock: a writer that waits stops new readers, also one that reads already.  The
  time of a snapshot, of a clean-up and of a baseline is taken before the lock is, from a clock
  that may be set back (`fall_back`; `steady` is history).
- **Metrics** is the counters, read one by one by a snapshot beside the recordings.  `asked` is
  history: the counts when the snapshot began, and `open`, the tests between their two counts when
  the total was read.
- **Alerting** is any number of loops over shared states: read of the rules, evaluation, raise,
  resolve, escalate and notify are separate actions, as the code takes the locks separately.

Services of test authors:

- **Configuration** is `ConfigurationManager`: the operations of its owner, and the task of
  `enable_hot_reload`, each reading the files one by one.  The two versions of merge and of
  validation differ in the code and so they do here.  `add_config_path` puts a path in front
  whatever its precedence, which is kept in `precedences` for the property only.  `raced` and
  `chosen` are history: whether the owner overlapped with the last hot reload, and whether it put
  something else in force.
- **TestCaseStore** is `TestCaseManager` over `FileSystemStorage`.  `write_all` of tokio returns
  before the text is in the file and the code does not flush, so `writes` holds the texts on
  their way; `land`, `write_fails` and `crash` are the world outside.  A test case is its change
  log.  Reading a file is one action, as a test case read while it is deleted is one whose calls
  overlap.
- **TestCaseSearch** has its searches, filters, pages, statistics and kinds of changes.
- **DepthFirst** is the order of steps by their dependencies, a depth-first search that the code
  has twice, in the workflow and in the chains.  The recursion is a function of how many steps
  are not being visited yet, which each call leaves one less of.
- **AuthChain** is a chain run by the manager or by the executor: steps, retries of steps, attempts
  of the chain, the three strategies, and the validation and requests of the plugins.  Steps are
  places in the chain; the executor finds a step by its plugin's name and so the first of that name
  (`PlaceOf`), the manager takes them in turn.
- **InteractiveExecution** is sessions beside each other over the one state they share.  A
  publication goes out or is refused by the store, which the code does not notice
  (`publish_execution_event`; `publications` and `refused` are what was offered and refused).
- **Templates** has the files, which are written like those of TestCaseStore, and the replacement
  of variables in every order of the map.  A text is a sequence of pieces: words, references, and the
  marks that mean something in JSON (quotation marks, escapes, control characters), which
  `from_str` reads back, refuses or changes.  A `max_response_time` becomes the time-out.
- **Workflow** is `WorkflowValidation` over several runs: requests in the order of DepthFirst,
  with their variables, and the rollback.
- **ResultAnalysis** is the results with their indices, the analysis, and the browser.
- **DataSources**, **Assertions**, **TestCaseLinter** and **ImportExport** are operators over small
  documents (**JsonValues** has the values of JSON and YAML): nothing of them keeps state.  A URL
  of ImportExport is a host and a sequence of tokens, holes among them.

Compositions: **MCCoordination**, **MCRuntime** and **MCServices** check services that share no
state; `service` says which one a behaviour is of, and the others rest.  **MCInputs** names the
inputs of the parts without state; a behaviour chooses a group of them and one of that group.

The `MC` modules give the bounds of a run.  An operator marked "Broken variant" is a definition
with a bug planted, which shows that the properties notice it; nothing uses it.

## Runs

| Run | Shows | Bounds and why they are enough |
|---|---|---|
| coordination | tasks stay in one place, dispatches are accounted for, the queue drains, refinement of TaskPool, which makes outcomes final; transactions: committed means complete and in order, undone once, rejected means unpublished | two managers that share no state, one per behaviour. Two nodes with one slot each, two tasks, one distributor: a node can leave between the two halves of a distribution, a task can be reported by the wrong node, and both can compete for a slot; three tries reach the limit. Two transactions of two events, two clients, one fault of the store |
| distributed_executor | a result covers the tasks of its call; every deadlock has a call of `handle_task_failure` in it; `execute` returns unless deadlocked | one suite, one agent that submits a task of its own and reports anything: three processes with the monitor are enough for every circle of two or three |
| monitor_hang (violation) | the monitor waits for itself and `execute` hangs | one node, one task |
| runtime | bus: store before broadcast, order, loss reported; strategies: which tests run, in what order, how fast; monitor: its parts agree; history: bounded under any number of loops, baselines of enough samples, in order and without old snapshots where order can be had; every call ends, and the last change of a plugin file is told | two publishers, a channel of two, four broadcasts: a receiver is overtaken. All dependency relations of three tests (the first with at most one dependency), cycles and missing tests included. Two executions, two clients, four calls: a start that overlaps an end, a shutdown with and without a token. History: two loops and one reader, two snapshots kept of three rounds and calls: one is dropped, a loop enters a snapshot older than the last, the clock is set back once. Two starts of the watcher, two notifications of up to four files |
| atomic_publication (violation) | a transaction that was rolled back has published some of its events | one transaction, one client |
| parallel_dependencies (violation) | a test overlaps with one it depends on | as in runtime |
| shutdown (violation) | exit code 0 without a signal for a command that was cut off | none needed |
| plugin_manager | status and instance agree, no silent loss, sound load orders, calls return | three plugins that depend on one another, a client of single operations and one of long ones, three calls, one change of a file that removes it, closes a circle or lists a dependency twice; two instances, so that a reload has an old and a new one |
| services | one invariant per service, see below | see below |
| rollback_refused (violation) | the rollback refuses a snapshot that the hot reload made | one file, three operations |
| auth_chain_order (violation) | a chain begins a step before the one it depends on | chains of three steps, or of none |
| precedence (violation) | a file of lower precedence overrides one of higher | two sound files that differ in their strategy, two precedences |

The services of *services*, with what would go wrong and the bounds that let it:

- *configuration* (`AlwaysValid`, `HotReloadConverges`): two files, four steps shared by the
  modifications of files and the operations of the owner (`MaxSteps`): two paths, the hot reload and
  a modification, or fewer paths and an operation beside the reload; one snapshot, so that one is
  dropped.
- *test cases* (`StoreSettles`): one test case (they share nothing), two callers, three edits, one
  fault (a crash or an error of the disk): a call that finds the file still empty, an overlapping
  one, a crash before the text has landed and after.
- *alerting* (`AlertsTold`): two loops with three rounds in all: one raises an alert, and then both
  come to resolve or to escalate it.  Two rules share a name, and so an alert, which a snapshot
  raises for the one and resolves for the other; three levels of escalation, a clock of two units,
  two changes of rules: one is removed while it fires; no rule is there twice.  The rules and the
  clock, which a round looks at when it begins, change only when one may begin.
- *metrics* (`SnapshotTrue`): two threads that record two tests or requests in all beside a snapshot:
  one before it begins and one within, or both within.
- *authentication* (`ChainSound`): chains of no step and of three, under every relation of
  dependencies, each strategy and all answers; and chains that list a plugin twice.
- *debugging* (`SessionsSound`): two sessions, one in a batch, breakpoints, a failing subscriber, one
  publication that the store refuses.
- *templates* (`TemplatesSound`): two authors, up to two values given (`MaxGiven`), which hold
  references, quotation marks, escapes, control characters or a time-out.
- *workflows* (`WorkflowSound`): three steps with circles and missing dependencies, two runs.
- *results* (`ResultsSound`): up to two results, one of them added twice, filters and sorts.
- *inputs* (`DocumentsRight`, `SearchesRight`): CSV lines of two fields of two characters, small
  JSON, YAML and XML documents, pairs of them, expectations, settings, test cases with up to two
  defects under two configurations of the linter; three test cases in any of five folders, exported
  and imported again, items of a collection in nested folders, operations with up to two
  parameters in any of four places and with schemas two levels deep; up to three stored events at
  the times 9 to 11, whose texts have one digit or two, three listed test
  cases of which one may be unreadable, all filters by one or two criteria.

Callers, clients, authors, threads and loops are alike: as long as all are in one place, *services*
lets the same one leave it first (`First`), for want of a symmetry set, which a run with a
liveness property cannot have.  A template that was filled in depends on its file alone, so nothing
happens in its service after that.

`ServicesTypeOK` and `RuntimeTypeOK` are the type invariants of the modules they compose.  Deadlock
is checked where the system never stops; the other configurations say why not.

**Fairness.** Tokio polls a task that is ready, so a started operation goes on: weak fairness of
its steps.  A task that waits for a lock is served in order, and asks for it once; where the lock
is one variable and not a queue (EventTransactions), strong fairness says the same.  `TimeOut` is
strongly fair, as a clock that is read again and again passes any limit.  Submissions, heartbeats,
reports, faults, changes of files and calls are never fair.  `HotReloadConverges` relies on the
two started activities only: the watcher reports a modification when it happens.  In MetricsHistory
the threads run and the lock serves a writer once its readers are gone.  In PluginReload the task
takes events and ticks (a `select!` picks among ready branches at random, and only so many events
come), and the clock goes on.

## Proofs

Seven modules hold the theorems, which are listed in `PROJECT.json`: `DistributedExecutor_proofs`
(with the distributor), `EventTransactions_proofs` (with the bus below the transactions),
`ExecutionStrategies_proofs`, `PluginManager_proofs`, `Queries_proofs` (filters of events and
change logs) and, for services that share nothing, `Requests_proofs` (templates, workflows, chains
and the configuration) and `Services_proofs` (the store, the monitor, metrics and their history,
sessions, alerting, results).  An eighth, `DataLemmas`, holds what several of them need about
numbers, repeated steps and lists.  They hold for any number of nodes, clients, tests, plugins
and so on, and use the assumptions of the modules only, which the runs evaluate:

- loads, limits and bounds are natural numbers, a burst has at least one permit; `NoNode`,
  `NoEvent` and `NoClient` are none of the values they stand beside;
- the registry of nodes is finite (`NodesAssumption`, a `HashMap`), as are the tests of a suite
  and the threads that record metrics;
- the tests of a suite have distinct ids (`StrategyAssumption`): the results are kept by id;
- there are finitely many plugin files, each absent or a library with a list of dependencies, and
  clients and users are no plugins (`PluginAssumption`); a batch of debugged test cases is not
  empty (`DebugAssumption`);
- there are finitely many alerting loops, and the conditions are of the five kinds of the
  enumeration (`AlertAssumption`);
- a template has an id, finitely many variables of the types of the enumeration, and a text of
  pieces in which its own quotation marks are escaped, as in the JSON it is turned into; a value is
  such a text with any marks; the words of the built-in templates are among the words
  (`TemplateAssumption`);
- workflows and chains list their steps, and steps the names they depend on; which names these
  are, and whether they lead to circles or nowhere, is free (`WorkflowAssumption`,
  `ChainAssumption`).  The configurations of a chain are of the three kinds that have a plugin;
- no duration is negative, and an execution succeeded or did not (`ResultAssumption`).

Each theorem rests on an inductive invariant that a run of TLC found to hold first.

- *Task distribution.* `IInv` is the type invariant, `EachTaskInOnePlace` and
  `DispatchAccounting` together: that a failure increments `retry_count` at most to the limit needs
  the accounting, and the accounting needs a task not to be active and queued at once.  One lemma
  per operation; `PushBack` and `EmptyQueue` say what the queue operations do.  From `IInv` follow
  the type, the place, the accounting, `OutcomeFinal`, and the refinement: each operation changes
  the stage of at most one task the way TaskPool does (`AddTaskSubmits`, `AssignStarts`,
  `CompletionSucceeds`, `FailureFails`), or of none.
- *Event bus.* `StoreInv` adds that an event under way is stored already.  `DeliveryInv` adds that
  a receiver without a subscription has read nothing.  `NoSilentLoss` bounds the matching
  broadcasts a receiver has missed (`Missed`) by the losses it was told of: each step of a receiver
  misses nothing more (`FewerMissed`), except the one that is told of the broadcasts it jumps over
  (`MoreMissed`).
- *Event transactions.* `LockInv` says that the client in a publication loop holds the lock and
  is the only one.  On it rest the invariants of the loop of a commit (`CommitInv`: what is before
  the position was broadcast) and of a rollback (`RollbackInv`), and `UndoneOnce`.
  `FailedIsNotPublished` is an action property that follows from their conjunction.
- *Distributed executor.* Every step of the executor with its locks is one of TaskDistribution or
  none (`ExecutorIsDistributor`), so what is proved there holds here.  `ExecInv` adds what a suite
  has submitted (`OwnTasksKept`: once it collects, each of its tasks has an outcome, which is never
  taken back) and `LocksOK`: the requests for each lock are those that the places of the processes
  call for, and who asks for a second lock owns the first.  `CirclesNeedFailure`: without a process
  inside `handle_task_failure` the locks are only asked for in the order failed, pending, active, so
  the holder of the last lock in that order that anybody waits for goes on, and there is no circle
  (`NoQuietCircle`).
- *Execution strategies.* The sort and the grouping into levels are recursive functions.  What
  they return follows from `Iteration` and `SetInduction`: an invariant of one turn is one of the
  result.  `SortSound` and `GroupSound` say that dependencies come first and that what is left out
  is `Blocked`: a set in which every test depends on another one of it or on none that exists.
  `StrategyInv` has a part for each strategy and one for the rate (`BurstStep`): the tests that
  were let through within the minimal interval held permits together when the first of them was,
  so there are no more of them than permits.
- *Plugin manager.* `PluginInv` says who holds each plugin that lives (`OneHolder`: an entry or
  the client that is about to install it, never two), what a status says of its instance
  (`StatusInv`), and that without overlapping loads a client that installs finds the entry as it
  left it (`Undisturbed`).  Each operation has a lemma about the registry alone (`Registry...`) and
  one about the place of its client, as reload, discovery and ordered loading only compose them.
  The load order is proved for any registry: after `n` turns of the sort (`KahnInv`) the degree of
  a plugin, never negative, counts its dependencies outside the result, and is zero for what is in
  the result or the queue, each of it once; so an empty queue leaves either nothing or plugins that
  wait for one another.
- *Test case storage.* `StoreInv`: on an undisturbed test case there is at most one call, and at
  each of its points the file holds, or is about to hold, the log that was acknowledged last or
  that the call writes (`CallSound`).  A text on its way is why a file may be empty.
- *Real-time monitoring.* `MonitorInv`: an operation that starts, completes or cancels an
  execution, and does not overlap with another one, is the only one that changes it, and leaves
  progress and token as far apart as its step says (`StepAgrees`).  That the metrics count no more
  than what is tracked needs nothing of this (`Counted`).
- *Metrics.* `MetricsInv`: the counters account for each recording at its point, and what a
  snapshot read lies between the counter at its start and the counter now.  Counters grow by one, so
  each was at some moment what the snapshot shows of it.
- *History.* `HistoryInv` says what each loop carries from one lock to the next: while the clock is
  steady, a time no older than that of the snapshots it has left, and samples that are
  enough for a baseline.  Where one loop runs alone its order is that of all snapshots.
- *Debugging sessions.* `DebugInv` says of each session how far it is by its place: which steps it
  executed, what it offered to the bus, which snapshots it took (`Executes`, `Tells`, `Takes`), and
  that the last session to begin, unless another ran beside it, finds itself in the shared state
  (`Alone`). One lemma (`SessionStep`) says that a step of a session leaves the others what they
  were.
- *Alerting.* `AlertInv`: what was told of a rule, or is about to be sent by a loop, fits the state
  of the rule (of an alert it still has, neither an end nor a level above the one it reached) and
  differs from all the rest (`Once`); while one loop runs, what was told and what it is about to
  send are a story that ends where the state is (`TellsStory`).  A loop that raises, escalates or
  resolves (`Speaks`) says what does not fit the old state, hence nothing that was said before.
- *Depth-first order.* `ResolveSound`, for steps and dependencies of any kind: the search ends
  with each step once, after all it depends on, or it is refused, and then there is a circle or a
  missing dependency.  Its invariant is over the calls that leave n steps unvisited: what a call
  found before is a prefix of what it finds, and whoever is on the stack leads to whoever is
  called, so a step met twice on the stack closes a circle.  The workflows and the chains rest
  on it.
- *Templates.* `AllAtOnce`: whatever the order, replacing the variables one after the other is
  putting all values in at once, as long as no value holds a reference; each turn puts in one more
  (`OneMoreTurn`), and what is read back is a function of the text (`ResultIs`).  `TemplateInv`: a
  template whose creation nobody raced is in one place, with its author, on its way or in the file;
  and what was made is what `Instantiate` yields for a template that was there and values it has
  variables for.  The built-in templates are well formed one by one.
- *Workflow.* `WorkflowInv`: what was requested and what is left are together the order that was
  resolved; the steps executed are those of earlier runs and then all that were requested, or
  all but the last; the variables of a step executed are known from then on; and what was undone
  with what is left to undo is the reverse of what was executed.
- *Chains.* `ChainInv`: the steps of an attempt are those answered, with a token or as failed, and
  those left; a token's dependencies have tokens; and how often a step was asked is bounded by
  the attempts made of the chain times those made of the step, which is MaxAttempts squared at
  the end (`OneMoreAttempt` does the multiplication).
- *Results.* `ResultInv`: the entries of an index are of stored results, and the last entry of a
  result has its key; what is shown passes its filter, in order, and misses nothing there was;
  and whatever came from an execution was analysed if it failed.  The numbers of a
  summary are those of any list (`SummaryOfAny`): its counts are of disjoint parts, and its sum
  lies between the shortest and the longest duration times their number (`SumBounds`), so the
  average, rounded down, does too (`DivBounds`).
- *Queries.* A filter is the conjunction of what it says of an event's test and of what it says of
  the rest (`MatchesParts`), and the kinds of events of one test differ in how they know their suite
  only.  The type of a change is that of the first fields that differ in the order of the checks
  (`FirstOfTypes`).
- *Configuration.* `ConfigInv` types what the owner and the task carry from step to step: whatever is
  read of files is a configuration, and backups and snapshots are valid ones.  One lemma for the
  operations that begin, one for the steps of each of the two, one for a change of a file; the
  owner's validation implies the task's (`StrongerValidation`), and the converse fails, which is
  finding 5.

`TypeOK`, `BusTypeOK`, `TxTypeOK`, `StoreTypeOK`, `TemplateTypeOK`, `WorkflowTypeOK`,
`ChainTypeOK`, `ConfigTypeOK` and `OutcomeFinal` are proved and not among the
properties of the runs: they follow from what the runs check, or are in `RuntimeTypeOK` and
`ServicesTypeOK`.

Only model-checked:

- liveness (`PendingDrains`, `ReturnsUnlessDeadlocked`, `RuntimeCallsEnd`, `FailedEnds`,
  `CallsReturn`, `HotReloadConverges`), whose fairness is beyond the prover;
- `DocumentsRight`, whose modules declare recursive operators (the walks over documents and
  collections): what these compute for all inputs needs induction over data;
- `SearchesRight`, but for what filters pass (`FiltersAgree`) and what the log of changes says
  (`ChangesRight`), which are proved for every input; the rest is about lists that are filtered and
  sorted by operators of the library whose definitions the prover cannot expand;
- `RuntimeTypeOK` and `ServicesTypeOK`, of modules that only compose; the types of the distributor,
  the bus, the transactions, the configuration, the store, the templates, the workflows and the
  chains are proved one by one.

## Findings

1. *monitor_hang*: `start_monitoring` (`distributed_execution.rs:413`) keeps a read lock of
   `active_tasks` while it awaits `handle_task_failure`, which awaits the write lock.  The first
   node failure hangs the monitor, then everybody else; the limit of ten minutes is never looked
   at again.
2. *atomic_publication*: a commit that fails midway leaves its first events published.
3. *parallel_dependencies*: `group_by_dependency_levels` puts a dependent into the level of the
   test it depends on if it is listed after it.
4. *shutdown*: the handler of signals is an `async fn` that ends at its first poll, so a command
   that waits for anything may be dropped, with exit code 0.
5. *rollback_refused*: the validation of the hot reload leaves out the directories, so a
   configuration whose directory cannot be created comes into force and into the history, and
   `rollback_to_last_valid` then fails.
6. *auth_chain_order*: the executor of chains reverses an order in which every step already comes
   after those it depends on.
7. *precedence*: `add_config_path` says that files of higher precedence override those of lower
   (`configuration.rs:1234`) and ignores the precedence: the path that was added last overrides.
8. *coordination*: the comments at `distributed_execution.rs:323` and `:327` speak of three retries.
   `retry_count` is raised before it is compared with 3, so a task is given up at its third failure,
   after two retries.  `DispatchAccounting` states what the code does, and passes.

What the properties leave out is lost in the code:

- *Configuration*: an owner's load that overlaps with a hot reload may put older contents of the
  files in force (without `~raced` the property fails).  `merge_configurations_static` takes the
  retry and rate limit settings of no file over.  `rx.recv()` in the hot reload blocks a thread.
- *Test cases*: one of two overlapping updates is lost.  A single unreadable file fails every
  advanced search, and an invalid pattern is noticed only if there is a test case to match.
- *Monitor*: `shutdown_all` waits for itself as soon as there is a token (`RuntimeCallsEnd` exempts
  this and the stop of the history below, and no other call); `update_progress` shows a cancelled
  execution as running, which `MonitorAgrees` allows; `create_channel` drops its receiver, so every
  send fails.
- *History*: a trend analysis that a waiting writer catches between its two read locks stops the
  history for good.  Every `start_collection` adds a loop that nothing ends; with several loops, or
  a clock set back, snapshots are out of order and old ones outlive the retention behind younger
  ones.
- *Metrics*: a success rate may pass 100 while tests are recorded (the total is read first).
- *Alerting*: the first escalation rule never fires, a removed rule leaves its alert active,
  cool-down, repetition and duration are not looked at, and two loops may replace an alert.
- *Authentication*: of two steps with one plugin the executor runs the
  first only; no token is ever cached; FailFast retries like RetryAll; a JWT configuration
  with an algorithm that cannot sign is accepted; the manager reports steps that failed in an
  earlier attempt.
- *Sessions*: nothing cancels a session, steps never fail, an error of a subscriber loses the
  results of a batch and leaves a start without an end.  A publication that the store refuses is
  swallowed (`interactive_execution.rs:550`), so that subscribers may see an end without its start.
- *Templates*: a default is never used; a value with a quotation mark or a control character breaks
  the text, one with a backslash is changed when it is read back, one with a reference may be
  replaced again; any value named `max_response_time` becomes the time-out, which is kept in
  seconds, although the performance template describes it "in milliseconds"
  (`template_manager.rs:1064`); the built-in `rest-api-post` cannot be instantiated with its own
  default body; built-in templates hide stored ones of the same id.
- *Workflow*: the time-out is never looked at; the state is kept, so the rollback of a later run
  undoes the steps of earlier ones again; a step whose response cannot be read is not undone.
- *Data*: the lines of a CSV file after the first ignore quotations, and of columns with equal
  headers the last remains; a YAML integer above the largest `i64` becomes a float, and a number
  that JSON does not have (`.inf`) fails the file; columns of a database that are no text are read
  as null; `Required` passes when the field is absent.
- *Assertions*: the schema type "integer" matches nothing; without an order `[1, 2]` passes for
  `[1, 1]`; an XPath looks at its last name only; an XML schema is taken for well-formedness.
- *Events*: a range of times ends before its end in sled and with it in the memory; sled orders its
  keys as texts, so times with different numbers of digits come out of order and in the wrong
  ranges; two events with one time and id are one in sled; the filter by suite takes test cases by
  a prefix of their id, and so none whose id is a UUID; a receiver that lags is told on stderr
  only.
- *Import and export*: of a test case exported to Postman the tags, assertions, extractions and
  dependencies are lost, and of its auth all but three types; the path of an extraction is never
  `$.field`, as the comment at `postman.rs:465` has it; an operation's security is ignored, though
  `openapi.rs:310` says that auth is set later; a text given as example of a parameter enters the
  URL in its quotation marks, and a path parameter called like an earlier query parameter
  rewrites that too.
- *Results*: nothing fills the history of sessions; requests, responses and assertions are never
  compared, so the similarity of two results is always full; filters ignore tags and kinds of
  errors; an id that is added again stays in the indices of its old values.
- *Plugins*: what the debouncing lets through is only printed; the end of a channel takes what is
  held back with it, and so may a clock set back.

## Not modelled

What a library does (HTTP, files of keys, databases, watchers, regular expressions, JSONPath);
formatting, parsing of whole documents, and statistics; the aggregation of distributed results
(which tasks it covers is modelled, what it adds up is not); encrypted secrets; reporting, the
command line, quality metrics and documentation of test cases.  `unsubscribe`
of the bus removes an entry that nothing reads.  Components without a module are listed in
`PROJECT.json` with the reason.

## Plan

1. **Models**: encrypted secrets of the configuration, whose key is derived from a random salt, and
   the quality metrics of test cases.
2. **Proofs**: the paths of a search over documents, once induction over data is within reach.
