--------------------------- MODULE PluginManager ---------------------------
(***************************************************************************)
(* PluginManager of src/plugin_manager.rs: the registry and the life of    *)
(* the plugins behind it, for several clients of one manager.              *)
(*                                                                         *)
(* Each operation on the registry is one action: it keeps the lock to its  *)
(* end.  load_plugin is two, since it releases the lock before it opens    *)
(* the library and takes it again to install the plugin; what another      *)
(* client does in between is what this module is about.  The longer        *)
(* operations are sequences of these, so a client carries what it does     *)
(* next.                                                                   *)
(*                                                                         *)
(* A file is absent (or no library), or a library that names its plugin    *)
(* after itself; its factory may be missing or return null.  The library   *)
(* of an entry comes and goes with its plugin and is left out.             *)
(***************************************************************************)
EXTENDS Naturals, FiniteSets, SequencesExt

CONSTANTS Plugins,       \* names of plugins
          Files,         \* what the file of each plugin may hold
          FirstFiles,    \* what the files may hold at first
          Clients,       \* tasks that call a single operation of the registry
          Users,         \* tasks that call one of the longer operations
          AutoLoad,      \* auto_load of PluginManagerConfig
          MaxInstances,  \* bound on the plugins created
          MaxCalls,      \* bound on the calls
          MaxChanges     \* bound on the changes of files

\* The tasks of the runtime are no plugins.
ASSUME PluginAssumption ==
    /\ Plugins \cap (Clients \cup Users) = {}
    /\ \A n \in Plugins : \A f \in Files[n] :
           /\ f.kind \in {"absent", "library"}
           /\ f.deps \in Seq(Plugins)
    /\ \A d \in FirstFiles : DOMAIN d = Plugins /\ \A n \in Plugins : d[n] \in Files[n]
    /\ AutoLoad \in BOOLEAN
    /\ MaxInstances \in Nat /\ MaxCalls \in Nat /\ MaxChanges \in Nat
    /\ IsFiniteSet(Plugins)

VARIABLES disk,       \* what the file of each plugin holds
          registry,   \* the entry of each plugin
          life,       \* what became of each plugin instance
          client,     \* the call each client is inside
          disturbed,  \* history: plugins with overlapping loads or a crash mark
          calls, changes

pluginVars == <<disk, registry, life, client, disturbed, calls, changes>>

Tasks == Clients \cup Users
Instances == 1..MaxInstances
Placeholder == 0                   \* PlaceholderPlugin
NoEntry == [status |-> "none"]
Idle == [op |-> "idle"]
Return == [k |-> "return"]

Registered == {n \in Plugins : registry[n] # NoEntry}
Deps(n) == registry[n].deps
Unmade == {i \in Instances : life[i] = "unmade"}

\* A plugin value is dropped; one that is lost was never shut down.
dropped(i) == IF i = Placeholder THEN life
              ELSE [life EXCEPT ![i] = IF @ = "initialized" THEN "lost" ELSE "dropped"]

-----------------------------------------------------------------------------
(***************************************************************************)
(* Load order                                                              *)
(***************************************************************************)
\* What a turn of Kahn's algorithm puts into the queue after the plugin it takes, given
\* the degrees before and after.  Broken variant: every plugin that depends on it.
ready_unchecked(current, before, after) ==
    {n \in Registered : current \in Range(Deps(n)) /\ before[n] = Len(Deps(n))}

ready(current, before, after) ==
    {n \in Registered : current \in Range(Deps(n)) /\ after[n] = 0}

\* The map of dependencies is iterated in any order; as each plugin is queued once, one
\* order for all turns allows what an order for each turn does.
kahn_turn(acc) ==
    IF acc.queue = <<>> THEN {acc}
    ELSE LET current == Head(acc.queue)
             after == [n \in Registered |-> IF current \in Range(Deps(n))
                                            THEN acc.degree[n] - 1 ELSE acc.degree[n]]
         IN  {[queue |-> Tail(acc.queue) \o queued, degree |-> after,
               result |-> Append(acc.result, current)] :
                  queued \in SetToSeqs(ready(current, acc.degree, after))}

\* A dependency that is listed twice counts twice.
kahn_start ==
    {[queue |-> queued, degree |-> [n \in Registered |-> Len(Deps(n))], result |-> <<>>] :
        queued \in SetToSeqs({n \in Registered : Deps(n) = <<>>})}

\* What may be reached after each of the turns.
kahn_turns ==
    LET turns[i \in 0..Cardinality(Registered)] ==
            IF i = 0 THEN kahn_start ELSE UNION {kahn_turn(acc) : acc \in turns[i - 1]}
    IN  turns

kahn == {acc.result : acc \in kahn_turns[Cardinality(Registered)]}

\* The orders resolve_load_order may return; none if it fails.
resolve_load_order ==
    IF \E n \in Registered : ~(Range(Deps(n)) \subseteq Registered) THEN {}
    ELSE {order \in kahn : Len(order) = Cardinality(Registered)}

-----------------------------------------------------------------------------
(***************************************************************************)
(* What a client does next                                                 *)
(***************************************************************************)
NextLoad(order, strict) ==
    IF order = <<>> THEN Idle
    ELSE [op |-> "load", name |-> Head(order),
          then |-> [k |-> "all", rest |-> Tail(order), strict |-> strict]]

\* After load_plugin(n) has returned.
AfterLoad(n, then, ok) ==
    CASE then.k = "return" -> Idle
      [] then.k = "reload" -> IF ok /\ then.was THEN [op |-> "initialize", name |-> n] ELSE Idle
      [] then.k = "all"    -> IF ok \/ ~then.strict THEN NextLoad(then.rest, then.strict)
                              ELSE Idle

Resolve(names, strict) == [op |-> "resolve", names |-> names, strict |-> strict]

\* After the last of the plugins has been registered.
AfterRegister(after) ==
    CASE after.k = "return"  -> Idle
      [] after.k = "created" -> IF AutoLoad THEN [op |-> "load", name |-> after.name,
                                                  then |-> Return] ELSE Idle
      [] after.k = "reload"  -> [op |-> "load", name |-> after.name,
                                 then |-> [k |-> "reload", was |-> after.was]]
      [] after.k = "auto"    -> IF AutoLoad THEN Resolve({}, FALSE) ELSE Idle

Register(metas, after) ==
    IF metas = {} THEN AfterRegister(after)
    ELSE [op |-> "register", metas |-> metas, after |-> after]

Goto(c, next) == client' = [client EXCEPT ![c] = next]

\* extract_plugin_metadata
Readable(n) == disk[n].kind # "absent"
metadata(n) == [name |-> n, deps |-> disk[n].deps]

-----------------------------------------------------------------------------
(***************************************************************************)
(* Registration, loading, initialization, unloading                        *)
(***************************************************************************)
entry(m) == [status |-> "Discovered", plugin |-> Placeholder, deps |-> m.deps]

register_plugin(m) ==
    /\ m.name \notin Registered
    /\ registry' = [registry EXCEPT ![m.name] = entry(m)]

\* The first name that is taken ends the call.
register_next(c) ==
    /\ client[c].op = "register"
    /\ \E m \in client[c].metas :
          \/ /\ register_plugin(m)
             /\ Goto(c, Register(client[c].metas \ {m}, client[c].after))
          \/ /\ m.name \in Registered
             /\ Goto(c, Idle)
             /\ UNCHANGED registry
    /\ UNCHANGED <<disk, life, disturbed, calls, changes>>

\* Broken variant: a plugin that is initialized is loaded once more.
already_loaded_only(n) == registry[n].status = "Loaded"

already_loaded(n) == registry[n].status \in {"Loaded", "Initialized"}

Loading(n) == \E c \in Tasks : client[c].op = "install" /\ client[c].name = n

\* load_plugin_from_file: a new plugin, or Placeholder for an error.
Opened(n) == {Placeholder} \cup
             {i \in Unmade : Readable(n) /\ \A j \in Unmade : i <= j}

\* load_plugin until it takes the lock again.
load_plugin(c, n, then) ==
    \/ /\ n \in Registered
       /\ already_loaded(n)
       /\ Goto(c, AfterLoad(n, then, TRUE))
       /\ UNCHANGED <<registry, life, disturbed>>
    \/ /\ n \in Registered
       /\ ~already_loaded(n)
       /\ registry' = [registry EXCEPT ![n].status = "Loading"]
       /\ disturbed' = IF Loading(n) THEN disturbed \cup {n} ELSE disturbed
       /\ \E i \in Opened(n) :
             /\ life' = IF i = Placeholder THEN life ELSE [life EXCEPT ![i] = "fresh"]
             /\ Goto(c, [op |-> "install", name |-> n, plugin |-> i, then |-> then])

load_next(c) ==
    /\ client[c].op = "load"
    /\ \/ load_plugin(c, client[c].name, client[c].then)
       \/ /\ client[c].name \notin Registered
          /\ Goto(c, AfterLoad(client[c].name, client[c].then, FALSE))
          /\ UNCHANGED <<registry, life, disturbed>>
    /\ UNCHANGED <<disk, calls, changes>>

\* The rest of load_plugin, whatever has happened to the entry: without one, the
\* plugin is dropped and the call succeeds all the same.
install(c) ==
    LET n == client[c].name
        i == client[c].plugin
        ok == i # Placeholder
    IN  /\ client[c].op = "install"
        /\ IF n \notin Registered
           THEN life' = dropped(i) /\ UNCHANGED registry
           ELSE IF ok
           THEN /\ life' = dropped(registry[n].plugin)
                /\ registry' = [registry EXCEPT ![n].plugin = i, ![n].status = "Loaded"]
           ELSE /\ registry' = [registry EXCEPT ![n].status = "Failed"]
                /\ UNCHANGED life
        /\ Goto(c, AfterLoad(n, client[c].then, ok))
        /\ UNCHANGED <<disk, disturbed, calls, changes>>

\* Broken variant: a plugin that failed to initialize is tried again.
may_initialize_again(n) ==
    registry[n].status \in {"Loaded", "Failed"} /\ registry[n].plugin # Placeholder

may_initialize(n) == registry[n].status = "Loaded"

\* The write lock is held over the plugin's own initialize, which may fail.
initialize_plugin(n) ==
    /\ n \in Registered
    /\ may_initialize(n)
    /\ \/ /\ registry' = [registry EXCEPT ![n].status = "Initialized"]
          /\ life' = [life EXCEPT ![registry[n].plugin] =
                         IF @ = "fresh" THEN "initialized" ELSE "misused"]
       \/ /\ registry' = [registry EXCEPT ![n].status = "Failed"]
          /\ life' = [life EXCEPT ![registry[n].plugin] = "failed"]

remove_entry(n) == [registry EXCEPT ![n] = NoEntry]

\* unload_plugin shuts down whatever plugin the entry holds.
unload(n) ==
    /\ registry' = remove_entry(n)
    /\ life' = IF registry[n].plugin = Placeholder THEN life
               ELSE [life EXCEPT ![registry[n].plugin] = "shut_down"]

\* load_plugin_safe and initialize_plugin_safe with isolation: block_on panics inside
\* the runtime, and the plugin is marked as crashed, whatever its status was.
mark_crashed(n) ==
    /\ n \in Registered
    /\ registry' = [registry EXCEPT ![n].status = "Failed"]
    /\ disturbed' = disturbed \cup {n}

-----------------------------------------------------------------------------
(***************************************************************************)
(* reload_plugin                                                           *)
(***************************************************************************)
reload_unload(c) ==
    LET n == client[c].name
    IN  /\ client[c].op = "unload"
        /\ IF n \in Registered
           THEN unload(n) /\ Goto(c, [client[c] EXCEPT !.op = "extract"])
           ELSE Goto(c, Idle) /\ UNCHANGED <<registry, life>>
        /\ UNCHANGED <<disk, disturbed, calls, changes>>

\* After the sleep: a file that cannot be read now leaves the plugin unloaded.
reload_extract(c) ==
    LET n == client[c].name
    IN  /\ client[c].op = "extract"
        /\ Goto(c, IF Readable(n)
                   THEN Register({metadata(n)},
                                 [k |-> "reload", name |-> n, was |-> client[c].was])
                   ELSE Idle)
        /\ UNCHANGED <<disk, registry, life, disturbed, calls, changes>>

reload_initialize(c) ==
    LET n == client[c].name
    IN  /\ client[c].op = "initialize"
        /\ IF n \in Registered /\ may_initialize(n) THEN initialize_plugin(n)
           ELSE UNCHANGED <<registry, life>>
        /\ Goto(c, Idle)
        /\ UNCHANGED <<disk, disturbed, calls, changes>>

(***************************************************************************)
(* auto_discover_and_load and load_plugins_with_dependencies               *)
(***************************************************************************)
resolve(c) ==
    /\ client[c].op = "resolve"
    /\ IF resolve_load_order = {}
       THEN Goto(c, Idle)
       ELSE \E order \in resolve_load_order :
                Goto(c, IF client[c].strict
                        THEN [op |-> "collect", order |-> order,
                              stack |-> SetToSeq(client[c].names), collected |-> {}]
                        ELSE NextLoad(order, FALSE))
    /\ UNCHANGED <<disk, registry, life, disturbed, calls, changes>>

\* Broken variant: a plugin is visited as often as it is met.
to_visit_all(stack, collected) == stack

\* A plugin that was met before is not visited again.
to_visit(stack, collected) == SelectSeq(stack, LAMBDA n : n \notin collected)

\* One visit of the recursion: the lock is taken anew for each plugin.
collect_dependencies(c) ==
    LET me == client[c]
        n == Head(me.stack)
        met == me.collected \cup {n}
    IN  /\ me.op = "collect"
        /\ Goto(c, IF me.stack = <<>>
                   THEN NextLoad(SelectSeq(me.order, LAMBDA m : m \in me.collected), TRUE)
                   ELSE IF n \in Registered
                   THEN [me EXCEPT !.collected = met,
                                   !.stack = to_visit(Deps(n) \o Tail(@), met)]
                   ELSE Idle)
        /\ UNCHANGED <<disk, registry, life, disturbed, calls, changes>>

-----------------------------------------------------------------------------
(***************************************************************************)
(* Calls; one that is refused at once is left out                          *)
(***************************************************************************)
call_register(c) ==
    /\ \E n \in Plugins : \E f \in Files[n] : register_plugin([name |-> n, deps |-> f.deps])
    /\ UNCHANGED <<client, life, disturbed>>

call_load(c) == \E n \in Registered : load_plugin(c, n, Return)

call_initialize(c) ==
    /\ \E n \in Plugins : initialize_plugin(n)
    /\ UNCHANGED <<client, disturbed>>

\* Also the event Deleted of process_reload_event.
call_unload(c) ==
    /\ \E n \in Registered : unload(n)
    /\ UNCHANGED <<client, disturbed>>

call_safe(c) ==
    /\ \E n \in Plugins : mark_crashed(n)
    /\ UNCHANGED <<client, life>>

\* reload_plugin, also for the event Modified, until it has read the entry.
call_reload(c) ==
    /\ \E n \in Registered :
          Goto(c, [op |-> "unload", name |-> n, was |-> registry[n].status = "Initialized"])
    /\ UNCHANGED <<registry, life, disturbed>>

\* The event Created: a file that cannot be read is passed over.
call_created(c) ==
    /\ \E n \in Plugins :
          /\ Readable(n)
          /\ Goto(c, Register({metadata(n)}, [k |-> "created", name |-> n]))
    /\ UNCHANGED <<registry, life, disturbed>>

call_auto_discover_and_load(c) ==
    /\ Goto(c, Register({metadata(n) : n \in {n \in Plugins : Readable(n)}}, [k |-> "auto"]))
    /\ UNCHANGED <<registry, life, disturbed>>

\* validate_dependencies looks at the plugins and at what they depend on directly.
call_load_plugins_with_dependencies(c) ==
    /\ \E names \in SUBSET Registered :
          /\ names # {}
          /\ \A n \in names : Range(Deps(n)) \subseteq Registered
          /\ Goto(c, Resolve(names, TRUE))
    /\ UNCHANGED <<registry, life, disturbed>>

Call(c) ==
    /\ client[c] = Idle
    /\ calls < MaxCalls
    /\ \/ /\ c \in Clients
          /\ \/ call_register(c) \/ call_load(c) \/ call_initialize(c) \/ call_unload(c)
             \/ call_safe(c)
       \/ /\ c \in Users
          /\ \/ call_reload(c) \/ call_created(c) \/ call_auto_discover_and_load(c)
             \/ call_load_plugins_with_dependencies(c)
    /\ calls' = calls + 1
    /\ UNCHANGED <<disk, changes>>

ClientStep(c) ==
    \/ register_next(c) \/ load_next(c) \/ install(c) \/ reload_unload(c)
    \/ reload_extract(c) \/ reload_initialize(c) \/ resolve(c) \/ collect_dependencies(c)

change_file(n) ==
    /\ changes < MaxChanges
    /\ \E f \in Files[n] \ {disk[n]} : disk' = [disk EXCEPT ![n] = f]
    /\ changes' = changes + 1
    /\ UNCHANGED <<registry, life, client, disturbed, calls>>

\* A new manager, or one that has registered what discover_plugins found.
PluginInit ==
    /\ disk \in FirstFiles
    /\ \E found \in {{}, {n \in Plugins : Readable(n)}} :
          registry = [n \in Plugins |-> IF n \in found THEN entry(metadata(n)) ELSE NoEntry]
    /\ life = [i \in Instances |-> "unmade"]
    /\ client = [c \in Tasks |-> Idle]
    /\ disturbed = {}
    /\ calls = 0 /\ changes = 0

PluginNext ==
    \/ \E c \in Tasks : Call(c) \/ ClientStep(c)
    \/ \E n \in Plugins : change_file(n)

PluginSpec == PluginInit /\ [][PluginNext]_pluginVars

\* The runtime polls every task that is ready.
PluginFairSpec == PluginSpec /\ \A c \in Tasks : WF_pluginVars(ClientStep(c))

-----------------------------------------------------------------------------
(***************************************************************************)
(* Properties                                                              *)
(***************************************************************************)
Metas == [name : Plugins, deps : Seq(Plugins)]

\* Type invariant; nobody sees an entry that is being unloaded.
PluginTypeOK ==
    /\ \A n \in Plugins : disk[n] \in Files[n]
    /\ \A n \in Registered :
          registry[n] \in [status : {"Discovered", "Loading", "Loaded", "Initialized", "Failed"},
                           plugin : Instances \cup {Placeholder},
                           deps : Seq(Plugins)]
    /\ life \in [Instances -> {"unmade", "fresh", "initialized", "failed", "misused",
                               "shut_down", "dropped", "lost"}]
    /\ \A c \in Tasks :
          /\ client[c].op \in {"idle", "register", "load", "install", "initialize", "unload",
                               "extract", "resolve", "collect"}
          /\ client[c].op = "register" => client[c].metas \subseteq Metas
          /\ client[c].op = "install" => client[c].plugin \in Instances \cup {Placeholder}
    /\ disturbed \subseteq Plugins

Live == {"fresh", "initialized", "failed"}

\* Who holds a plugin instance.
Holders(i) == {n \in Registered : registry[n].plugin = i}
                  \cup {c \in Tasks : client[c].op = "install" /\ client[c].plugin = i}

\* Loads, reloads and unloads of one plugin may interleave, and yet the status of an
\* entry tells the truth about its plugin: one that is Loaded has never been
\* initialized, one that is Initialized was initialized once and not shut down; and an
\* instance has one holder as long as it lives, none when it is gone.
StatusMatchesInstance ==
    /\ PluginTypeOK
    /\ \A n \in Registered :
          /\ registry[n].status = "Discovered" => registry[n].plugin = Placeholder
          /\ registry[n].status \in {"Loaded", "Initialized"} => registry[n].plugin # Placeholder
          /\ registry[n].status = "Loaded" => life[registry[n].plugin] = "fresh"
          /\ registry[n].status = "Initialized" => life[registry[n].plugin] = "initialized"
    /\ \A i \in Instances :
          Cardinality(Holders(i)) = IF life[i] \in Live THEN 1 ELSE 0

\* load_plugin opens the library without the lock, so it may replace what another load
\* has installed meanwhile.  Only so, or after a crash mark, is an initialized plugin
\* dropped without its shutdown.
LostNeedsDisturbance ==
    disturbed = {} => \A i \in Instances : life[i] # "lost"

\* Plugins of which each waits for another.
Circle(S) == S # {} /\ \A n \in S : Range(Deps(n)) \cap S # {}

\* resolve_load_order puts every registered plugin after those it depends on, and
\* fails only if a dependency is missing or listed twice, or if some plugins wait for
\* one another.
LoadOrderSound ==
    [][\A c \in Tasks :
          client[c].op = "resolve" /\ client'[c] # client[c] =>
             IF resolve_load_order = {}
             THEN \/ \E n \in Registered : \/ ~(Range(Deps(n)) \subseteq Registered)
                                           \/ Cardinality(Range(Deps(n))) < Len(Deps(n))
                  \/ \E S \in SUBSET Registered : Circle(S)
             ELSE \A order \in resolve_load_order :
                      /\ Range(order) = Registered
                      /\ \A i \in DOMAIN order :
                            Range(Deps(order[i])) \subseteq {order[j] : j \in 1..(i - 1)}]_pluginVars

\* Every call returns, although the dependencies it follows may change under it, into
\* a circle even.
CallsReturn == \A c \in Tasks : client[c] # Idle ~> client[c] = Idle
=============================================================================
