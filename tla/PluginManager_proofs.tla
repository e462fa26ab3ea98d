----------------------- MODULE PluginManager_proofs -----------------------
(***************************************************************************)
(* Proofs about PluginManager: what the status of an entry says about its  *)
(* plugin, and when a plugin is lost, whatever the clients do in between   *)
(* two steps of one of them; and which orders the plugins are loaded in.   *)
(***************************************************************************)
EXTENDS PluginManager, DataLemmas

-----------------------------------------------------------------------------
(***************************************************************************)
(* The inductive invariant                                                 *)
(***************************************************************************)
\* What load_plugin may return to.
KnownThen(then) == then.k \in {"return", "reload", "all"}

\* Where a client may stand in its call.
Fits(next) ==
    /\ next.op \in {"idle", "register", "load", "install", "initialize", "unload",
                    "extract", "resolve", "collect"}
    /\ next.op = "register" => /\ next.metas \subseteq Metas
                               /\ next.after.k \in {"return", "created", "reload", "auto"}
    /\ next.op = "load" => KnownThen(next.then)
    /\ next.op = "install" => /\ next.name \in Plugins
                              /\ next.plugin \in Instances \cup {Placeholder}
                              /\ KnownThen(next.then)
    /\ next.op = "unload" => next = [op |-> "unload", name |-> next.name, was |-> next.was]
    /\ next.op = "extract" => next.name \in Plugins
    /\ next.op = "collect" => next \in [op : {"collect"}, order : {next.order},
                                        stack : {next.stack}, collected : {next.collected}]

\* Every client stands somewhere.
CallsFit ==
    /\ client = [c \in Tasks |-> client[c]]
    /\ \A c \in Tasks : Fits(client[c])

\* The client is about to install a plugin.
Carries(c) == client[c].op = "install" /\ client[c].plugin # Placeholder

Holds(n) == n \in Registered /\ registry[n].plugin # Placeholder

\* Every plugin that lives is in one place, and what is carried was never initialized.
OneHolder ==
    /\ \A n \in Plugins : Holds(n) => life[registry[n].plugin] \in Live
    /\ \A c \in Tasks : Carries(c) => life[client[c].plugin] = "fresh"
    /\ \A m, n \in Plugins :
           Holds(m) /\ Holds(n) /\ registry[m].plugin = registry[n].plugin => m = n
    /\ \A c, d \in Tasks :
           Carries(c) /\ Carries(d) /\ client[c].plugin = client[d].plugin => c = d
    /\ \A n \in Plugins, c \in Tasks :
           Holds(n) /\ Carries(c) => registry[n].plugin # client[c].plugin
    /\ \A i \in Instances :
           life[i] \in Live => \/ \E n \in Plugins : Holds(n) /\ registry[n].plugin = i
                               \/ \E c \in Tasks : Carries(c) /\ client[c].plugin = i

\* The status of an entry and its plugin.
StatusInv ==
    \A n \in Registered :
        /\ registry[n].status = "Discovered" => registry[n].plugin = Placeholder
        /\ registry[n].status \in {"Loaded", "Initialized"} => registry[n].plugin # Placeholder
        /\ registry[n].status = "Loaded" => life[registry[n].plugin] = "fresh"
        /\ registry[n].status = "Initialized" => life[registry[n].plugin] = "initialized"

Installs(c, n) == client[c].op = "install" /\ client[c].name = n

\* While no two loads of a plugin overlap and none is marked, whoever installs a plugin
\* finds its entry as the load left it, or registered anew.
Undisturbed ==
    disturbed = {} =>
        /\ \A i \in Instances : life[i] # "lost"
        /\ \A n \in Plugins : Holds(n) /\ life[registry[n].plugin] = "initialized"
                                  => registry[n].status = "Initialized"
        /\ \A n \in Registered : \A c \in Tasks :
               Installs(c, n) => registry[n].status \in {"Loading", "Discovered"}
        /\ \A n \in Plugins : \A c, d \in Tasks : Installs(c, n) /\ Installs(d, n) => c = d

Entries == [status : {"Discovered", "Loading", "Loaded", "Initialized", "Failed"},
            plugin : Instances \cup {Placeholder},
            deps : Seq(Plugins)]
Lives == {"unmade", "fresh", "initialized", "failed", "misused", "shut_down", "dropped", "lost"}

\* The part of the invariant that is about the registry and the plugins.
RegistryInv ==
    /\ \A n \in Registered : registry[n] \in Entries
    /\ life \in [Instances -> Lives]
    /\ disturbed \subseteq Plugins
    /\ registry = [n \in Plugins |-> registry[n]]
    /\ OneHolder /\ StatusInv /\ Undisturbed

\* Files are what they may be.
DiskInv == DOMAIN disk = Plugins /\ \A n \in Plugins : disk[n] \in Files[n]

PluginInv == DiskInv /\ CallsFit /\ RegistryInv

\* Nobody begins to install a plugin, ends it, or changes what it installs.
SameInstalls ==
    \A c \in Tasks : client[c].op = "install" \/ client'[c].op = "install"
                         => client'[c] = client[c]

-----------------------------------------------------------------------------
(***************************************************************************)
(* What the steps do to the registry                                       *)
(***************************************************************************)
\* The placeholder is no plugin that was created.
LEMMA PlaceholderApart == Placeholder \notin Instances /\ Instances \subseteq Nat
  BY PluginAssumption DEF Placeholder, Instances

\* A step that leaves the registry alone.
LEMMA RegistryRests ==
    ASSUME RegistryInv, SameInstalls, UNCHANGED <<registry, life, disturbed>>
    PROVE  RegistryInv'
<1> USE DEF RegistryInv
<1>1. \A c \in Tasks : /\ Carries(c)' <=> Carries(c)
                       /\ Carries(c) => client'[c].plugin = client[c].plugin
  BY DEF SameInstalls, Carries
<1>2. \A n \in Plugins : Holds(n)' <=> Holds(n)
  BY DEF Holds, Registered
<1>3. OneHolder'
  BY <1>1, <1>2 DEF OneHolder
<1>4. Registered' = Registered
  BY DEF Registered
<1>5. StatusInv'
  BY <1>4 DEF StatusInv
<1>6. \A c \in Tasks, n \in Plugins : Installs(c, n)' <=> Installs(c, n)
  BY DEF SameInstalls, Installs
<1>7. Undisturbed'
  BY <1>2, <1>4, <1>6 DEF Undisturbed, Registered
<1>8. QED
  BY <1>3, <1>4, <1>5, <1>7

\* register_plugin: an entry that holds no plugin yet.
LEMMA RegistryRegister ==
    ASSUME RegistryInv, SameInstalls, UNCHANGED <<life, disturbed>>,
           NEW m \in Metas, register_plugin(m)
    PROVE  RegistryInv'
<1> USE DEF RegistryInv
<1> DEFINE e == entry(m)
<1>1. /\ m.name \in Plugins /\ m.name \notin Registered
      /\ registry' = [registry EXCEPT ![m.name] = e]
  BY DEF register_plugin, Metas
<1>2. /\ e \in Entries /\ e # NoEntry /\ e.status = "Discovered" /\ e.plugin = Placeholder
  BY DEF entry, Entries, NoEntry, Metas
<1> HIDE DEF e
<1>3. Registered' = Registered \cup {m.name} /\ \A n \in Registered : registry'[n] = registry[n]
  BY <1>1, <1>2 DEF Registered
<1>4. registry'[m.name] = e
  BY <1>1
<1>5. \A c \in Tasks : /\ Carries(c)' <=> Carries(c)
                       /\ Carries(c) => client'[c].plugin = client[c].plugin
  BY DEF SameInstalls, Carries
<1>6. \A n \in Plugins : /\ Holds(n)' <=> Holds(n)
                         /\ Holds(n) => registry'[n] = registry[n]
  BY <1>2, <1>3, <1>4 DEF Holds, Registered
<1>7. OneHolder'
  BY <1>5, <1>6 DEF OneHolder
<1>8. StatusInv'
  BY <1>2, <1>3, <1>4 DEF StatusInv
<1>9. \A c \in Tasks, n \in Plugins : Installs(c, n)' <=> Installs(c, n)
  BY DEF SameInstalls, Installs
<1>10. Undisturbed'
  BY <1>2, <1>3, <1>4, <1>6, <1>9 DEF Undisturbed, Registered
<1>11. registry' = [n \in Plugins |-> registry'[n]]
  BY <1>1
<1>12. QED
  BY <1>2, <1>3, <1>4, <1>7, <1>8, <1>10, <1>11

\* load_plugin until it takes the lock again: the plugin it has created is carried.
LEMMA RegistryLoad ==
    ASSUME RegistryInv, CallsFit,
           NEW c \in Tasks, client[c].op # "install",
           NEW n \in Registered, ~already_loaded(n), NEW i \in Opened(n), NEW then,
           registry' = [registry EXCEPT ![n].status = "Loading"],
           disturbed' = IF Loading(n) THEN disturbed \cup {n} ELSE disturbed,
           life' = IF i = Placeholder THEN life ELSE [life EXCEPT ![i] = "fresh"],
           Goto(c, [op |-> "install", name |-> n, plugin |-> i, then |-> then])
    PROVE  RegistryInv'
<1> USE DEF RegistryInv
<1>1. /\ n \in Plugins /\ registry[n] \in Entries
      /\ registry[n].status \notin {"Loaded", "Initialized"}
  BY DEF Registered, already_loaded
<1>2. /\ registry'[n] = [registry[n] EXCEPT !.status = "Loading"]
      /\ \A m \in Plugins : m # n => registry'[m] = registry[m]
      /\ registry' = [m \in Plugins |-> registry'[m]]
  BY <1>1
<1>3. /\ registry'[n] \in Entries /\ registry'[n].status = "Loading"
      /\ registry'[n].plugin = registry[n].plugin /\ registry'[n] # NoEntry
  BY <1>1, <1>2 DEF Entries, NoEntry
<1>4. Registered' = Registered
  BY <1>2, <1>3 DEF Registered
<1>5. \A m \in Registered : registry'[m] \in Entries /\ registry'[m].plugin = registry[m].plugin
  BY <1>2, <1>3 DEF Registered
<1>6. \A m \in Plugins : /\ Holds(m)' <=> Holds(m)
                         /\ Holds(m) => /\ registry'[m].plugin = registry[m].plugin
                                        /\ registry[m].plugin \in Instances
  BY <1>4, <1>5 DEF Holds, Registered, Entries
<1>7. /\ client'[c].op = "install" /\ client'[c].name = n /\ client'[c].plugin = i
      /\ \A d \in Tasks : d # c => client'[d] = client[d]
  BY DEF Goto, CallsFit
<1>8. i = Placeholder \/ (i \in Instances /\ life[i] = "unmade")
  BY DEF Opened, Unmade
<1>9. life' \in [Instances -> Lives]
      /\ \A j \in Instances : life'[j] = IF j = i THEN "fresh" ELSE life[j]
  BY <1>8, PlaceholderApart DEF Lives
<1>10. \A m \in Plugins : Holds(m) => registry[m].plugin # i
  BY <1>8 DEF OneHolder, Holds, Live
<1>11. \A d \in Tasks : Carries(d) => client[d].plugin # i
  BY <1>8 DEF OneHolder, Carries
<1>12. \A d \in Tasks : Carries(d)' <=> Carries(d) \/ (d = c /\ i # Placeholder)
  BY <1>7 DEF Carries
<1>13. \A d \in Tasks : Carries(d) => d # c /\ client'[d] = client[d]
  BY <1>7 DEF Carries
<1>14. OneHolder'
  <2>1. \A m \in Plugins : Holds(m)' => life'[registry'[m].plugin] \in Live
    BY <1>6, <1>9, <1>10 DEF OneHolder
  <2>2. \A d \in Tasks : Carries(d)' => life'[client'[d].plugin] = "fresh"
    <3>1. \A d \in Tasks : Carries(d) => life[client[d].plugin] = "fresh"
      BY DEF OneHolder
    <3>2. \A d \in Tasks : Carries(d) => client[d].plugin \in Instances
      BY DEF CallsFit, Fits, Carries
    <3>3. QED
      BY <1>7, <1>8, <1>9, <1>11, <1>12, <1>13, <3>1, <3>2
  <2>3. \A d, e \in Tasks :
            Carries(d)' /\ Carries(e)' /\ client'[d].plugin = client'[e].plugin => d = e
    BY <1>7, <1>11, <1>12, <1>13 DEF OneHolder
  <2>4. \A m \in Plugins, d \in Tasks :
            Holds(m)' /\ Carries(d)' => registry'[m].plugin # client'[d].plugin
    BY <1>6, <1>7, <1>10, <1>12, <1>13 DEF OneHolder
  <2>5. \A j \in Instances :
            life'[j] \in Live => \/ \E m \in Plugins : Holds(m)' /\ registry'[m].plugin = j
                                 \/ \E d \in Tasks : Carries(d)' /\ client'[d].plugin = j
    <3>1. ASSUME NEW j \in Instances, life'[j] \in Live
          PROVE  \/ \E m \in Plugins : Holds(m)' /\ registry'[m].plugin = j
                 \/ \E d \in Tasks : Carries(d)' /\ client'[d].plugin = j
      <4>1. CASE j = i
        BY <1>7, <1>12, <4>1, PlaceholderApart
      <4>2. CASE j # i
        <5>1. life[j] \in Live
          BY <1>9, <3>1, <4>2
        <5>2. \/ \E m \in Plugins : Holds(m) /\ registry[m].plugin = j
              \/ \E d \in Tasks : Carries(d) /\ client[d].plugin = j
          BY <5>1 DEF OneHolder
        <5>3. QED
          BY <1>6, <1>12, <1>13, <5>2
      <4>3. QED
        BY <4>1, <4>2
    <3>2. QED
      BY <3>1
  <2>6. \A l, m \in Plugins :
            Holds(l)' /\ Holds(m)' /\ registry'[l].plugin = registry'[m].plugin => l = m
    BY <1>6 DEF OneHolder
  <2>7. QED
    BY <2>1, <2>2, <2>3, <2>4, <2>5, <2>6 DEF OneHolder
<1>15. StatusInv'
  <2>1. ASSUME NEW m \in Registered, m # n
        PROVE  /\ registry'[m] = registry[m]
               /\ registry[m].plugin # Placeholder => life'[registry[m].plugin]
                                                          = life[registry[m].plugin]
    BY <1>2, <1>6, <1>9, <1>10, <2>1 DEF Holds, Registered
  <2>2. QED
    BY <1>3, <1>4, <2>1 DEF StatusInv
<1>16. Undisturbed'
  <2> SUFFICES ASSUME disturbed' = {} PROVE Undisturbed'
    BY DEF Undisturbed
  <2>1. disturbed = {} /\ \A d \in Tasks : ~Installs(d, n)
    BY DEF Loading, Installs
  <2>2. \A j \in Instances : life'[j] # "lost"
    BY <1>9, <2>1 DEF Undisturbed
  <2>3. \A m \in Plugins : Holds(m)' /\ life'[registry'[m].plugin] = "initialized"
                               => registry'[m].status = "Initialized"
    BY <1>1, <1>2, <1>6, <1>9, <1>10, <2>1 DEF Undisturbed
  <2>4. \A m \in Registered' : \A d \in Tasks :
            Installs(d, m)' => registry'[m].status \in {"Loading", "Discovered"}
    BY <1>2, <1>3, <1>4, <1>7, <2>1 DEF Undisturbed, Installs, Registered
  <2>5. \A m \in Plugins : \A d, e \in Tasks : Installs(d, m)' /\ Installs(e, m)' => d = e
    BY <1>7, <2>1 DEF Undisturbed, Installs
  <2>6. QED
    BY <2>2, <2>3, <2>4, <2>5 DEF Undisturbed
<1>17. disturbed' \subseteq Plugins
  BY <1>1
<1>18. QED
  BY <1>2, <1>4, <1>5, <1>9, <1>14, <1>15, <1>16, <1>17

\* What a client carries and an entry holds was created.
LEMMA PluginsCreated ==
    ASSUME RegistryInv, CallsFit
    PROVE  /\ \A c \in Tasks : Carries(c) => client[c].plugin \in Instances
           /\ \A n \in Plugins : Holds(n) => registry[n].plugin \in Instances
           /\ \A n \in Plugins : Holds(n) <=> n \in Registered /\ registry[n].plugin \in Instances
  BY PlaceholderApart DEF RegistryInv, CallsFit, Fits, Carries, Holds, Entries

\* The end of load_plugin when the entry is gone: what was carried is dropped.
LEMMA RegistryInstallGone ==
    ASSUME RegistryInv, CallsFit, NEW c \in Tasks, client[c].op = "install",
           NEW next, next.op # "install", Goto(c, next),
           life' = dropped(client[c].plugin), UNCHANGED <<registry, disturbed>>
    PROVE  RegistryInv'
<1> USE DEF RegistryInv
<1> DEFINE i == client[c].plugin
<1>1. /\ client'[c].op # "install"
      /\ \A d \in Tasks : d # c => client'[d] = client[d]
  BY DEF Goto, CallsFit
<1>2. i = Placeholder \/ (i \in Instances /\ life[i] = "fresh")
  BY DEF CallsFit, Fits, OneHolder, Carries
<1>3. /\ life' \in [Instances -> Lives]
      /\ \A j \in Instances : life'[j] = IF j = i THEN "dropped" ELSE life[j]
  BY <1>2, PlaceholderApart DEF Lives, dropped
<1>4. \A n \in Plugins : /\ Holds(n)' <=> Holds(n)
                         /\ Holds(n) => registry[n].plugin # i /\ registry[n].plugin \in Instances
  BY <1>2, PluginsCreated DEF Holds, Registered, Carries, OneHolder
<1>5. \A d \in Tasks : /\ Carries(d)' => Carries(d) /\ client'[d] = client[d]
                                                    /\ client[d].plugin # i
                       /\ Carries(d) /\ d # c => Carries(d)'
  BY <1>1, <1>2 DEF Carries, OneHolder
<1>6. OneHolder'
  <2>1. \A d \in Tasks : Carries(d)' => life'[client'[d].plugin] = "fresh"
    BY <1>3, <1>5, PluginsCreated DEF OneHolder
  <2>2. ASSUME NEW j \in Instances, life'[j] \in Live
        PROVE  \/ \E n \in Plugins : Holds(n)' /\ registry'[n].plugin = j
               \/ \E d \in Tasks : Carries(d)' /\ client'[d].plugin = j
    <3>1. life[j] \in Live /\ j # i
      BY <1>3, <2>2 DEF Live
    <3>2. QED
      BY <1>1, <1>4, <1>5, <3>1 DEF OneHolder
  <2>3. QED
    BY <1>3, <1>4, <1>5, <2>1, <2>2 DEF OneHolder
<1>7. Registered' = Registered
  BY DEF Registered
<1>8. StatusInv'
  BY <1>3, <1>4, <1>7 DEF StatusInv, Holds, Registered
<1>9. \A d \in Tasks, n \in Plugins : Installs(d, n)' => Installs(d, n)
  BY <1>1 DEF Installs
<1>10. Undisturbed'
  BY <1>3, <1>4, <1>7, <1>9 DEF Undisturbed, Registered
<1>11. QED
  BY <1>3, <1>6, <1>7, <1>8, <1>10

\* The end of load_plugin when the library could not be opened.
LEMMA RegistryInstallFails ==
    ASSUME RegistryInv, CallsFit, NEW c \in Tasks, client[c].op = "install",
           NEW next, next.op # "install", Goto(c, next),
           client[c].plugin = Placeholder, NEW n \in Registered, client[c].name = n,
           registry' = [registry EXCEPT ![n].status = "Failed"],
           UNCHANGED <<life, disturbed>>
    PROVE  RegistryInv'
<1> USE DEF RegistryInv
<1>1. /\ client'[c].op # "install"
      /\ \A d \in Tasks : d # c => client'[d] = client[d]
  BY DEF Goto, CallsFit
<1>2. n \in Plugins /\ registry[n] \in Entries /\ n \in Registered
  BY DEF Registered
<1>3. /\ registry'[n] = [registry[n] EXCEPT !.status = "Failed"]
      /\ \A m \in Plugins : m # n => registry'[m] = registry[m]
      /\ registry' = [m \in Plugins |-> registry'[m]]
  BY <1>2
<1>4. /\ registry'[n] \in Entries /\ registry'[n].status = "Failed"
      /\ registry'[n].plugin = registry[n].plugin /\ registry'[n] # NoEntry
  BY <1>2, <1>3 DEF Entries, NoEntry
<1>5. Registered' = Registered
  BY <1>2, <1>3, <1>4 DEF Registered
<1>6. \A m \in Plugins : /\ Holds(m)' <=> Holds(m)
                         /\ Holds(m) => registry'[m].plugin = registry[m].plugin
  BY <1>3, <1>4, <1>5 DEF Holds
<1>7. \A d \in Tasks : /\ Carries(d)' <=> Carries(d)
                       /\ Carries(d) => client'[d].plugin = client[d].plugin
  BY <1>1 DEF Carries
<1>8. OneHolder'
  <2>1. \A m \in Plugins : Holds(m)' => life'[registry'[m].plugin] \in Live
    BY <1>6 DEF OneHolder
  <2>2. \A d \in Tasks : Carries(d)' => life'[client'[d].plugin] = "fresh"
    BY <1>7 DEF OneHolder
  <2>3. \A l, m \in Plugins :
            Holds(l)' /\ Holds(m)' /\ registry'[l].plugin = registry'[m].plugin => l = m
    BY <1>6 DEF OneHolder
  <2>4. \A d, e \in Tasks :
            Carries(d)' /\ Carries(e)' /\ client'[d].plugin = client'[e].plugin => d = e
    BY <1>7 DEF OneHolder
  <2>5. \A m \in Plugins, d \in Tasks :
            Holds(m)' /\ Carries(d)' => registry'[m].plugin # client'[d].plugin
    BY <1>6, <1>7 DEF OneHolder
  <2>6. \A j \in Instances :
            life'[j] \in Live => \/ \E m \in Plugins : Holds(m)' /\ registry'[m].plugin = j
                                 \/ \E d \in Tasks : Carries(d)' /\ client'[d].plugin = j
    <3>1. ASSUME NEW j \in Instances, life[j] \in Live
          PROVE  \/ \E m \in Plugins : Holds(m)' /\ registry'[m].plugin = j
                 \/ \E d \in Tasks : Carries(d)' /\ client'[d].plugin = j
      <4>1. \/ \E m \in Plugins : Holds(m) /\ registry[m].plugin = j
            \/ \E d \in Tasks : Carries(d) /\ client[d].plugin = j
        BY <3>1 DEF OneHolder
      <4>2. QED
        BY <1>6, <1>7, <4>1
    <3>2. QED
      BY <3>1
  <2>7. QED
    BY <2>1, <2>2, <2>3, <2>4, <2>5, <2>6 DEF OneHolder
<1>9. StatusInv'
  BY <1>3, <1>4, <1>5 DEF StatusInv, Registered
<1>10. Undisturbed'
  <2>1. \A d \in Tasks, m \in Plugins : Installs(d, m)' <=> Installs(d, m) /\ d # c
    BY <1>1 DEF Installs
  <2>2. disturbed = {} => /\ registry[n].status # "Initialized"
                          /\ \A d \in Tasks : d # c => ~Installs(d, n)
    BY <1>2 DEF Undisturbed, Installs
  <2> SUFFICES ASSUME disturbed = {} PROVE Undisturbed'
    BY DEF Undisturbed
  <2>3. \A m \in Plugins : Holds(m)' /\ life'[registry'[m].plugin] = "initialized"
                               => registry'[m].status = "Initialized"
    BY <1>3, <1>6, <2>2 DEF Undisturbed
  <2>4. \A m \in Registered' : \A d \in Tasks :
            Installs(d, m)' => registry'[m].status \in {"Loading", "Discovered"}
    BY <1>3, <1>5, <2>1, <2>2 DEF Undisturbed, Registered
  <2>5. QED
    BY <2>1, <2>3, <2>4 DEF Undisturbed
<1>11. QED
  BY <1>3, <1>4, <1>5, <1>8, <1>9, <1>10 DEF Registered

\* The end of load_plugin: the plugin that was carried replaces the one of the entry.
LEMMA RegistryInstall ==
    ASSUME RegistryInv, CallsFit, NEW c \in Tasks, client[c].op = "install",
           NEW next, next.op # "install", Goto(c, next),
           NEW i \in Instances, client[c].plugin = i, NEW n \in Registered, client[c].name = n,
           registry' = [registry EXCEPT ![n].plugin = i, ![n].status = "Loaded"],
           life' = dropped(registry[n].plugin), UNCHANGED disturbed
    PROVE  RegistryInv'
<1> USE DEF RegistryInv
<1> DEFINE old == registry[n].plugin
<1>1. /\ client'[c].op # "install"
      /\ \A d \in Tasks : d # c => client'[d] = client[d]
  BY DEF Goto, CallsFit
<1>2. n \in Plugins /\ registry[n] \in Entries /\ n \in Registered
  BY DEF Registered
<1>3. /\ registry'[n] = [registry[n] EXCEPT !.plugin = i, !.status = "Loaded"]
      /\ \A m \in Plugins : m # n => registry'[m] = registry[m]
      /\ registry' = [m \in Plugins |-> registry'[m]]
  BY <1>2
<1>4. /\ registry'[n] \in Entries /\ registry'[n].status = "Loaded"
      /\ registry'[n].plugin = i /\ registry'[n] # NoEntry
  BY <1>2, <1>3, ZenonT(30) DEF Entries, NoEntry
<1>5. Registered' = Registered
  BY <1>2, <1>3, <1>4 DEF Registered
<1>6. Carries(c) /\ i # Placeholder /\ life[i] = "fresh"
  BY PlaceholderApart DEF Carries, OneHolder
<1>7. old = Placeholder \/ (old \in Instances /\ Holds(n) /\ life[old] \in Live /\ old # i)
  BY <1>2, <1>6 DEF Entries, Holds, OneHolder
<1>8. /\ life' \in [Instances -> Lives]
      /\ \A j \in Instances : j # old => life'[j] = life[j]
      /\ old # Placeholder => life'[old] = IF life[old] = "initialized" THEN "lost" ELSE "dropped"
  BY <1>7, PlaceholderApart DEF Lives, dropped
<1> HIDE DEF old
<1>9. \A m \in Plugins : /\ Holds(m)' <=> Holds(m) \/ m = n
                         /\ Holds(m) /\ m # n => /\ registry'[m] = registry[m]
                                                 /\ registry[m].plugin \in Instances
                                                 /\ registry[m].plugin \notin {i, old}
  <2>1. \A m \in Plugins : Holds(m)' <=> Holds(m) \/ m = n
    BY <1>3, <1>4, <1>5, <1>6 DEF Holds, Registered
  <2>2. ASSUME NEW m \in Plugins, Holds(m), m # n
        PROVE  /\ registry'[m] = registry[m] /\ registry[m].plugin \in Instances
               /\ registry[m].plugin # i /\ registry[m].plugin # old
    <3>1. registry[m].plugin # i
      BY <1>6, <2>2 DEF OneHolder
    <3>2. registry[m].plugin # old
      BY <1>2, <1>7, <2>2, PlaceholderApart DEF OneHolder, Holds, old
    <3>3. QED
      BY <1>3, <2>2, <3>1, <3>2, PluginsCreated
  <2>3. QED
    BY <2>1, <2>2
<1>10. \A d \in Tasks : /\ Carries(d)' <=> Carries(d) /\ d # c
                        /\ Carries(d) /\ d # c => /\ client'[d] = client[d]
                                                  /\ client[d].plugin \in Instances
                                                  /\ client[d].plugin \notin {i, old}
  <2>1. \A d \in Tasks : Carries(d)' <=> Carries(d) /\ d # c
    BY <1>1 DEF Carries
  <2>2. ASSUME NEW d \in Tasks, Carries(d), d # c
        PROVE  client[d].plugin # i /\ client[d].plugin # old
    <3>1. client[d].plugin # i
      BY <1>6, <2>2 DEF OneHolder
    <3>2. client[d].plugin # old
      BY <1>2, <1>7, <2>2, PluginsCreated, PlaceholderApart DEF OneHolder, old
    <3>3. QED
      BY <3>1, <3>2
  <2>3. QED
    BY <1>1, <2>1, <2>2, PluginsCreated
<1>11. OneHolder'
  <2>1. \A m \in Plugins : Holds(m)' => life'[registry'[m].plugin] \in Live
    <3>1. life'[i] = "fresh"
      BY <1>6, <1>7, <1>8, PlaceholderApart
    <3>2. ASSUME NEW m \in Plugins, m # n, Holds(m)
          PROVE  life'[registry'[m].plugin] \in Live
      <4>1. life[registry[m].plugin] \in Live
        BY <3>2 DEF OneHolder
      <4>2. QED
        BY <1>8, <1>9, <3>2, <4>1
    <3>3. QED
      BY <1>4, <1>9, <3>1, <3>2 DEF Live
  <2>2. \A d \in Tasks : Carries(d)' => life'[client'[d].plugin] = "fresh"
    BY <1>8, <1>10 DEF OneHolder
  <2>3. \A l, m \in Plugins :
            Holds(l)' /\ Holds(m)' /\ registry'[l].plugin = registry'[m].plugin => l = m
    BY <1>4, <1>9, ZenonT(30) DEF OneHolder
  <2>4. \A d, e \in Tasks :
            Carries(d)' /\ Carries(e)' /\ client'[d].plugin = client'[e].plugin => d = e
    BY <1>10 DEF OneHolder
  <2>5. \A m \in Plugins, d \in Tasks :
            Holds(m)' /\ Carries(d)' => registry'[m].plugin # client'[d].plugin
    BY <1>4, <1>9, <1>10, SMTT(30) DEF OneHolder
  <2>6. ASSUME NEW j \in Instances, life'[j] \in Live
        PROVE  \/ \E m \in Plugins : Holds(m)' /\ registry'[m].plugin = j
               \/ \E d \in Tasks : Carries(d)' /\ client'[d].plugin = j
    <3>1. j # old /\ life[j] \in Live
      BY <1>7, <1>8, <2>6, PlaceholderApart DEF Live
    <3>2. CASE j = i
      BY <1>2, <1>4, <1>9, <3>2
    <3>3. CASE j # i
      <4>1. \/ \E m \in Plugins : Holds(m) /\ registry[m].plugin = j
            \/ \E d \in Tasks : Carries(d) /\ client[d].plugin = j
        BY <3>1 DEF OneHolder
      <4>2. ASSUME NEW m \in Plugins, Holds(m), registry[m].plugin = j
            PROVE  Holds(m)' /\ registry'[m].plugin = j
        BY <1>9, <3>1, <4>2 DEF old
      <4>3. ASSUME NEW d \in Tasks, Carries(d), client[d].plugin = j
            PROVE  Carries(d)' /\ client'[d].plugin = j
        BY <1>10, <3>3, <4>3
      <4>4. QED
        BY <4>1, <4>2, <4>3
    <3>4. QED
      BY <3>2, <3>3
  <2>7. QED
    BY <2>1, <2>2, <2>3, <2>4, <2>5, <2>6 DEF OneHolder
<1>12. StatusInv'
  <2>1. life'[i] = "fresh" /\ i # Placeholder
    BY <1>6, <1>7, <1>8, PlaceholderApart
  <2>2. ASSUME NEW m \in Registered, m # n
        PROVE  /\ registry'[m] = registry[m]
               /\ registry[m].plugin # Placeholder => life'[registry[m].plugin]
                                                          = life[registry[m].plugin]
    BY <1>3, <1>8, <1>9, <2>2 DEF Holds, Registered
  <2> DEFINE right(e) == /\ e.status = "Discovered" => e.plugin = Placeholder
                         /\ e.status \in {"Loaded", "Initialized"} => e.plugin # Placeholder
                         /\ e.status = "Loaded" => life'[e.plugin] = "fresh"
                         /\ e.status = "Initialized" => life'[e.plugin] = "initialized"
  <2>3. right(registry'[n])
    BY <1>4, <2>1
  <2>4. ASSUME NEW m \in Registered, m # n
        PROVE  right(registry'[m])
    <3> DEFINE e == registry[m]
    <3>1. /\ e.status = "Discovered" => e.plugin = Placeholder
          /\ e.status \in {"Loaded", "Initialized"} => e.plugin # Placeholder
          /\ e.status = "Loaded" => life[e.plugin] = "fresh"
          /\ e.status = "Initialized" => life[e.plugin] = "initialized"
      BY <2>4 DEF StatusInv
    <3>2. registry'[m] = e /\ (e.plugin # Placeholder => life'[e.plugin] = life[e.plugin])
      BY <2>2, <2>4
    <3> HIDE DEF e
    <3>3. QED
      BY <3>1, <3>2
  <2>5. \A m \in Registered' : right(registry'[m])
    <3> HIDE DEF right
    <3>1. QED
      BY <1>5, <2>3, <2>4
  <2>6. QED
    BY <2>5 DEF StatusInv
<1>13. Undisturbed'
  <2> SUFFICES ASSUME disturbed = {} PROVE Undisturbed'
    BY DEF Undisturbed
  <2>1. \A d \in Tasks, m \in Plugins : Installs(d, m)' <=> Installs(d, m) /\ d # c
    BY <1>1 DEF Installs
  <2>2. /\ registry[n].status # "Initialized"
        /\ \A d \in Tasks : d # c => ~Installs(d, n)
    BY <1>2 DEF Undisturbed, Installs
  <2>3. Holds(n) => life[old] # "initialized"
    BY <1>2, <2>2 DEF Undisturbed, old
  <2>4. \A j \in Instances : life'[j] # "lost"
    BY <1>7, <1>8, <2>3, PlaceholderApart DEF Undisturbed
  <2>5. \A m \in Plugins : Holds(m)' /\ life'[registry'[m].plugin] = "initialized"
                               => registry'[m].status = "Initialized"
    <3>1. life'[i] = "fresh"
      BY <1>6, <1>7, <1>8, PlaceholderApart
    <3>2. QED
      BY <1>4, <1>8, <1>9, <3>1 DEF Undisturbed
  <2>6. \A m \in Registered' : \A d \in Tasks :
            Installs(d, m)' => registry'[m].status \in {"Loading", "Discovered"}
    BY <1>3, <1>5, <2>1, <2>2 DEF Undisturbed, Registered
  <2>7. QED
    BY <2>1, <2>4, <2>5, <2>6 DEF Undisturbed
<1>14. QED
  BY <1>3, <1>4, <1>5, <1>8, <1>11, <1>12, <1>13 DEF Registered

\* initialize_plugin, and the plugin's own initialize succeeds.
LEMMA RegistryInitialize ==
    ASSUME RegistryInv, CallsFit, SameInstalls, UNCHANGED disturbed,
           NEW n \in Registered, may_initialize(n),
           NEW ok \in BOOLEAN,
           registry' = [registry EXCEPT ![n].status = IF ok THEN "Initialized" ELSE "Failed"],
           life' = [life EXCEPT ![registry[n].plugin] = IF ok THEN "initialized" ELSE "failed"]
    PROVE  RegistryInv'
<1> USE DEF RegistryInv
<1> DEFINE i == registry[n].plugin
           new == IF ok THEN "Initialized" ELSE "Failed"
<1>1. n \in Plugins /\ registry[n] \in Entries /\ registry[n].status = "Loaded"
  BY DEF Registered, may_initialize
<1>2. Holds(n) /\ i \in Instances /\ life[i] = "fresh"
  BY <1>1, PluginsCreated DEF Holds, StatusInv
<1>3. /\ registry'[n] = [registry[n] EXCEPT !.status = new]
      /\ \A m \in Plugins : m # n => registry'[m] = registry[m]
      /\ registry' = [m \in Plugins |-> registry'[m]]
  BY <1>1
<1>4. /\ registry'[n] \in Entries /\ registry'[n].status = new
      /\ registry'[n].plugin = i /\ registry'[n] # NoEntry
  BY <1>1, <1>3 DEF Entries, NoEntry
<1>5. Registered' = Registered
  BY <1>1, <1>3, <1>4 DEF Registered
<1>6. /\ life' \in [Instances -> Lives]
      /\ \A j \in Instances : j # i => life'[j] = life[j]
      /\ life'[i] = IF ok THEN "initialized" ELSE "failed"
  BY <1>2 DEF Lives
<1>7. \A m \in Plugins : /\ Holds(m)' <=> Holds(m)
                         /\ Holds(m) => /\ registry'[m].plugin = registry[m].plugin
                                        /\ registry[m].plugin \in Instances
                                        /\ m # n => registry[m].plugin # i
  <2>1. \A m \in Plugins : Holds(m)' <=> Holds(m)
    BY <1>3, <1>4, <1>5 DEF Holds
  <2>2. \A m \in Plugins : Holds(m) => registry'[m].plugin = registry[m].plugin
    BY <1>3, <1>4
  <2>3. \A m \in Plugins : Holds(m) /\ m # n => registry[m].plugin # i
    BY <1>1, <1>2 DEF OneHolder
  <2>4. QED
    BY <2>1, <2>2, <2>3, PluginsCreated
<1>8. \A d \in Tasks : /\ Carries(d)' <=> Carries(d)
                       /\ Carries(d) => /\ client'[d].plugin = client[d].plugin
                                        /\ client[d].plugin \in Instances
                                        /\ client[d].plugin # i
  <2>1. \A d \in Tasks : /\ Carries(d)' <=> Carries(d)
                         /\ Carries(d) => client'[d].plugin = client[d].plugin
    BY DEF SameInstalls, Carries
  <2>2. \A d \in Tasks : Carries(d) => client[d].plugin # i
    BY <1>1, <1>2 DEF OneHolder
  <2>3. QED
    BY <2>1, <2>2, PluginsCreated
<1> HIDE DEF i
<1>9. OneHolder'
  <2>1. ASSUME NEW m \in Plugins, Holds(m)'
        PROVE  life'[registry'[m].plugin] \in Live
    <3>1. CASE m = n
      BY <1>4, <1>6, <3>1 DEF Live
    <3>2. CASE m # n
      BY <1>6, <1>7, <2>1, <3>2 DEF OneHolder
    <3>3. QED
      BY <3>1, <3>2
  <2>2. \A d \in Tasks : Carries(d)' => life'[client'[d].plugin] = "fresh"
    BY <1>6, <1>8 DEF OneHolder
  <2>3. \A l, m \in Plugins :
            Holds(l)' /\ Holds(m)' /\ registry'[l].plugin = registry'[m].plugin => l = m
    BY <1>7 DEF OneHolder
  <2>4. \A d, e \in Tasks :
            Carries(d)' /\ Carries(e)' /\ client'[d].plugin = client'[e].plugin => d = e
    BY <1>8 DEF OneHolder
  <2>5. \A m \in Plugins, d \in Tasks :
            Holds(m)' /\ Carries(d)' => registry'[m].plugin # client'[d].plugin
    BY <1>7, <1>8 DEF OneHolder
  <2>6. ASSUME NEW j \in Instances, life'[j] \in Live
        PROVE  \/ \E m \in Plugins : Holds(m)' /\ registry'[m].plugin = j
               \/ \E d \in Tasks : Carries(d)' /\ client'[d].plugin = j
    <3>1. life[j] \in Live
      BY <1>2, <1>6, <2>6 DEF Live
    <3>2. \/ \E m \in Plugins : Holds(m) /\ registry[m].plugin = j
          \/ \E d \in Tasks : Carries(d) /\ client[d].plugin = j
      BY <3>1 DEF OneHolder
    <3>3. QED
      BY <1>7, <1>8, <3>2
  <2>7. QED
    BY <2>1, <2>2, <2>3, <2>4, <2>5, <2>6 DEF OneHolder
<1>10. StatusInv'
  <2>1. i # Placeholder
    BY <1>2, PlaceholderApart
  <2>2. ASSUME NEW m \in Registered, m # n
        PROVE  /\ registry'[m] = registry[m]
               /\ registry[m].plugin # Placeholder => life'[registry[m].plugin]
                                                          = life[registry[m].plugin]
    BY <1>3, <1>6, <1>7, <2>2 DEF Holds, Registered
  <2> DEFINE right(e) == /\ e.status = "Discovered" => e.plugin = Placeholder
                         /\ e.status \in {"Loaded", "Initialized"} => e.plugin # Placeholder
                         /\ e.status = "Loaded" => life'[e.plugin] = "fresh"
                         /\ e.status = "Initialized" => life'[e.plugin] = "initialized"
  <2>3. right(registry'[n])
    BY <1>4, <1>6, <2>1
  <2>4. ASSUME NEW m \in Registered, m # n
        PROVE  right(registry'[m])
    <3> DEFINE e == registry[m]
    <3>1. /\ e.status = "Discovered" => e.plugin = Placeholder
          /\ e.status \in {"Loaded", "Initialized"} => e.plugin # Placeholder
          /\ e.status = "Loaded" => life[e.plugin] = "fresh"
          /\ e.status = "Initialized" => life[e.plugin] = "initialized"
      BY <2>4 DEF StatusInv
    <3>2. registry'[m] = e /\ (e.plugin # Placeholder => life'[e.plugin] = life[e.plugin])
      BY <2>2, <2>4
    <3> HIDE DEF e
    <3>3. QED
      BY <3>1, <3>2
  <2>5. \A m \in Registered' : right(registry'[m])
    <3> HIDE DEF right
    <3>1. QED
      BY <1>5, <2>3, <2>4
  <2>6. QED
    BY <2>5 DEF StatusInv
<1>11. Undisturbed'
  <2> SUFFICES ASSUME disturbed = {} PROVE Undisturbed'
    BY DEF Undisturbed
  <2>1. \A d \in Tasks, m \in Plugins : Installs(d, m)' <=> Installs(d, m)
    BY DEF SameInstalls, Installs
  <2>2. \A d \in Tasks : ~Installs(d, n)
    BY <1>1 DEF Undisturbed
  <2>3. \A j \in Instances : life'[j] # "lost"
    BY <1>6 DEF Undisturbed
  <2>4. ASSUME NEW m \in Plugins, Holds(m)', life'[registry'[m].plugin] = "initialized"
        PROVE  registry'[m].status = "Initialized"
    <3>1. CASE m = n
      BY <1>4, <1>6, <2>4, <3>1
    <3>2. CASE m # n
      BY <1>3, <1>6, <1>7, <2>4, <3>2 DEF Undisturbed
    <3>3. QED
      BY <3>1, <3>2
  <2>5. \A m \in Registered' : \A d \in Tasks :
            Installs(d, m)' => registry'[m].status \in {"Loading", "Discovered"}
    BY <1>3, <1>5, <2>1, <2>2 DEF Undisturbed, Registered
  <2>6. QED
    BY <2>1, <2>3, <2>4, <2>5 DEF Undisturbed
<1>12. QED
  BY <1>3, <1>4, <1>5, <1>6, <1>9, <1>10, <1>11 DEF Registered

\* unload_plugin: the entry goes, and the plugin it holds is shut down.
LEMMA RegistryUnload ==
    ASSUME RegistryInv, CallsFit, SameInstalls, UNCHANGED disturbed,
           NEW n \in Registered, unload(n)
    PROVE  RegistryInv'
<1> USE DEF RegistryInv
<1> DEFINE i == registry[n].plugin
<1>1. n \in Plugins /\ registry[n] \in Entries
  BY DEF Registered
<1>2. /\ registry'[n] = NoEntry
      /\ \A m \in Plugins : m # n => registry'[m] = registry[m]
      /\ registry' = [m \in Plugins |-> registry'[m]]
      /\ Registered' = Registered \ {n}
  <2>1. registry' = [registry EXCEPT ![n] = NoEntry]
    BY DEF unload, remove_entry
  <2>2. QED
    BY <1>1, <2>1 DEF Registered
<1>3. i = Placeholder \/ (i \in Instances /\ Holds(n))
  BY <1>1 DEF Entries, Holds
<1>4. /\ life' \in [Instances -> Lives]
      /\ \A j \in Instances : life'[j] = IF j = i THEN "shut_down" ELSE life[j]
  BY <1>3, PlaceholderApart DEF unload, Lives
<1>5. \A m \in Plugins : /\ Holds(m)' <=> Holds(m) /\ m # n
                         /\ Holds(m) /\ m # n => /\ registry'[m] = registry[m]
                                                 /\ registry[m].plugin \in Instances
                                                 /\ registry[m].plugin # i
  <2>1. \A m \in Plugins : Holds(m)' <=> Holds(m) /\ m # n
    BY <1>2 DEF Holds
  <2>2. \A m \in Plugins : Holds(m) /\ m # n => registry[m].plugin # i
    BY <1>1, <1>3, PluginsCreated, PlaceholderApart DEF OneHolder
  <2>3. QED
    BY <1>2, <2>1, <2>2, PluginsCreated
<1>6. \A d \in Tasks : /\ Carries(d)' <=> Carries(d)
                       /\ Carries(d) => /\ client'[d].plugin = client[d].plugin
                                        /\ client[d].plugin \in Instances
                                        /\ client[d].plugin # i
  <2>1. \A d \in Tasks : /\ Carries(d)' <=> Carries(d)
                         /\ Carries(d) => client'[d].plugin = client[d].plugin
    BY DEF SameInstalls, Carries
  <2>2. \A d \in Tasks : Carries(d) => client[d].plugin # i
    BY <1>1, <1>3, PluginsCreated, PlaceholderApart DEF OneHolder
  <2>3. QED
    BY <2>1, <2>2, PluginsCreated
<1>7. OneHolder'
  <2>1. \A m \in Plugins : Holds(m)' => life'[registry'[m].plugin] \in Live
    BY <1>4, <1>5 DEF OneHolder
  <2>2. \A d \in Tasks : Carries(d)' => life'[client'[d].plugin] = "fresh"
    BY <1>4, <1>6 DEF OneHolder
  <2>3. \A l, m \in Plugins :
            Holds(l)' /\ Holds(m)' /\ registry'[l].plugin = registry'[m].plugin => l = m
    BY <1>5 DEF OneHolder
  <2>4. \A d, e \in Tasks :
            Carries(d)' /\ Carries(e)' /\ client'[d].plugin = client'[e].plugin => d = e
    BY <1>6 DEF OneHolder
  <2>5. \A m \in Plugins, d \in Tasks :
            Holds(m)' /\ Carries(d)' => registry'[m].plugin # client'[d].plugin
    BY <1>5, <1>6 DEF OneHolder
  <2>6. ASSUME NEW j \in Instances, life'[j] \in Live
        PROVE  \/ \E m \in Plugins : Holds(m)' /\ registry'[m].plugin = j
               \/ \E d \in Tasks : Carries(d)' /\ client'[d].plugin = j
    <3>1. life[j] \in Live /\ j # i
      BY <1>4, <2>6 DEF Live
    <3>2. \/ \E m \in Plugins : Holds(m) /\ registry[m].plugin = j
          \/ \E d \in Tasks : Carries(d) /\ client[d].plugin = j
      BY <3>1 DEF OneHolder
    <3>3. QED
      BY <1>5, <1>6, <3>1, <3>2
  <2>7. QED
    BY <2>1, <2>2, <2>3, <2>4, <2>5, <2>6 DEF OneHolder
<1>8. StatusInv'
  <2>1. ASSUME NEW m \in Registered, m # n
        PROVE  /\ registry'[m] = registry[m]
               /\ registry[m].plugin # Placeholder => life'[registry[m].plugin]
                                                          = life[registry[m].plugin]
    BY <1>2, <1>4, <1>5, <2>1 DEF Holds, Registered
  <2>2. QED
    BY <1>2, <2>1 DEF StatusInv
<1>9. Undisturbed'
  <2>1. \A d \in Tasks, m \in Plugins : Installs(d, m)' <=> Installs(d, m)
    BY DEF SameInstalls, Installs
  <2>2. \A m \in Plugins : Holds(m)' => /\ Holds(m) /\ registry'[m] = registry[m]
                                        /\ life'[registry[m].plugin] = life[registry[m].plugin]
    BY <1>4, <1>5
  <2>3. \A m \in Registered' : m \in Registered /\ registry'[m] = registry[m]
    BY <1>2 DEF Registered
  <2> SUFFICES ASSUME disturbed = {} PROVE Undisturbed'
    BY DEF Undisturbed
  <2>4. \A j \in Instances : life'[j] # "lost"
    BY <1>4 DEF Undisturbed
  <2>5. \A m \in Plugins : Holds(m)' /\ life'[registry'[m].plugin] = "initialized"
                               => registry'[m].status = "Initialized"
    BY <2>2 DEF Undisturbed
  <2>6. \A m \in Registered' : \A d \in Tasks :
            Installs(d, m)' => registry'[m].status \in {"Loading", "Discovered"}
    BY <2>1, <2>3 DEF Undisturbed, Registered
  <2>7. QED
    BY <2>1, <2>4, <2>5, <2>6 DEF Undisturbed
<1>10. QED
  BY <1>2, <1>4, <1>7, <1>8, <1>9 DEF Registered

\* A plugin is marked as crashed.
LEMMA RegistryCrash ==
    ASSUME RegistryInv, SameInstalls, UNCHANGED life, NEW n, mark_crashed(n)
    PROVE  RegistryInv'
<1> USE DEF RegistryInv
<1>1. /\ n \in Plugins /\ n \in Registered /\ registry[n] \in Entries
      /\ registry' = [registry EXCEPT ![n].status = "Failed"]
      /\ disturbed' = disturbed \cup {n}
  BY DEF Registered, mark_crashed
<1>2. /\ registry'[n] = [registry[n] EXCEPT !.status = "Failed"]
      /\ \A m \in Plugins : m # n => registry'[m] = registry[m]
      /\ registry' = [m \in Plugins |-> registry'[m]]
  BY <1>1
<1>3. /\ registry'[n] \in Entries /\ registry'[n].status = "Failed"
      /\ registry'[n].plugin = registry[n].plugin /\ registry'[n] # NoEntry
  BY <1>1, <1>2 DEF Entries, NoEntry
<1>4. Registered' = Registered
  BY <1>1, <1>2, <1>3 DEF Registered
<1>5. \A m \in Plugins : /\ Holds(m)' <=> Holds(m)
                         /\ Holds(m) => registry'[m].plugin = registry[m].plugin
  BY <1>2, <1>3, <1>4 DEF Holds
<1>6. \A c \in Tasks : /\ Carries(c)' <=> Carries(c)
                       /\ Carries(c) => client'[c].plugin = client[c].plugin
  BY DEF SameInstalls, Carries
<1>7. OneHolder'
  BY <1>5, <1>6 DEF OneHolder
<1>8. StatusInv'
  BY <1>2, <1>3, <1>4, ZenonT(30) DEF StatusInv, Registered
<1>9. Undisturbed' /\ disturbed' \subseteq Plugins
  BY <1>1 DEF Undisturbed
<1>10. QED
  BY <1>2, <1>3, <1>4, <1>7, <1>8, <1>9 DEF Registered

-----------------------------------------------------------------------------
(***************************************************************************)
(* Where the clients stand                                                 *)
(***************************************************************************)
\* A client moves on.
LEMMA MovesOn ==
    ASSUME CallsFit, NEW c \in Tasks, NEW next, Fits(next), Goto(c, next)
    PROVE  /\ CallsFit'
           /\ client[c].op # "install" /\ next.op # "install" => SameInstalls
<1>1. client'[c] = next /\ \A d \in Tasks : d # c => client'[d] = client[d]
  BY DEF Goto, CallsFit
<1>2. \A d \in Tasks : Fits(client'[d])
  BY <1>1 DEF CallsFit
<1>3. client' = [d \in Tasks |-> client'[d]]
  BY DEF Goto, CallsFit
<1>4. client[c].op # "install" /\ next.op # "install" => SameInstalls
  BY <1>1 DEF SameInstalls
<1>5. QED
  BY <1>2, <1>3, <1>4 DEF CallsFit

\* All clients stay where they are.
LEMMA StaysThere ==
    ASSUME CallsFit, client' = client
    PROVE  CallsFit' /\ SameInstalls
  BY DEF CallsFit, SameInstalls

\* The next load of a list.
LEMMA NextLoadFits ==
    ASSUME NEW order, NEW strict
    PROVE  Fits(NextLoad(order, strict)) /\ NextLoad(order, strict).op # "install"
<1>1. CASE order = <<>>
  BY <1>1 DEF NextLoad, Idle, Fits
<1>2. CASE order # <<>>
  BY <1>2 DEF NextLoad, Fits, KnownThen
<1>3. QED
  BY <1>1, <1>2

\* After load_plugin.
LEMMA AfterLoadFits ==
    ASSUME NEW n, NEW then, KnownThen(then), NEW ok \in BOOLEAN
    PROVE  Fits(AfterLoad(n, then, ok)) /\ AfterLoad(n, then, ok).op # "install"
<1>1. CASE then.k = "return"
  BY <1>1 DEF AfterLoad, Idle, Fits
<1>2. CASE then.k = "reload"
  <2>1. AfterLoad(n, then, ok) \in {Idle, [op |-> "initialize", name |-> n]}
    BY <1>2 DEF AfterLoad
  <2>2. QED
    BY <2>1 DEF Idle, Fits
<1>3. CASE then.k = "all"
  <2>1. AfterLoad(n, then, ok) \in {Idle, NextLoad(then.rest, then.strict)}
    BY <1>3 DEF AfterLoad
  <2>2. QED
    BY <2>1, NextLoadFits DEF Idle, Fits
<1>4. QED
  BY <1>1, <1>2, <1>3 DEF KnownThen

\* The next registration, or what follows the last.
LEMMA RegisterFits ==
    ASSUME NEW metas \in SUBSET Metas, NEW after,
           after.k \in {"return", "created", "reload", "auto"}
    PROVE  Fits(Register(metas, after)) /\ Register(metas, after).op # "install"
<1>1. CASE metas # {}
  BY <1>1 DEF Register, Fits
<1>2. CASE metas = {}
  <2>1. Register(metas, after) = AfterRegister(after)
    BY <1>2 DEF Register
  <2>2. AfterRegister(after)
            \in {Idle, [op |-> "load", name |-> after.name, then |-> Return],
                 [op |-> "load", name |-> after.name,
                  then |-> [k |-> "reload", was |-> after.was]], Resolve({}, FALSE)}
    BY DEF AfterRegister
  <2>3. \A next \in {Idle, [op |-> "load", name |-> after.name, then |-> Return],
                     [op |-> "load", name |-> after.name,
                      then |-> [k |-> "reload", was |-> after.was]], Resolve({}, FALSE)} :
            Fits(next) /\ next.op # "install"
    BY DEF Idle, Return, Resolve, Fits, KnownThen
  <2>4. QED
    BY <2>1, <2>2, <2>3
<1>3. QED
  BY <1>1, <1>2

\* What is read from a file.
LEMMA MetadataTyped ==
    ASSUME DiskInv, NEW n \in Plugins
    PROVE  metadata(n) \in Metas
<1>1. disk[n] \in Files[n]
  BY DEF DiskInv
<1>2. disk[n].deps \in Seq(Plugins)
  BY <1>1, PluginAssumption
<1>3. QED
  BY <1>2 DEF metadata, Metas

-----------------------------------------------------------------------------
(***************************************************************************)
(* The invariant is preserved                                              *)
(***************************************************************************)
\* load_plugin until it takes the lock again, or returns at once.
LEMMA LoadStep ==
    ASSUME CallsFit, RegistryInv, NEW c \in Tasks, client[c].op # "install",
           NEW n, NEW then, KnownThen(then), load_plugin(c, n, then)
    PROVE  CallsFit' /\ RegistryInv'
<1>1. CASE n \in Registered /\ already_loaded(n)
  <2>1. /\ Goto(c, AfterLoad(n, then, TRUE)) /\ UNCHANGED <<registry, life, disturbed>>
    BY <1>1 DEF load_plugin
  <2>2. Fits(AfterLoad(n, then, TRUE)) /\ AfterLoad(n, then, TRUE).op # "install"
    BY AfterLoadFits
  <2>3. CallsFit' /\ SameInstalls
    BY <2>1, <2>2, MovesOn
  <2>4. QED
    BY <2>1, <2>3, RegistryRests
<1>2. CASE n \in Registered /\ ~already_loaded(n)
  <2>1. PICK i \in Opened(n) :
            /\ life' = IF i = Placeholder THEN life ELSE [life EXCEPT ![i] = "fresh"]
            /\ Goto(c, [op |-> "install", name |-> n, plugin |-> i, then |-> then])
    BY <1>2 DEF load_plugin
  <2>2. /\ registry' = [registry EXCEPT ![n].status = "Loading"]
        /\ disturbed' = IF Loading(n) THEN disturbed \cup {n} ELSE disturbed
    BY <1>2 DEF load_plugin
  <2>3. RegistryInv'
    BY <1>2, <2>1, <2>2, RegistryLoad
  <2>4. i \in Instances \cup {Placeholder} /\ n \in Plugins
    BY <1>2 DEF Opened, Unmade, Registered
  <2>5. Fits([op |-> "install", name |-> n, plugin |-> i, then |-> then])
    BY <2>4 DEF Fits
  <2>6. QED
    BY <2>1, <2>3, <2>5, MovesOn
<1>3. QED
  BY <1>1, <1>2 DEF load_plugin

\* The rest of load_plugin.
LEMMA InstallStep ==
    ASSUME CallsFit, RegistryInv, NEW c \in Tasks, install(c)
    PROVE  CallsFit' /\ RegistryInv'
<1> DEFINE n == client[c].name
           i == client[c].plugin
           next == AfterLoad(n, client[c].then, i # Placeholder)
<1>1. /\ client[c].op = "install" /\ KnownThen(client[c].then)
      /\ i \in Instances \cup {Placeholder}
  BY DEF install, CallsFit, Fits
<1>2. Goto(c, next) /\ UNCHANGED disturbed
  BY DEF install
<1>3. Fits(next) /\ next.op # "install"
  BY <1>1, AfterLoadFits
<1> HIDE DEF next
<1>4. CallsFit'
  BY <1>2, <1>3, MovesOn
<1>5. CASE n \notin Registered
  <2>1. life' = dropped(i) /\ UNCHANGED registry
    BY <1>5 DEF install
  <2>2. QED
    BY <1>1, <1>2, <1>3, <1>4, <2>1, RegistryInstallGone
<1>6. CASE n \in Registered /\ i = Placeholder
  <2>1. registry' = [registry EXCEPT ![n].status = "Failed"] /\ UNCHANGED life
    BY <1>6 DEF install
  <2>2. QED
    BY <1>1, <1>2, <1>3, <1>4, <1>6, <2>1, RegistryInstallFails
<1>7. CASE n \in Registered /\ i # Placeholder
  <2>1. /\ registry' = [registry EXCEPT ![n].plugin = i, ![n].status = "Loaded"]
        /\ life' = dropped(registry[n].plugin)
    BY <1>7 DEF install
  <2>2. i \in Instances
    BY <1>1, <1>7
  <2>3. QED
    BY <1>1, <1>2, <1>3, <1>4, <1>7, <2>1, <2>2, RegistryInstall
<1>8. QED
  BY <1>5, <1>6, <1>7

\* initialize_plugin.
LEMMA InitializeStep ==
    ASSUME CallsFit, RegistryInv, SameInstalls, UNCHANGED disturbed, NEW n,
           initialize_plugin(n)
    PROVE  RegistryInv'
<1> DEFINE i == registry[n].plugin
<1>1. n \in Registered /\ may_initialize(n)
  BY DEF initialize_plugin
<1>2. i \in Instances /\ life[i] = "fresh" /\ life \in [Instances -> Lives]
  <2>1. registry[n].status = "Loaded"
    BY <1>1 DEF may_initialize
  <2>2. registry[n].plugin # Placeholder /\ life[i] = "fresh" /\ registry[n] \in Entries
    BY <1>1, <2>1 DEF RegistryInv, StatusInv
  <2>3. QED
    BY <2>2 DEF Entries, RegistryInv
<1>3. CASE /\ registry' = [registry EXCEPT ![n].status = "Initialized"]
           /\ life' = [life EXCEPT ![i] = IF @ = "fresh" THEN "initialized" ELSE "misused"]
  <2> DEFINE ok == TRUE
  <2>1. life' = [life EXCEPT ![i] = IF ok THEN "initialized" ELSE "failed"]
    BY <1>2, <1>3
  <2>2. registry' = [registry EXCEPT ![n].status = IF ok THEN "Initialized" ELSE "Failed"]
    BY <1>3
  <2>3. ok \in BOOLEAN
    OBVIOUS
  <2> HIDE DEF ok
  <2>4. QED
    BY <1>1, <2>1, <2>2, <2>3, RegistryInitialize
<1>4. CASE /\ registry' = [registry EXCEPT ![n].status = "Failed"]
           /\ life' = [life EXCEPT ![i] = "failed"]
  <2> DEFINE ok == FALSE
  <2>1. life' = [life EXCEPT ![i] = IF ok THEN "initialized" ELSE "failed"]
    BY <1>4
  <2>2. registry' = [registry EXCEPT ![n].status = IF ok THEN "Initialized" ELSE "Failed"]
    BY <1>4
  <2>3. ok \in BOOLEAN
    OBVIOUS
  <2> HIDE DEF ok
  <2>4. QED
    BY <1>1, <2>1, <2>2, <2>3, RegistryInitialize
<1>5. QED
  BY <1>3, <1>4 DEF initialize_plugin

\* The next step of a call.
LEMMA ClientStepInv ==
    ASSUME DiskInv, CallsFit, RegistryInv, NEW c \in Tasks, ClientStep(c)
    PROVE  CallsFit' /\ RegistryInv'
<1>1. Fits(client[c])
  BY DEF CallsFit
<1>2. Fits(Idle) /\ Idle.op # "install"
  BY DEF Idle, Fits
<1>3. CASE register_next(c)
  <2>1. /\ client[c].op = "register" /\ client[c].metas \subseteq Metas
        /\ client[c].after.k \in {"return", "created", "reload", "auto"}
        /\ UNCHANGED <<life, disturbed>>
    BY <1>1, <1>3 DEF register_next, Fits
  <2>2. ASSUME NEW m \in client[c].metas, register_plugin(m),
               Goto(c, Register(client[c].metas \ {m}, client[c].after))
        PROVE  CallsFit' /\ RegistryInv'
    <3> DEFINE next == Register(client[c].metas \ {m}, client[c].after)
    <3>1. Fits(next) /\ next.op # "install"
      BY <2>1, RegisterFits
    <3> HIDE DEF next
    <3>2. CallsFit' /\ SameInstalls
      BY <2>1, <2>2, <3>1, MovesOn DEF next
    <3>3. m \in Metas
      BY <2>1
    <3>4. QED
      BY <2>1, <2>2, <3>2, <3>3, RegistryRegister
  <2>3. ASSUME Goto(c, Idle), UNCHANGED registry
        PROVE  CallsFit' /\ RegistryInv'
    <3>1. CallsFit' /\ SameInstalls
      BY <1>2, <2>1, <2>3, MovesOn
    <3>2. QED
      BY <2>1, <2>3, <3>1, RegistryRests
  <2>4. QED
    BY <1>3, <2>2, <2>3 DEF register_next
<1>4. CASE load_next(c)
  <2>1. client[c].op = "load" /\ KnownThen(client[c].then)
    BY <1>1, <1>4 DEF load_next, Fits
  <2>2. CASE load_plugin(c, client[c].name, client[c].then)
    BY <2>1, <2>2, LoadStep
  <2>3. CASE /\ Goto(c, AfterLoad(client[c].name, client[c].then, FALSE))
             /\ UNCHANGED <<registry, life, disturbed>>
    <3> DEFINE next == AfterLoad(client[c].name, client[c].then, FALSE)
    <3>1. Fits(next) /\ next.op # "install"
      BY <2>1, AfterLoadFits
    <3> HIDE DEF next
    <3>2. CallsFit' /\ SameInstalls
      BY <2>1, <2>3, <3>1, MovesOn DEF next
    <3>3. QED
      BY <2>3, <3>2, RegistryRests
  <2>4. QED
    BY <1>4, <2>2, <2>3 DEF load_next
<1>5. CASE install(c)
  BY <1>5, InstallStep
<1>6. CASE reload_unload(c)
  <2> DEFINE n == client[c].name
             next == [client[c] EXCEPT !.op = "extract"]
  <2>1. /\ client[c].op = "unload" /\ UNCHANGED disturbed
        /\ client[c] = [op |-> "unload", name |-> n, was |-> client[c].was]
    BY <1>1, <1>6 DEF reload_unload, Fits
  <2>2. CASE n \in Registered
    <3>1. unload(n) /\ Goto(c, next)
      BY <1>6, <2>2 DEF reload_unload
    <3>2. Fits(next) /\ next.op # "install"
      <4>1. next.op = "extract" /\ next.name = n /\ n \in Plugins
        BY <2>1, <2>2 DEF Registered
      <4> HIDE DEF next
      <4>2. QED
        BY <4>1 DEF Fits
    <3> HIDE DEF next
    <3>3. CallsFit' /\ SameInstalls
      BY <2>1, <3>1, <3>2, MovesOn
    <3>4. QED
      BY <2>1, <2>2, <3>1, <3>3, RegistryUnload
  <2>3. CASE n \notin Registered
    <3>1. Goto(c, Idle) /\ UNCHANGED <<registry, life>>
      BY <1>6, <2>3 DEF reload_unload
    <3>2. CallsFit' /\ SameInstalls
      BY <1>2, <2>1, <3>1, MovesOn
    <3>3. QED
      BY <2>1, <3>1, <3>2, RegistryRests
  <2>4. QED
    BY <2>2, <2>3
<1>7. CASE reload_extract(c)
  <2> DEFINE n == client[c].name
             after == [k |-> "reload", name |-> n, was |-> client[c].was]
             next == IF Readable(n) THEN Register({metadata(n)}, after) ELSE Idle
  <2>1. /\ client[c].op = "extract" /\ n \in Plugins /\ Goto(c, next)
        /\ UNCHANGED <<registry, life, disturbed>>
    BY <1>1, <1>7 DEF reload_extract, Fits
  <2>2. {metadata(n)} \in SUBSET Metas /\ after.k = "reload"
    BY <2>1, MetadataTyped
  <2>3. Fits(Register({metadata(n)}, after)) /\ Register({metadata(n)}, after).op # "install"
    BY <2>2, RegisterFits
  <2>4. Fits(next) /\ next.op # "install"
    BY <1>2, <2>3
  <2> HIDE DEF next
  <2>5. CallsFit' /\ SameInstalls
    BY <2>1, <2>4, MovesOn
  <2>6. QED
    BY <2>1, <2>5, RegistryRests
<1>8. CASE reload_initialize(c)
  <2>1. client[c].op = "initialize" /\ Goto(c, Idle) /\ UNCHANGED disturbed
    BY <1>8 DEF reload_initialize
  <2>2. CallsFit' /\ SameInstalls
    BY <1>2, <2>1, MovesOn
  <2>3. CASE initialize_plugin(client[c].name)
    BY <2>1, <2>2, <2>3, InitializeStep
  <2>4. CASE UNCHANGED <<registry, life>>
    BY <2>1, <2>2, <2>4, RegistryRests
  <2>5. QED
    BY <1>8, <2>3, <2>4 DEF reload_initialize
<1>9. CASE resolve(c)
  <2>1. client[c].op = "resolve" /\ UNCHANGED <<registry, life, disturbed>>
    BY <1>9 DEF resolve
  <2>2. \E next : Fits(next) /\ next.op # "install" /\ Goto(c, next)
    <3>1. CASE resolve_load_order = {}
      BY <1>2, <1>9, <3>1 DEF resolve
    <3>2. CASE resolve_load_order # {}
      <4>1. PICK order \in resolve_load_order :
                Goto(c, IF client[c].strict
                        THEN [op |-> "collect", order |-> order,
                              stack |-> SetToSeq(client[c].names), collected |-> {}]
                        ELSE NextLoad(order, FALSE))
        BY <1>9, <3>2 DEF resolve
      <4> DEFINE start == [op |-> "collect", order |-> order,
                           stack |-> SetToSeq(client[c].names), collected |-> {}]
      <4>2. Fits(start) /\ start.op # "install"
        BY DEF Fits
      <4>3. Fits(NextLoad(order, FALSE)) /\ NextLoad(order, FALSE).op # "install"
        BY NextLoadFits
      <4>4. Goto(c, start) \/ Goto(c, NextLoad(order, FALSE))
        BY <4>1
      <4> HIDE DEF start
      <4>5. QED
        BY <4>2, <4>3, <4>4
    <3>3. QED
      BY <3>1, <3>2
  <2>3. CallsFit' /\ SameInstalls
    BY <2>1, <2>2, MovesOn
  <2>4. QED
    BY <2>1, <2>3, RegistryRests
<1>10. CASE collect_dependencies(c)
  <2> DEFINE me == client[c]
             n == Head(me.stack)
             met == me.collected \cup {n}
             load == NextLoad(SelectSeq(me.order, LAMBDA m : m \in me.collected), TRUE)
             rest == to_visit(Deps(n) \o Tail(me.stack), met)
             on == [me EXCEPT !.collected = met, !.stack = rest]
  <2>1. /\ me.op = "collect" /\ UNCHANGED <<registry, life, disturbed>>
        /\ me \in [op : {"collect"}, order : {me.order}, stack : {me.stack},
                   collected : {me.collected}]
    BY <1>1, <1>10 DEF collect_dependencies, Fits
  <2>2. Goto(c, load) \/ Goto(c, on) \/ Goto(c, Idle)
    BY <1>10 DEF collect_dependencies
  <2>3. Fits(load) /\ load.op # "install"
    BY NextLoadFits
  <2>4. Fits(on) /\ on.op # "install"
    <3> HIDE DEF me, met, rest
    <3>1. /\ on \in [op : {"collect"}, order : {me.order}, stack : {rest}, collected : {met}]
          /\ on.op = "collect" /\ on.order = me.order /\ on.stack = rest /\ on.collected = met
      BY <2>1
    <3> HIDE DEF on
    <3>2. QED
      BY <3>1 DEF Fits
  <2> HIDE DEF load, on
  <2>5. CallsFit' /\ SameInstalls
    BY <1>2, <2>1, <2>2, <2>3, <2>4, MovesOn
  <2>6. QED
    BY <2>1, <2>5, RegistryRests
<1>11. QED
  BY <1>3, <1>4, <1>5, <1>6, <1>7, <1>8, <1>9, <1>10 DEF ClientStep

\* A call begins.
LEMMA CallInv ==
    ASSUME DiskInv, CallsFit, RegistryInv, NEW c \in Tasks, Call(c)
    PROVE  CallsFit' /\ RegistryInv'
<1>1. client[c].op # "install"
  BY DEF Call, Idle
<1>2. CASE call_register(c)
  <2>1. PICK n \in Plugins : \E f \in Files[n] : register_plugin([name |-> n, deps |-> f.deps])
    BY <1>2 DEF call_register
  <2>2. PICK f \in Files[n] : register_plugin([name |-> n, deps |-> f.deps])
    BY <2>1
  <2>3. [name |-> n, deps |-> f.deps] \in Metas
    BY PluginAssumption DEF Metas
  <2>4. client' = client /\ UNCHANGED <<life, disturbed>>
    BY <1>2 DEF call_register
  <2>5. CallsFit' /\ SameInstalls
    BY <2>4, StaysThere
  <2>6. QED
    BY <2>2, <2>3, <2>4, <2>5, RegistryRegister
<1>3. CASE call_load(c)
  <2>1. PICK n \in Registered : load_plugin(c, n, Return)
    BY <1>3 DEF call_load
  <2>2. KnownThen(Return)
    BY DEF KnownThen, Return
  <2>3. QED
    BY <1>1, <2>1, <2>2, LoadStep
<1>4. CASE call_initialize(c)
  <2>1. PICK n \in Plugins : initialize_plugin(n)
    BY <1>4 DEF call_initialize
  <2>2. client' = client /\ UNCHANGED disturbed
    BY <1>4 DEF call_initialize
  <2>3. CallsFit' /\ SameInstalls
    BY <2>2, StaysThere
  <2>4. QED
    BY <2>1, <2>2, <2>3, InitializeStep
<1>5. CASE call_unload(c)
  <2>1. PICK n \in Registered : unload(n)
    BY <1>5 DEF call_unload
  <2>2. client' = client /\ UNCHANGED disturbed
    BY <1>5 DEF call_unload
  <2>3. CallsFit' /\ SameInstalls
    BY <2>2, StaysThere
  <2>4. QED
    BY <2>1, <2>2, <2>3, RegistryUnload
<1>6. CASE call_safe(c)
  <2>1. PICK n \in Plugins : mark_crashed(n)
    BY <1>6 DEF call_safe
  <2>2. client' = client /\ UNCHANGED life
    BY <1>6 DEF call_safe
  <2>3. CallsFit' /\ SameInstalls
    BY <2>2, StaysThere
  <2>4. QED
    BY <2>1, <2>2, <2>3, RegistryCrash
\* The longer operations only put the client on its way.
<1>7. ASSUME NEW next, Fits(next), next.op # "install", Goto(c, next),
             UNCHANGED <<registry, life, disturbed>>
      PROVE  CallsFit' /\ RegistryInv'
  <2>1. CallsFit' /\ SameInstalls
    BY <1>1, <1>7, MovesOn
  <2>2. QED
    BY <1>7, <2>1, RegistryRests
<1>8. CASE call_reload(c)
  <2>1. PICK n \in Registered :
            Goto(c, [op |-> "unload", name |-> n, was |-> registry[n].status = "Initialized"])
    BY <1>8 DEF call_reload
  <2> DEFINE next == [op |-> "unload", name |-> n, was |-> registry[n].status = "Initialized"]
  <2>2. Fits(next) /\ next.op # "install"
    BY DEF Fits
  <2>3. UNCHANGED <<registry, life, disturbed>>
    BY <1>8 DEF call_reload
  <2> HIDE DEF next
  <2>4. Goto(c, next)
    BY <2>1 DEF next
  <2>5. QED
    BY <1>7, <2>2, <2>3, <2>4
<1>9. CASE call_created(c)
  <2>1. PICK n \in Plugins :
            Goto(c, Register({metadata(n)}, [k |-> "created", name |-> n]))
    BY <1>9 DEF call_created
  <2> DEFINE after == [k |-> "created", name |-> n]
             next == Register({metadata(n)}, after)
  <2>2. {metadata(n)} \in SUBSET Metas /\ after.k = "created"
    BY MetadataTyped
  <2>3. Fits(next) /\ next.op # "install"
    BY <2>2, RegisterFits
  <2>4. UNCHANGED <<registry, life, disturbed>>
    BY <1>9 DEF call_created
  <2>5. Goto(c, next)
    BY <2>1
  <2> HIDE DEF next
  <2>6. QED
    BY <1>7, <2>3, <2>4, <2>5
<1>10. CASE call_auto_discover_and_load(c)
  <2> DEFINE metas == {metadata(n) : n \in {n \in Plugins : Readable(n)}}
             after == [k |-> "auto"]
             next == Register(metas, after)
  <2>1. metas \in SUBSET Metas /\ after.k = "auto"
    BY MetadataTyped
  <2>2. Goto(c, next) /\ UNCHANGED <<registry, life, disturbed>>
    BY <1>10 DEF call_auto_discover_and_load
  <2> HIDE DEF metas
  <2>3. Fits(next) /\ next.op # "install"
    BY <2>1, RegisterFits
  <2> HIDE DEF next
  <2>4. QED
    BY <1>7, <2>2, <2>3
<1>11. CASE call_load_plugins_with_dependencies(c)
  <2>1. PICK names \in SUBSET Registered : Goto(c, Resolve(names, TRUE))
    BY <1>11 DEF call_load_plugins_with_dependencies
  <2>2. Fits(Resolve(names, TRUE)) /\ Resolve(names, TRUE).op # "install"
    BY DEF Resolve, Fits
  <2>3. UNCHANGED <<registry, life, disturbed>>
    BY <1>11 DEF call_load_plugins_with_dependencies
  <2>4. QED
    BY <1>7, <2>1, <2>2, <2>3
<1>12. QED
  BY <1>2, <1>3, <1>4, <1>5, <1>6, <1>8, <1>9, <1>10, <1>11 DEF Call

\* Files change, and nothing else changes them.
LEMMA DiskStep ==
    ASSUME DiskInv, [PluginNext]_pluginVars
    PROVE  DiskInv'
<1>1. CASE UNCHANGED disk
  BY <1>1 DEF DiskInv
<1>2. ASSUME NEW n \in Plugins, change_file(n)
      PROVE  DiskInv'
  <2>1. PICK f \in Files[n] \ {disk[n]} : disk' = [disk EXCEPT ![n] = f]
    BY <1>2 DEF change_file
  <2>2. QED
    BY <2>1 DEF DiskInv
<1>3. QED
  BY <1>1, <1>2 DEF PluginNext, Call, ClientStep, register_next, load_next, install,
     reload_unload, reload_extract, reload_initialize, resolve, collect_dependencies, pluginVars

\* Every step preserves the invariant.
LEMMA PluginNextInv ==
    ASSUME PluginInv, [PluginNext]_pluginVars
    PROVE  PluginInv'
<1>1. DiskInv /\ CallsFit /\ RegistryInv
  BY DEF PluginInv
<1>2. DiskInv'
  BY <1>1, DiskStep
<1>3. ASSUME NEW c \in Tasks, Call(c) \/ ClientStep(c)
      PROVE  CallsFit' /\ RegistryInv'
  BY <1>1, <1>3, CallInv, ClientStepInv
<1>4. ASSUME UNCHANGED <<registry, life, client, disturbed>>
      PROVE  CallsFit' /\ RegistryInv'
  <2>1. CallsFit' /\ SameInstalls
    BY <1>1, <1>4, StaysThere
  <2>2. QED
    BY <1>1, <1>4, <2>1, RegistryRests
<1>5. QED
  BY <1>2, <1>3, <1>4 DEF PluginInv, PluginNext, change_file, pluginVars

\* At first no plugin has been created and nobody is inside a call.
LEMMA PluginInitInv ==
    ASSUME PluginInit
    PROVE  PluginInv
<1>1. DiskInv
  BY PluginAssumption DEF PluginInit, DiskInv
<1>2. CallsFit
  BY DEF PluginInit, CallsFit, Idle, Fits
<1>3. PICK found \in {{}, {n \in Plugins : Readable(n)}} :
          registry = [n \in Plugins |-> IF n \in found THEN entry(metadata(n)) ELSE NoEntry]
  BY DEF PluginInit
<1>4. \A n \in Plugins : /\ entry(metadata(n)) \in Entries
                         /\ entry(metadata(n)).status = "Discovered"
                         /\ entry(metadata(n)).plugin = Placeholder
  <2>1. \A n \in Plugins : metadata(n) \in Metas
    BY <1>1, MetadataTyped
  <2>2. QED
    BY <2>1 DEF entry, Entries, Metas
<1>5. \A n \in Registered : /\ registry[n] \in Entries
                            /\ registry[n].status = "Discovered"
                            /\ registry[n].plugin = Placeholder
  BY <1>3, <1>4 DEF Registered
<1>6. \A n \in Plugins : ~Holds(n)
  BY <1>5 DEF Holds
<1>7. \A c \in Tasks : ~Carries(c) /\ \A n : ~Installs(c, n)
  BY DEF PluginInit, Idle, Carries, Installs
<1>8. \A i \in Instances : life[i] = "unmade"
  BY DEF PluginInit
<1>9. OneHolder
  BY <1>6, <1>7, <1>8 DEF OneHolder, Live
<1>10. StatusInv
  BY <1>5 DEF StatusInv
<1>11. Undisturbed
  BY <1>6, <1>7, <1>8 DEF Undisturbed
<1>12. registry = [n \in Plugins |-> registry[n]]
  BY <1>3
<1>13. life \in [Instances -> Lives] /\ disturbed \subseteq Plugins
  BY DEF PluginInit, Lives
<1>14. RegistryInv
  BY <1>5, <1>9, <1>10, <1>11, <1>12, <1>13 DEF RegistryInv
<1>15. QED
  BY <1>1, <1>2, <1>14 DEF PluginInv

-----------------------------------------------------------------------------
(***************************************************************************)
(* The theorems                                                            *)
(***************************************************************************)
\* The invariant holds in every state of the manager.
THEOREM PluginInvariant == PluginSpec => []PluginInv
<1>1. PluginInit => PluginInv
  BY PluginInitInv
<1>2. PluginInv /\ [PluginNext]_pluginVars => PluginInv'
  BY PluginNextInv
<1>3. QED
  BY <1>1, <1>2, PTL DEF PluginSpec

\* The holders of a plugin: one as long as it lives, none when it is gone.
LEMMA HoldersCounted ==
    ASSUME CallsFit, RegistryInv, NEW i \in Instances
    PROVE  Cardinality(Holders(i)) = IF life[i] \in Live THEN 1 ELSE 0
<1> DEFINE entries == {n \in Registered : registry[n].plugin = i}
           carriers == {c \in Tasks : client[c].op = "install" /\ client[c].plugin = i}
<1>1. OneHolder /\ i # Placeholder
  BY PlaceholderApart DEF RegistryInv
<1>2. \A n \in entries : n \in Plugins /\ Holds(n) /\ registry[n].plugin = i
  BY <1>1 DEF Holds, Registered
<1>3. \A c \in carriers : c \in Tasks /\ Carries(c) /\ client[c].plugin = i
  BY <1>1 DEF Carries
<1>4. \A x, y \in entries \cup carriers : x = y
  <2>1. \A x, y \in entries : x = y
    BY <1>1, <1>2 DEF OneHolder
  <2>2. \A x, y \in carriers : x = y
    BY <1>1, <1>3 DEF OneHolder
  <2>3. \A x \in entries, y \in carriers : FALSE
    BY <1>1, <1>2, <1>3 DEF OneHolder
  <2> HIDE DEF entries, carriers
  <2>4. QED
    BY <2>1, <2>2, <2>3
<1>5. entries \cup carriers # {} <=> life[i] \in Live
  <2>1. ASSUME NEW n \in entries
        PROVE  life[i] \in Live
    BY <1>1, <1>2 DEF OneHolder
  <2>2. ASSUME NEW c \in carriers
        PROVE  life[i] \in Live
    BY <1>1, <1>3 DEF OneHolder, Live
  <2>3. ASSUME life[i] \in Live
        PROVE  entries \cup carriers # {}
    <3>1. \/ \E n \in Plugins : Holds(n) /\ registry[n].plugin = i
          \/ \E c \in Tasks : Carries(c) /\ client[c].plugin = i
      BY <1>1, <2>3 DEF OneHolder
    <3>2. QED
      BY <3>1 DEF Holds, Carries
  <2> HIDE DEF entries, carriers
  <2>4. QED
    BY <2>1, <2>2, <2>3
<1>6. Holders(i) = entries \cup carriers
  BY DEF Holders
<1> HIDE DEF entries, carriers
<1>7. CASE life[i] \in Live
  <2>1. PICK x : Holders(i) = {x}
    BY <1>4, <1>5, <1>6, <1>7
  <2>2. QED
    BY <1>7, <2>1, FS_Singleton
<1>8. CASE life[i] \notin Live
  BY <1>5, <1>6, <1>8, FS_EmptySet
<1>9. QED
  BY <1>7, <1>8

\* However loads, reloads and unloads of a plugin interleave, the status of its entry
\* tells the truth about the plugin the entry holds.
THEOREM StatusIsTrue == PluginSpec => []StatusMatchesInstance
<1>1. PluginInv => StatusMatchesInstance
  <2> SUFFICES ASSUME PluginInv PROVE StatusMatchesInstance
    OBVIOUS
  <2>1. DiskInv /\ CallsFit /\ RegistryInv /\ StatusInv
    BY DEF PluginInv, RegistryInv
  <2>2. PluginTypeOK
    BY <2>1 DEF PluginTypeOK, DiskInv, CallsFit, Fits, RegistryInv, Entries, Lives
  <2>3. \A i \in Instances : Cardinality(Holders(i)) = IF life[i] \in Live THEN 1 ELSE 0
    BY <2>1, HoldersCounted
  <2>4. QED
    BY <2>1, <2>2, <2>3 DEF StatusMatchesInstance, StatusInv
<1>2. QED
  BY <1>1, PluginInvariant, PTL

\* Without overlapping loads and crash marks, no initialized plugin is dropped without
\* its shutdown.
THEOREM LossNeedsDisturbance == PluginSpec => []LostNeedsDisturbance
<1>1. PluginInv => LostNeedsDisturbance
  BY DEF PluginInv, RegistryInv, Undisturbed, LostNeedsDisturbance
<1>2. QED
  BY <1>1, PluginInvariant, PTL

-----------------------------------------------------------------------------
(***************************************************************************)
(* The load order                                                          *)
(***************************************************************************)
\* Every plugin of a list comes after those it depends on.
AfterDeps(list) ==
    \A i \in DOMAIN list : Range(Deps(list[i])) \subseteq {list[j] : j \in 1..i - 1}

\* Where the sort may be.
Accs == [queue : Seq(Registered), degree : [Registered -> Int], result : Seq(Registered)]

\* After n turns of the sort: a degree counts the dependencies that are not in the result,
\* and is zero for the plugins that are in the result or the queue, each of them once.
KahnInv(acc, n) ==
    /\ acc \in Accs
    /\ IsInjective(acc.result) /\ IsInjective(acc.queue)
    /\ Range(acc.result) \cap Range(acc.queue) = {}
    /\ \A x \in Registered :
          /\ acc.degree[x] \in Nat
          /\ acc.degree[x] + Cardinality(Range(Deps(x)) \cap Range(acc.result)) = Len(Deps(x))
          /\ acc.degree[x] = 0 <=> x \in Range(acc.result) \cup Range(acc.queue)
    /\ AfterDeps(acc.result)
    /\ Len(acc.result) = n \/ acc.queue = <<>>

\* Plugins list plugins, all of them registered.
DepsTyped == \A n \in Registered : Deps(n) \in Seq(Plugins)
AllThere == \A n \in Registered : Range(Deps(n)) \subseteq Registered

\* The first queue holds the plugins without dependencies.
LEMMA KahnStarts ==
  ASSUME DepsTyped, AllThere
  PROVE  kahn_start # {} /\ \A acc \in kahn_start : KahnInv(acc, 0)
<1>1. PICK free : free = {n \in Registered : Deps(n) = <<>>}
  OBVIOUS
<1>2. free \subseteq Registered /\ IsFiniteSet(free)
  BY <1>1, PluginAssumption, FS_Subset DEF Registered
<1>3. /\ SetToSeqs(free) # {}
      /\ \A list \in SetToSeqs(free) :
             list \in Seq(free) /\ Range(list) = free /\ IsInjective(list)
  BY <1>2, Arranged
<1>4. PICK count : count = [n \in Registered |-> Len(Deps(n))]
  OBVIOUS
<1>5. kahn_start = {[queue |-> queued, degree |-> count, result |-> <<>>] :
                       queued \in SetToSeqs(free)}
  BY <1>1, <1>4 DEF kahn_start
<1>6. \A n \in Registered : /\ count[n] \in Nat /\ count[n] = Len(Deps(n))
                            /\ count[n] = 0 <=> n \in free
  BY <1>1, <1>4, LenProperties, EmptySeq DEF DepsTyped
<1>7. ASSUME NEW acc \in kahn_start
      PROVE  KahnInv(acc, 0)
  <2>1. PICK queued \in SetToSeqs(free) :
           acc = [queue |-> queued, degree |-> count, result |-> <<>>]
    BY <1>5
  <2>2. queued \in Seq(Registered) /\ Range(queued) = free /\ IsInjective(queued)
    BY <1>2, <1>3
  <2>3. acc.queue = queued /\ acc.degree = count /\ acc.result = <<>>
    BY <2>1
  <2>4. acc \in Accs
    <3>1. count \in [Registered -> Int]
      BY <1>4, <1>6
    <3>2. <<>> \in Seq(Registered)
      OBVIOUS
    <3>3. QED
      BY <2>1, <2>2, <3>1, <3>2 DEF Accs
  <2>5. DOMAIN <<>> = {} /\ Range(<<>>) = {} /\ Len(<<>>) = 0
    BY DEF Range
  <2>6. IsInjective(<<>>) /\ AfterDeps(<<>>)
    BY <2>5 DEF IsInjective, AfterDeps
  <2>7. \A x \in Registered : Cardinality(Range(Deps(x)) \cap {}) = 0
    BY FS_EmptySet
  <2>8. \A x \in Registered :
           /\ count[x] \in Nat
           /\ count[x] + Cardinality(Range(Deps(x)) \cap {}) = Len(Deps(x))
           /\ count[x] = 0 <=> x \in {} \cup free
    BY <1>6, <2>7
  <2>9. QED
    BY <2>2, <2>3, <2>4, <2>5, <2>6, <2>8 DEF KahnInv
<1>8. kahn_start # {}
  BY <1>3, <1>5
<1>9. QED
  BY <1>7, <1>8

\* A plugin whose degree is zero has all it depends on in the result.
LEMMA ZeroIsReady ==
  ASSUME DepsTyped, NEW done, NEW x \in Registered, IsFiniteSet(done)
  PROVE  /\ Cardinality(Range(Deps(x)) \cap done) \in Nat
         /\ Cardinality(Range(Deps(x)) \cap done) <= Len(Deps(x)) /\ Len(Deps(x)) \in Nat
         /\ Cardinality(Range(Deps(x)) \cap done) = Len(Deps(x)) => Range(Deps(x)) \subseteq done
<1>1. Deps(x) \in Seq(Plugins)
  BY DEF DepsTyped
<1>2. PICK deps : deps = Range(Deps(x))
  OBVIOUS
<1>3. /\ IsFiniteSet(deps) /\ Cardinality(deps) \in Nat /\ Len(Deps(x)) \in Nat
      /\ Cardinality(deps) <= Len(Deps(x))
  BY <1>1, <1>2, RangeCounted
<1>4. PICK both \in SUBSET deps : both = deps \cap done
  OBVIOUS
<1>5. /\ IsFiniteSet(both) /\ Cardinality(both) <= Cardinality(deps)
      /\ Cardinality(deps) = Cardinality(both) => deps = both
  BY <1>3, FS_Subset
<1>6. Cardinality(both) \in Nat
  BY <1>5, FS_CardinalityType
<1>7. QED
  BY <1>2, <1>3, <1>4, <1>5, <1>6

\* A turn takes the first plugin of the queue and queues those that waited for it only.
LEMMA KahnTakes ==
  ASSUME DepsTyped, NEW n \in Nat \ {0}, NEW acc, KahnInv(acc, n - 1), acc.queue # <<>>
  PROVE  kahn_turn(acc) # {} /\ \A next \in kahn_turn(acc) : KahnInv(next, n)
<1> DEFINE current == Head(acc.queue)
           done == Range(acc.result)
           after == [x \in Registered |-> IF current \in Range(Deps(x))
                                          THEN acc.degree[x] - 1 ELSE acc.degree[x]]
           new == ready(current, acc.degree, after)
<1>1. /\ acc.queue \in Seq(Registered) /\ acc.result \in Seq(Registered)
      /\ acc.degree \in [Registered -> Int]
      /\ IsInjective(acc.result) /\ IsInjective(acc.queue) /\ done \cap Range(acc.queue) = {}
  BY DEF KahnInv, Accs
<1>2. /\ current \in Registered /\ Tail(acc.queue) \in Seq(Registered)
      /\ IsInjective(Tail(acc.queue)) /\ current \notin Range(Tail(acc.queue))
      /\ Range(acc.queue) = {current} \cup Range(Tail(acc.queue))
  BY <1>1, OnceTail
<1>3. current \notin done /\ IsFiniteSet(done) /\ IsFiniteSet(done \cup {current})
  <2>1. IsFiniteSet(done)
    BY <1>1, RangeCounted
  <2>2. IsFiniteSet(done \cup {current})
    BY <2>1, FS_AddElement
  <2>3. QED
    BY <1>1, <1>2, <2>1, <2>2
<1>4. after \in [Registered -> Int]
      /\ \A x \in Registered : after[x] = IF current \in Range(Deps(x))
                                          THEN acc.degree[x] - 1 ELSE acc.degree[x]
  BY <1>1
<1>5. new = {x \in Registered : current \in Range(Deps(x)) /\ after[x] = 0}
  BY DEF ready
<1>6. kahn_turn(acc) = {[queue |-> Tail(acc.queue) \o queued, degree |-> after,
                         result |-> Append(acc.result, current)] : queued \in SetToSeqs(new)}
  BY DEF kahn_turn
<1> HIDE DEF current, done, after, new
<1>7. new \subseteq Registered /\ IsFiniteSet(new)
  BY <1>5, PluginAssumption, FS_Subset DEF Registered
<1>8. /\ SetToSeqs(new) # {}
      /\ \A list \in SetToSeqs(new) :
             list \in Seq(new) /\ Range(list) = new /\ IsInjective(list)
  BY <1>7, Arranged
<1>9. ASSUME NEW x \in Registered
      PROVE  /\ after[x] \in Nat
             /\ after[x] + Cardinality(Range(Deps(x)) \cap (done \cup {current})) = Len(Deps(x))
             /\ after[x] = 0 <=> x \in done \cup Range(acc.queue) \cup new
             /\ x \in new => x \notin done \cup Range(acc.queue)
  <2>1. /\ acc.degree[x] \in Nat
        /\ acc.degree[x] + Cardinality(Range(Deps(x)) \cap done) = Len(Deps(x))
        /\ acc.degree[x] = 0 <=> x \in done \cup Range(acc.queue)
    BY DEF KahnInv, done
  <2>2. /\ Cardinality(Range(Deps(x)) \cap (done \cup {current})) \in Nat
        /\ Cardinality(Range(Deps(x)) \cap (done \cup {current})) <= Len(Deps(x))
        /\ Cardinality(Range(Deps(x)) \cap done) \in Nat /\ Len(Deps(x)) \in Nat
    BY <1>3, ZeroIsReady
  <2>3. CASE current \in Range(Deps(x))
    <3>1. IsFiniteSet(Range(Deps(x)) \cap done)
      BY <1>3, FS_Intersection
    <3>2. Range(Deps(x)) \cap (done \cup {current}) = (Range(Deps(x)) \cap done) \cup {current}
      BY <2>3
    <3>3. current \notin Range(Deps(x)) \cap done
      BY <1>3
    <3>4. Cardinality(Range(Deps(x)) \cap (done \cup {current}))
              = Cardinality(Range(Deps(x)) \cap done) + 1
      BY <3>1, <3>2, <3>3, FS_AddElement
    <3>5. after[x] = acc.degree[x] - 1
      BY <1>4, <2>3
    <3>6. after[x] \in Nat /\ acc.degree[x] # 0
          /\ after[x] + Cardinality(Range(Deps(x)) \cap (done \cup {current})) = Len(Deps(x))
      BY <2>1, <2>2, <3>4, <3>5
    <3>7. x \in new <=> after[x] = 0
      BY <1>5, <2>3
    <3>8. QED
      BY <2>1, <3>6, <3>7
  <2>4. CASE current \notin Range(Deps(x))
    <3>1. Range(Deps(x)) \cap (done \cup {current}) = Range(Deps(x)) \cap done
      BY <2>4
    <3>2. after[x] = acc.degree[x] /\ x \notin new
      BY <1>4, <1>5, <2>4
    <3>3. QED
      BY <2>1, <3>1, <3>2
  <2>5. QED
    BY <2>3, <2>4
<1>10. PICK more \in Seq(Registered) : more = Append(acc.result, current)
  BY <1>1, <1>2, RangeAppend
<1>11. /\ Range(more) = done \cup {current} /\ IsInjective(more)
       /\ Len(more) = Len(acc.result) + 1 /\ Len(acc.result) \in Nat
       /\ \A i \in 1..Len(acc.result) : more[i] = acc.result[i]
       /\ more[Len(acc.result) + 1] = current
       /\ DOMAIN more = 1..Len(acc.result) + 1 /\ DOMAIN acc.result = 1..Len(acc.result)
  BY <1>1, <1>2, <1>3, <1>10, RangeAppend, OnceAppend, LenProperties DEF done
<1>12. AfterDeps(more)
  <2>1. SUFFICES ASSUME NEW i \in 1..Len(acc.result) + 1
                 PROVE  Range(Deps(more[i])) \subseteq {more[j] : j \in 1..i - 1}
    BY <1>11 DEF AfterDeps
  <2>2. \A j \in 1..i - 1 : more[j] = acc.result[j]
    BY <1>11
  <2>3. CASE i \in 1..Len(acc.result)
    <3>1. Range(Deps(acc.result[i])) \subseteq {acc.result[j] : j \in 1..i - 1}
      BY <1>11, <2>3 DEF KahnInv, AfterDeps
    <3>2. QED
      BY <1>11, <2>2, <2>3, <3>1
  <2>4. CASE i = Len(acc.result) + 1
    <3>1. /\ acc.degree[current] + Cardinality(Range(Deps(current)) \cap done)
                 = Len(Deps(current))
          /\ acc.degree[current] = 0
      BY <1>2 DEF KahnInv, done
    <3>2. Range(Deps(current)) \subseteq done
      <4>1. /\ Cardinality(Range(Deps(current)) \cap done) \in Nat
            /\ Cardinality(Range(Deps(current)) \cap done) = Len(Deps(current))
                  => Range(Deps(current)) \subseteq done
        BY <1>2, <1>3, ZeroIsReady
      <4>2. QED
        BY <3>1, <4>1
    <3>3. done = {acc.result[j] : j \in 1..Len(acc.result)}
      BY <1>11 DEF done, Range
    <3>4. 1..i - 1 = 1..Len(acc.result)
      BY <1>11, <2>4
    <3>5. QED
      BY <1>11, <2>2, <2>4, <3>2, <3>3, <3>4
  <2>5. QED
    BY <1>11, <2>3, <2>4
<1>13. Len(more) = n
  BY <1>11 DEF KahnInv
<1>14. ASSUME NEW next \in kahn_turn(acc)
       PROVE  KahnInv(next, n)
  <2>1. PICK queued \in SetToSeqs(new) :
           next = [queue |-> Tail(acc.queue) \o queued, degree |-> after, result |-> more]
    BY <1>6, <1>10
  <2>2. queued \in Seq(Registered) /\ Range(queued) = new /\ IsInjective(queued)
    BY <1>7, <1>8
  <2>3. Range(Tail(acc.queue)) \cap new = {} /\ current \notin new /\ new \cap done = {}
    BY <1>2, <1>7, <1>9
  <2>4. PICK queue \in Seq(Registered) : queue = Tail(acc.queue) \o queued
    BY <1>2, <2>2, RangeConcat
  <2>5. Range(queue) = Range(Tail(acc.queue)) \cup new /\ IsInjective(queue)
    <3>1. PICK rest \in Seq(Registered) : rest = Tail(acc.queue)
      BY <1>2
    <3>2. IsInjective(rest) /\ Range(rest) \cap Range(queued) = {}
      BY <1>2, <2>2, <2>3, <3>1
    <3>3. Range(rest \o queued) = Range(rest) \cup Range(queued) /\ IsInjective(rest \o queued)
      BY <2>2, <3>2, RangeConcat
    <3>4. QED
      BY <2>2, <2>4, <3>1, <3>3
  <2>6. next.queue = queue /\ next.degree = after /\ next.result = more
    BY <2>1, <2>4
  <2>7. next \in Accs
    BY <1>4, <2>1, <2>4 DEF Accs
  <2>8. (done \cup {current}) \cap Range(queue) = {}
    BY <1>1, <1>2, <2>3, <2>5
  <2>9. (done \cup {current}) \cup Range(queue) = done \cup Range(acc.queue) \cup new
    BY <1>2, <2>5
  <2>10. QED
    BY <1>9, <1>11, <1>12, <1>13, <2>5, <2>6, <2>7, <2>8, <2>9 DEF KahnInv
<1>15. kahn_turn(acc) # {}
  BY <1>6, <1>8
<1>16. QED
  BY <1>14, <1>15

\* Once the queue is empty nothing happens.
LEMMA KahnTurnKeeps ==
  ASSUME DepsTyped, NEW n \in Nat \ {0}, NEW acc, KahnInv(acc, n - 1)
  PROVE  kahn_turn(acc) # {} /\ \A next \in kahn_turn(acc) : KahnInv(next, n)
<1>1. CASE acc.queue = <<>>
  <2>1. kahn_turn(acc) = {acc}
    BY <1>1 DEF kahn_turn
  <2>2. KahnInv(acc, n)
    BY <1>1 DEF KahnInv
  <2>3. QED
    BY <2>1, <2>2
<1>2. CASE acc.queue # <<>>
  BY <1>2, KahnTakes
<1>3. QED
  BY <1>1, <1>2

\* A turn leads from one place of the sort to others.
LEMMA KahnTurnTyped ==
  ASSUME NEW acc \in Accs
  PROVE  kahn_turn(acc) \subseteq Accs
<1>1. CASE acc.queue = <<>>
  BY <1>1 DEF kahn_turn
<1>2. CASE acc.queue # <<>>
  <2> DEFINE current == Head(acc.queue)
             after == [x \in Registered |-> IF current \in Range(Deps(x))
                                            THEN acc.degree[x] - 1 ELSE acc.degree[x]]
             new == ready(current, acc.degree, after)
  <2>1. /\ acc.queue \in Seq(Registered) /\ acc.result \in Seq(Registered)
        /\ acc.degree \in [Registered -> Int]
    BY DEF Accs
  <2>2. current \in Registered /\ Tail(acc.queue) \in Seq(Registered)
    BY <1>2, <2>1, RangeTail
  <2>3. after \in [Registered -> Int]
    BY <2>1
  <2>4. new \subseteq Registered /\ IsFiniteSet(new)
    BY PluginAssumption, FS_Subset DEF Registered, ready
  <2>5. kahn_turn(acc) = {[queue |-> Tail(acc.queue) \o queued, degree |-> after,
                           result |-> Append(acc.result, current)] : queued \in SetToSeqs(new)}
    BY <1>2 DEF kahn_turn
  <2> HIDE DEF current, after, new
  <2>6. \A queued \in SetToSeqs(new) : queued \in Seq(Registered)
    BY <2>4, Arranged
  <2>7. Append(acc.result, current) \in Seq(Registered)
    BY <2>1, <2>2, RangeAppend
  <2>8. \A queued \in SetToSeqs(new) : Tail(acc.queue) \o queued \in Seq(Registered)
    BY <2>2, <2>6, RangeConcat
  <2>9. ASSUME NEW next \in kahn_turn(acc) PROVE next \in Accs
    <3>1. PICK queued \in SetToSeqs(new) :
             next = [queue |-> Tail(acc.queue) \o queued, degree |-> after,
                     result |-> Append(acc.result, current)]
      BY <2>5
    <3>2. PICK queue \in Seq(Registered) : queue = Tail(acc.queue) \o queued
      BY <2>8
    <3>3. PICK more \in Seq(Registered) : more = Append(acc.result, current)
      BY <2>7
    <3>4. next = [queue |-> queue, degree |-> after, result |-> more]
      BY <3>1, <3>2, <3>3
    <3>5. QED
      BY <2>3, <3>4 DEF Accs
  <2>10. QED
    BY <2>9
<1>3. QED
  BY <1>1, <1>2

\* The turns are the repeated turn.
LEMMA KahnRepeats ==
  ASSUME DepsTyped, AllThere, NEW N \in Nat, N = Cardinality(Registered)
  PROVE  /\ kahn_turns[0] = kahn_start
         /\ \A n \in 1..N : kahn_turns[n] = UNION {kahn_turn(acc) : acc \in kahn_turns[n - 1]}
<1> DEFINE A == SUBSET Accs
           turn(accs) == UNION {kahn_turn(acc) : acc \in accs}
           step == [n \in 1..N |-> [accs \in A |-> turn(accs)]]
           Turns(t) == t = [n \in 0..N |-> IF n = 0 THEN kahn_start ELSE turn(t[n - 1])]
<1>1. \A accs \in A : turn(accs) \in A
  BY KahnTurnTyped
<1>2. step \in [1..N -> [A -> A]]
  <2> HIDE DEF A, turn
  <2> QED
    BY <1>1
<1>3. kahn_start \in A
  BY KahnStarts DEF KahnInv
<1>4. PICK g : Iterates(g, A, kahn_start, N, step)
  <2> HIDE DEF A, step
  <2> QED
    BY <1>2, <1>3, Iteration
<1>5. ASSUME NEW n \in 1..N
      PROVE  g[n] = turn(g[n - 1])
  <2> HIDE DEF A, turn
  <2>1. n - 1 \in 0..N /\ g[n - 1] \in A
    BY <1>4 DEF Iterates
  <2>2. step[n][g[n - 1]] = turn(g[n - 1])
    BY <2>1
  <2> HIDE DEF step
  <2>3. QED
    BY <1>4, <2>2 DEF Iterates
<1>6. Turns(g)
  <2> HIDE DEF A, turn, step
  <2> QED
    BY <1>4, <1>5 DEF Iterates
<1>7. kahn_turns = CHOOSE t : Turns(t)
  BY DEF kahn_turns
<1>8. Turns(kahn_turns)
  <2> HIDE DEF Turns
  <2> QED
    BY <1>6, <1>7
<1>9. PICK t : t = kahn_turns
  OBVIOUS
<1>10. t = [n \in 0..N |-> IF n = 0 THEN kahn_start ELSE turn(t[n - 1])]
  BY <1>8, <1>9
<1> HIDE DEF turn
<1>11. t[0] = kahn_start /\ \A n \in 1..N : t[n] = turn(t[n - 1])
  BY <1>10
<1>12. QED
  BY <1>9, <1>11 DEF turn

\* After all turns every way the sort went is as far as it gets.
LEMMA KahnEnds ==
  ASSUME DepsTyped, AllThere, NEW N \in Nat, N = Cardinality(Registered)
  PROVE  kahn_turns[N] # {} /\ \A acc \in kahn_turns[N] : KahnInv(acc, N)
<1> DEFINE P == {n \in 0..N : kahn_turns[n] # {} /\ \A acc \in kahn_turns[n] : KahnInv(acc, n)}
<1>1. 0 \in P
  BY KahnStarts, KahnRepeats
<1>2. ASSUME NEW n \in 1..N, n - 1 \in P
      PROVE  n \in P
  <2>1. kahn_turns[n] = UNION {kahn_turn(acc) : acc \in kahn_turns[n - 1]}
    BY KahnRepeats
  <2>2. kahn_turns[n - 1] # {} /\ \A acc \in kahn_turns[n - 1] : KahnInv(acc, n - 1)
    BY <1>2
  <2>3. \A acc \in kahn_turns[n - 1] :
           kahn_turn(acc) # {} /\ \A next \in kahn_turn(acc) : KahnInv(next, n)
    BY <2>2, KahnTurnKeeps
  <2>4. kahn_turns[n] # {}
    <3>1. PICK acc \in kahn_turns[n - 1] : TRUE
      BY <2>2
    <3>2. PICK next \in kahn_turn(acc) : TRUE
      BY <2>3
    <3>3. next \in kahn_turns[n]
      BY <2>1
    <3>4. QED
      BY <3>3
  <2>5. ASSUME NEW next \in kahn_turns[n] PROVE KahnInv(next, n)
    <3>1. PICK acc \in kahn_turns[n - 1] : next \in kahn_turn(acc)
      BY <2>1
    <3>2. QED
      BY <2>3, <3>1
  <2>6. QED
    BY <2>4, <2>5
<1>3. 0..N \subseteq P
  <2> HIDE DEF P
  <2> QED
    BY <1>1, <1>2, SetInduction
<1>4. QED
  BY <1>3

\* Whatever order the sort takes, it is a load order, or some plugins wait for one another.
LEMMA OrderOrCircle ==
  ASSUME DepsTyped, AllThere, NEW N \in Nat, N = Cardinality(Registered),
         NEW acc, KahnInv(acc, N)
  PROVE  \/ Len(acc.result) = N /\ Range(acc.result) = Registered /\ AfterDeps(acc.result)
         \/ /\ Len(acc.result) # N
            /\ \/ \E n \in Registered : Cardinality(Range(Deps(n))) < Len(Deps(n))
               \/ \E S \in SUBSET Registered : Circle(S)
<1>1. /\ acc.result \in Seq(Registered) /\ IsInjective(acc.result) /\ AfterDeps(acc.result)
      /\ Len(acc.result) = N \/ acc.queue = <<>>
  BY DEF KahnInv, Accs
<1>2. PICK done \in SUBSET Registered : done = Range(acc.result)
  BY <1>1, RangeFacts
<1>3. Cardinality(done) = Len(acc.result) /\ IsFiniteSet(done)
  BY <1>1, <1>2, RangeCounted
<1>4. IsFiniteSet(Registered)
  BY PluginAssumption, FS_Subset DEF Registered
<1>5. CASE Len(acc.result) = N
  BY <1>1, <1>2, <1>3, <1>4, <1>5, FS_Subset
<1>6. CASE Len(acc.result) # N
  <2>1. SUFFICES ASSUME \A n \in Registered : ~(Cardinality(Range(Deps(n))) < Len(Deps(n)))
                 PROVE  Circle(Registered \ done)
    BY <1>6
  <2>2. Registered \ done # {}
    <3>1. SUFFICES ASSUME Registered \ done = {} PROVE FALSE
      OBVIOUS
    <3>2. Registered = done
      BY <1>2, <3>1
    <3>3. QED
      BY <1>3, <1>6, <3>2
  <2>3. ASSUME NEW x \in Registered \ done
        PROVE  Range(Deps(x)) \cap (Registered \ done) # {}
    <3>1. Range(acc.queue) = {}
      BY <1>1, <1>6 DEF Range
    <3>2. /\ acc.degree[x] \in Nat /\ acc.degree[x] # 0
          /\ acc.degree[x] + Cardinality(Range(Deps(x)) \cap done) = Len(Deps(x))
      BY <1>2, <3>1 DEF KahnInv
    <3>3. Deps(x) \in Seq(Plugins) /\ Range(Deps(x)) \subseteq Registered
      BY DEF DepsTyped, AllThere
    <3>4. Cardinality(Range(Deps(x))) = Len(Deps(x)) /\ Len(Deps(x)) \in Nat
      BY <2>1, <3>3, RangeCounted
    <3>5. Range(Deps(x)) \cap done # Range(Deps(x))
      <4>1. SUFFICES ASSUME Range(Deps(x)) \cap done = Range(Deps(x)) PROVE FALSE
        OBVIOUS
      <4>2. Cardinality(Range(Deps(x)) \cap done) = Len(Deps(x))
        BY <3>4, <4>1
      <4>3. acc.degree[x] = 0
        BY <3>2, <3>4, <4>2
      <4>4. QED
        BY <3>2, <4>3
    <3>6. QED
      BY <3>3, <3>5
  <2>4. QED
    BY <2>2, <2>3 DEF Circle
<1>7. QED
  BY <1>5, <1>6

\* What resolve_load_order returns, and when it fails.
OrdersRight ==
    IF resolve_load_order = {}
    THEN \/ \E n \in Registered : \/ ~(Range(Deps(n)) \subseteq Registered)
                                  \/ Cardinality(Range(Deps(n))) < Len(Deps(n))
         \/ \E S \in SUBSET Registered : Circle(S)
    ELSE \A order \in resolve_load_order : Range(order) = Registered /\ AfterDeps(order)

\* The orders are right for any entries that list plugins.
LEMMA OrdersSound ==
  ASSUME DepsTyped
  PROVE  OrdersRight
<1>1. CASE ~AllThere
  BY <1>1 DEF AllThere, resolve_load_order, OrdersRight
<1>2. CASE AllThere
  <2>1. IsFiniteSet(Registered)
    BY PluginAssumption, FS_Subset DEF Registered
  <2>2. PICK N \in Nat : N = Cardinality(Registered)
    BY <2>1, FS_CardinalityType
  <2>3. PICK ends : ends = kahn_turns[N]
    OBVIOUS
  <2>4. resolve_load_order = {order \in {acc.result : acc \in ends} : Len(order) = N}
    BY <1>2, <2>2, <2>3 DEF AllThere, resolve_load_order, kahn
  <2>5. ends # {} /\ \A acc \in ends : KahnInv(acc, N)
    BY <1>2, <2>2, <2>3, KahnEnds
  <2>6. \A acc \in ends :
         \/ Len(acc.result) = N /\ Range(acc.result) = Registered /\ AfterDeps(acc.result)
         \/ /\ Len(acc.result) # N
            /\ \/ \E n \in Registered : Cardinality(Range(Deps(n))) < Len(Deps(n))
               \/ \E S \in SUBSET Registered : Circle(S)
    BY <1>2, <2>2, <2>5, OrderOrCircle
  <2>7. CASE resolve_load_order = {}
    <3>1. PICK acc \in ends : Len(acc.result) # N
      BY <2>4, <2>5, <2>7
    <3>2. QED
      BY <2>6, <2>7, <3>1 DEF OrdersRight
  <2>8. CASE resolve_load_order # {}
    <3>1. \A order \in resolve_load_order : Range(order) = Registered /\ AfterDeps(order)
      BY <2>4, <2>6
    <3>2. QED
      BY <2>8, <3>1 DEF OrdersRight
  <2>9. QED
    BY <2>7, <2>8
<1>3. QED
  BY <1>1, <1>2

\* The entries of the registry list plugins.
LEMMA PluginInvTypesDeps == PluginInv => DepsTyped
<1> SUFFICES ASSUME PluginInv, NEW n \in Registered PROVE Deps(n) \in Seq(Plugins)
  BY DEF DepsTyped
<1>1. registry[n] \in Entries
  BY DEF PluginInv, RegistryInv
<1>2. QED
  BY <1>1 DEF Entries, Deps

\* Whatever was registered before, and in whatever order the maps are iterated, plugins are
\* loaded after those they depend on, and only what cannot be ordered is refused.
THEOREM LoadOrdersAreSound == PluginSpec => LoadOrderSound
<1>1. PluginInv => OrdersRight
  BY PluginInvTypesDeps, OrdersSound
<1>2. OrdersRight => [\A c \in Tasks :
          client[c].op = "resolve" /\ client'[c] # client[c] =>
             IF resolve_load_order = {}
             THEN \/ \E n \in Registered : \/ ~(Range(Deps(n)) \subseteq Registered)
                                           \/ Cardinality(Range(Deps(n))) < Len(Deps(n))
                  \/ \E S \in SUBSET Registered : Circle(S)
             ELSE \A order \in resolve_load_order :
                      /\ Range(order) = Registered
                      /\ \A i \in DOMAIN order :
                            Range(Deps(order[i]))
                                \subseteq {order[j] : j \in 1..(i - 1)}]_pluginVars
  BY DEF OrdersRight, AfterDeps
<1>3. QED
  BY <1>1, <1>2, PluginInvariant, PTL DEF LoadOrderSound
=============================================================================
