---------------------------- MODULE PluginReload ----------------------------
(***************************************************************************)
(* The hot reload of src/plugin_manager.rs: a watcher of the plugin files  *)
(* sends an event for each change through an unbounded channel to a task,  *)
(* which keeps the last event of each plugin until no other came for a     *)
(* while.  A second start replaces the watcher; the first channel closes   *)
(* and its task ends.                                                      *)
(***************************************************************************)
EXTENDS Naturals, SequencesExt

CONSTANTS Notifications,   \* sequences of changed files: [plugin, library]
          NoName,          \* the plugin of a file whose stem is no text
          Debounce,        \* reload_debounce_ms, in steps of the clock
          MaxStarts, MaxChanges, MaxClock   \* bounds

VARIABLES watcher, sender,   \* the channels that file_watcher and reload_sender send to, or 0
          channel,           \* the events in each channel
          pending,           \* what each task holds back
          ended,             \* channels whose task ended
          clock,             \* SystemTime::now()
          starts, changes,
          announced,         \* history: the channel of every event, in the order announced
          processed,         \* history: the events that were processed
          excused            \* history: how many were announced when the clock was last set back

reloadVars == <<watcher, sender, channel, pending, ended, clock, starts, changes,
                announced, processed, excused>>

Channels == 1..MaxStarts
Plugins == {f.plugin : f \in UNION {ToSet(paths) : paths \in Notifications}} \ {NoName}
Running(c) == c \in 1..starts /\ c \notin ended

-----------------------------------------------------------------------------
is_plugin_file(file) == file.library

\* One file without a name ends the handling of the whole notification.
Told(paths) ==
    LET libraries == SelectSeq(paths, is_plugin_file)
        bad == SelectInSeq(libraries, LAMBDA f : f.plugin = NoName)
    IN  IF bad = 0 THEN libraries ELSE SubSeq(libraries, 1, bad - 1)

\* A change, a creation and a removal are told alike, apart from the type of the event, which
\* nothing looks at.
handle_file_event(paths) ==
    /\ watcher # 0 /\ changes < MaxChanges /\ clock + Debounce <= MaxClock
    /\ LET told == Told(paths)
           event(i) == [plugin |-> told[i].plugin, at |-> clock,
                        nr |-> Len(announced) + i]
       IN  /\ channel' = [channel EXCEPT ![watcher] = @ \o [i \in DOMAIN told |-> event(i)]]
           /\ announced' = announced \o [i \in DOMAIN told |->
                                  [channel |-> watcher, plugin |-> told[i].plugin]]
    /\ changes' = changes + 1
    /\ UNCHANGED <<watcher, sender, pending, ended, clock, starts, processed, excused>>

\* create_hot_reload_processor: start_hot_reload and a new task.
start_hot_reload ==
    /\ starts < MaxStarts
    /\ starts' = starts + 1 /\ watcher' = starts + 1 /\ sender' = starts + 1
    /\ UNCHANGED <<channel, pending, ended, clock, changes, announced, processed, excused>>

\* A directory cannot be watched: the sender is new already, the watcher is the old one.
start_hot_reload_fails ==
    /\ starts < MaxStarts
    /\ starts' = starts + 1 /\ sender' = starts + 1 /\ ended' = ended \cup {starts + 1}
    /\ UNCHANGED <<watcher, channel, pending, clock, changes, announced, processed, excused>>

stop_hot_reload ==
    /\ watcher' = 0 /\ sender' = 0
    /\ UNCHANGED <<channel, pending, ended, clock, starts, changes, announced, processed, excused>>

-----------------------------------------------------------------------------
(***************************************************************************)
(* The task of a channel; its select! picks any branch that is ready.      *)
(***************************************************************************)
\* Broken variant: the first event of a burst stays.
recv_first(c) ==
    /\ Running(c) /\ channel[c] # <<>>
    /\ LET e == Head(channel[c])
       IN  pending' = IF \E p \in pending[c] : p.plugin = e.plugin THEN pending
                      ELSE [pending EXCEPT ![c] = @ \cup {e}]
    /\ channel' = [channel EXCEPT ![c] = Tail(@)]
    /\ UNCHANGED <<watcher, sender, ended, clock, starts, changes, announced, processed, excused>>

receive(c) ==
    /\ Running(c) /\ channel[c] # <<>>
    /\ LET e == Head(channel[c])
       IN  pending' = [pending EXCEPT ![c] = {p \in @ : p.plugin # e.plugin} \cup {e}]
    /\ channel' = [channel EXCEPT ![c] = Tail(@)]
    /\ UNCHANGED <<watcher, sender, ended, clock, starts, changes, announced, processed, excused>>

\* What is held back goes with the task.
channel_closed(c) ==
    /\ Running(c) /\ channel[c] = <<>> /\ c \notin {watcher, sender}
    /\ ended' = ended \cup {c} /\ pending' = [pending EXCEPT ![c] = {}]
    /\ UNCHANGED <<watcher, sender, channel, clock, starts, changes, announced, processed, excused>>

\* The timer ticks far more often than the debounce lasts.  An event from the future is
\* dropped.
debounce_tick(c) ==
    /\ Running(c)
    /\ LET due == {p \in pending[c] : p.at + Debounce <= clock}
       IN  /\ processed' = processed \cup due
           /\ pending' = [pending EXCEPT ![c] = {p \in @ \ due : p.at <= clock}]
    /\ UNCHANGED <<watcher, sender, channel, ended, clock, starts, changes, announced, excused>>

-----------------------------------------------------------------------------
advance ==
    /\ clock < MaxClock /\ clock' = clock + 1
    /\ UNCHANGED <<watcher, sender, channel, pending, ended, starts, changes, announced, processed,
                   excused>>

\* The wall clock is set back, once, while events are about.
set_back ==
    /\ clock > 0 /\ excused = 0 /\ announced # <<>>
    /\ clock' = clock - 1 /\ excused' = Len(announced)
    /\ UNCHANGED <<watcher, sender, channel, pending, ended, starts, changes, announced, processed>>

ReloadInit ==
    /\ watcher = 0 /\ sender = 0
    /\ channel = [c \in Channels |-> <<>>] /\ pending = [c \in Channels |-> {}] /\ ended = {}
    /\ clock = 0 /\ starts = 0 /\ changes = 0
    /\ announced = <<>> /\ processed = {} /\ excused = 0

TaskStep(c) == receive(c) \/ channel_closed(c)

ReloadNext ==
    \/ \E paths \in Notifications : handle_file_event(paths)
    \/ start_hot_reload \/ start_hot_reload_fails \/ stop_hot_reload
    \/ \E c \in Channels : receive(c) \/ channel_closed(c) \/ debounce_tick(c)
    \/ advance \/ set_back

ReloadFairness ==
    /\ \A c \in Channels : WF_reloadVars(TaskStep(c)) /\ WF_reloadVars(debounce_tick(c))
    /\ WF_reloadVars(advance)
ReloadSpec == ReloadInit /\ [][ReloadNext]_reloadVars /\ ReloadFairness

-----------------------------------------------------------------------------
(***************************************************************************)
(* Properties                                                              *)
(***************************************************************************)
ReloadEvents == [plugin : Plugins, at : 0..MaxClock, nr : 1..(2 * MaxChanges)]

\* The state of the hot reload is well typed, and a task holds back one event of a plugin.
ReloadTypeOK ==
    /\ watcher \in 0..MaxStarts /\ sender \in 0..MaxStarts /\ ended \subseteq Channels
    /\ clock \in 0..MaxClock /\ excused \in 0..(2 * MaxChanges)
    /\ \A c \in Channels :
          /\ ToSet(channel[c]) \subseteq ReloadEvents /\ pending[c] \subseteq ReloadEvents
          /\ \A p, q \in pending[c] : p.plugin = q.plugin => p = q

\* The last change of a plugin is processed, or a later one of it is, however they come and
\* are held back: only the end of the channel or a clock set back may take it away.
ReloadsTold ==
    \A n \in 1..(2 * MaxChanges) :
        n <= Len(announced) ~>
            \/ n <= excused
            \/ /\ n <= Len(announced)
               /\ \/ \E e \in processed : e.plugin = announced[n].plugin /\ e.nr >= n
                  \/ announced[n].channel \notin {watcher, sender}
=============================================================================
