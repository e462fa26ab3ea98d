--------------------------- MODULE Configuration ---------------------------
(***************************************************************************)
(* ConfigurationManager of src/configuration.rs: loading, reloading and    *)
(* rolling back by its owner, and the task of enable_hot_reload beside it. *)
(*                                                                         *)
(* The owner needs &mut self, so it is inside one operation at a time; the *)
(* task shares the configuration and the history with it, each behind a    *)
(* lock that is held for one read or one write.  Both read the files one   *)
(* by one and await each, so a reload is many steps.                       *)
(*                                                                         *)
(* There are three settings: strategy stands for those that both merges    *)
(* take over; retry for the retry and rate limit sections, which only the  *)
(* owner's merge does; dir for the directories of plugins and reports,     *)
(* which only the owner's validation tries to create.  A file that cannot  *)
(* be read or parsed is broken.  Files are modified while the program      *)
(* runs, not created or removed: the task ignores other events.  The       *)
(* events for subscribers, which nothing in the program reads, and the     *)
(* time stamps of the files, which nothing compares, are left out.         *)
(***************************************************************************)
EXTENDS Naturals, SequencesExt

CONSTANTS Paths,        \* configuration files
          Contents,     \* what a file may hold
          Texts,        \* what a strategy or a directory may be called
          Given,        \* configurations a caller passes in
          Overrides,    \* what API_TEST_EXECUTION_STRATEGY and the like may be
          Precedences,  \* precedences a path is added with
          MaxBackups,   \* max_backups
          MaxSteps      \* bound on the modifications of files and the operations of the owner

Strategies == {"serial", "parallel", "distributed"}
Configs == [kind : {"config"}, strategy : Texts, retry : Nat, dir : Texts]
Absent == [kind |-> "absent"]
Broken == [kind |-> "broken"]

ASSUME ConfigAssumption ==
    /\ Contents \subseteq Configs \cup {Absent, Broken}
    /\ Given \subseteq Configs /\ Precedences \subseteq Nat
    /\ Strategies \cup {"", "reports", "unusable"} \cup Overrides \subseteq Texts
    /\ MaxBackups \in Nat \ {0} /\ MaxSteps \in Nat

VARIABLES files,     \* what each file holds
          paths,     \* config_paths, the last added first
          precedences, \* history: the precedence each path was added with
          config,    \* the configuration in force
          history,   \* config_history, the latest last
          owner,     \* the operation the owner is inside
          task,      \* the reload the hot reload task is inside
          watched,   \* the paths of the task; empty before enable_hot_reload
          modified,  \* number of file events that wait for the task
          override,  \* the environment variables
          reported,  \* history: the watcher has reported a modification
          raced,     \* history: an operation of the owner overlapped the task's last reload
          chosen,    \* history: what is in force comes from the owner, not from these files
          changes, ops

configVars == <<files, paths, precedences, config, history, owner, task, watched, modified, override,
                reported, raced, chosen, changes, ops>>

Resting == [op |-> "idle"]

-----------------------------------------------------------------------------
(***************************************************************************)
(* Merging and validating                                                  *)
(***************************************************************************)
default_configuration ==
    [kind |-> "config", strategy |-> "serial", retry |-> 3, dir |-> "reports"]

\* An empty text and a zero stand for "not set".
merge_configurations_static(base, over) ==
    [base EXCEPT !.strategy = IF over.strategy = "" THEN @ ELSE over.strategy,
                 !.dir = IF over.dir = "" THEN @ ELSE over.dir]

merge_configurations(base, over) ==
    [merge_configurations_static(base, over) EXCEPT
        !.retry = IF over.retry = 0 THEN @ ELSE over.retry]

\* "unset" is no override; "unparsable" a number that does not parse.
apply_environment_overrides(c) ==
    IF override = "unset" THEN c ELSE [c EXCEPT !.strategy = override]

\* Broken variant: any strategy is accepted.
validate_configuration_any(c) == c.retry > 0

validate_configuration_static(c) == c.strategy \in Strategies /\ c.retry > 0

\* The owner's validation also creates the directories, which may fail.
validate_configuration(c) == validate_configuration_static(c) /\ c.dir # "unusable"

\* Broken variant: the files are read from the first path to the last.
reading_order_forward(ps) == ps

\* The first path is read last, so that it wins.
reading_order(ps) == Reverse(ps)

\* Broken variant: one snapshot too many is kept.
Remember_one_more(c) ==
    LET longer == Append(history, c)
    IN  IF Len(longer) > MaxBackups + 1 THEN Tail(longer) ELSE longer

\* A snapshot joins the history, and the oldest leaves when there are too many.
Remember(c) ==
    LET longer == Append(history, c)
    IN  IF Len(longer) > MaxBackups THEN Tail(longer) ELSE longer

-----------------------------------------------------------------------------
(***************************************************************************)
(* The owner                                                               *)
(***************************************************************************)
ownerUnchanged == UNCHANGED <<files, task, watched, modified, override, reported, changes>>

\* An operation of the owner starts; it overlaps with a reload of the task.
Begin ==
    /\ owner = Resting
    /\ changes + ops < MaxSteps
    /\ ops' = ops + 1
    /\ raced' = (raced \/ task # Resting)

\* Whatever precedence is asked for, the path becomes the first; the argument is dropped.
add_config_path(p, precedence) ==
    /\ Begin
    /\ paths' = <<p>> \o paths
    /\ precedences' = <<precedence>> \o precedences
    /\ UNCHANGED <<config, history, owner, chosen>>
    /\ ownerUnchanged

\* An error of a load is returned; one of a reload puts the backup in force first.
Reading(op, backup) ==
    [op |-> op, rest |-> reading_order(paths), merged |-> default_configuration, backup |-> backup]

load_configuration ==
    /\ Begin
    /\ owner' = Reading("load", default_configuration)
    /\ UNCHANGED <<paths, precedences, config, history, chosen>>
    /\ ownerUnchanged

\* reload_configuration copies the configuration for the rollback, and create_snapshot
\* copies it again before it takes the lock of the history.
reload_configuration ==
    /\ Begin
    /\ owner' = [op |-> "snapshot", backup |-> config]
    /\ UNCHANGED <<paths, precedences, config, history, chosen>>
    /\ ownerUnchanged

create_snapshot ==
    /\ \/ /\ owner.op = "snapshot"
          /\ owner' = [op |-> "push", backup |-> owner.backup, taken |-> config]
          /\ UNCHANGED history
       \/ /\ owner.op = "push"
          /\ history' = Remember(owner.taken)
          /\ owner' = Reading("reload", owner.backup)
    /\ UNCHANGED <<paths, precedences, config, raced, chosen, ops>>
    /\ ownerUnchanged

\* The end of a load or reload with an error.
fail ==
    /\ owner' = Resting
    /\ config' = IF owner.op = "reload" THEN owner.backup ELSE config

load_config_file ==
    /\ owner.op \in {"load", "reload"}
    /\ owner.rest # <<>>
    /\ LET file == files[Head(owner.rest)]
       IN  IF file = Broken THEN fail
           ELSE /\ owner' = [owner EXCEPT !.rest = Tail(@),
                                !.merged = IF file = Absent THEN @
                                           ELSE merge_configurations(@, file)]
                /\ UNCHANGED config
    /\ UNCHANGED <<paths, precedences, history, raced, chosen, ops>>
    /\ ownerUnchanged

\* Overrides, validation and the write of the new configuration.
load_finish ==
    LET new == apply_environment_overrides(owner.merged)
    IN  /\ owner.op \in {"load", "reload"}
        /\ owner.rest = <<>>
        /\ IF override # "unparsable" /\ validate_configuration(new)
           THEN config' = new /\ owner' = Resting /\ chosen' = (paths # watched)
           ELSE fail /\ UNCHANGED chosen
        /\ UNCHANGED <<paths, precedences, history, raced, ops>>
        /\ ownerUnchanged

\* The read lock of the history is held throughout; the history stays as it is.
rollback_to_last_valid ==
    /\ Begin
    /\ history # <<>>
    /\ LET last == history[Len(history)]
       IN  validate_configuration(last) /\ config' = last
    /\ chosen' = TRUE
    /\ UNCHANGED <<paths, precedences, history, owner>>
    /\ ownerUnchanged

\* rollback_configuration, and load_secure_configuration with its resolved values.
put_in_force(c) ==
    /\ Begin
    /\ validate_configuration(c)
    /\ config' = c
    /\ chosen' = TRUE
    /\ UNCHANGED <<paths, precedences, history, owner>>
    /\ ownerUnchanged

enable_hot_reload ==
    /\ Begin
    /\ watched = <<>> /\ paths # <<>>
    /\ watched' = paths
    /\ UNCHANGED <<files, paths, precedences, config, history, owner, task, modified, override, reported,
                   chosen, changes>>

-----------------------------------------------------------------------------
(***************************************************************************)
(* The task of enable_hot_reload                                           *)
(***************************************************************************)
taskUnchanged == UNCHANGED <<files, paths, precedences, owner, watched, override, reported, changes, ops>>

hot_reload ==
    /\ task = Resting
    /\ modified > 0
    /\ modified' = modified - 1
    /\ task' = [op |-> "reload", rest |-> reading_order(watched),
                merged |-> default_configuration, backup |-> config]
    /\ raced' = (owner # Resting)
    /\ UNCHANGED <<config, history, chosen>>
    /\ taskUnchanged

hot_fail == task' = Resting /\ config' = task.backup /\ chosen' = chosen

load_config_file_static ==
    /\ task.op = "reload"
    /\ task.rest # <<>>
    /\ LET file == files[Head(task.rest)]
       IN  IF file = Broken THEN hot_fail
           ELSE /\ task' = [task EXCEPT !.rest = Tail(@),
                               !.merged = IF file = Absent THEN @
                                          ELSE merge_configurations_static(@, file)]
                /\ UNCHANGED <<config, chosen>>
    /\ UNCHANGED <<history, raced, modified>>
    /\ taskUnchanged

reload_configuration_internal ==
    LET new == apply_environment_overrides(task.merged)
    IN  /\ task.op = "reload"
        /\ task.rest = <<>>
        /\ IF override # "unparsable" /\ validate_configuration_static(new)
           THEN /\ config' = new /\ chosen' = FALSE
                /\ task' = [op |-> "push", backup |-> task.backup]
           ELSE hot_fail
        /\ UNCHANGED <<history, raced, modified>>
        /\ taskUnchanged

\* The snapshot follows the new configuration.
hot_snapshot ==
    /\ task.op = "push"
    /\ history' = Remember(task.backup)
    /\ task' = Resting
    /\ UNCHANGED <<config, raced, modified, chosen>>
    /\ taskUnchanged

\* Somebody writes a file; the watcher tells the task if it watches the file.
modify_file(p) ==
    /\ changes + ops < MaxSteps
    /\ files[p] # Absent
    /\ \E f \in Contents \ {Absent, files[p]} : files' = [files EXCEPT ![p] = f]
    /\ LET seen == Contains(watched, p)
       IN  /\ modified' = IF seen THEN modified + 1 ELSE modified
           /\ reported' = (reported \/ seen)
    /\ changes' = changes + 1
    /\ UNCHANGED <<paths, precedences, config, history, owner, task, watched, override, raced, chosen, ops>>

-----------------------------------------------------------------------------
ConfigInit ==
    /\ files \in [Paths -> Contents]
    /\ paths = <<>> /\ precedences = <<>>
    /\ config = default_configuration
    /\ history = <<>>
    /\ owner = Resting /\ task = Resting
    /\ watched = <<>> /\ modified = 0
    /\ override \in Overrides
    /\ reported = FALSE /\ raced = FALSE /\ chosen = FALSE
    /\ changes = 0 /\ ops = 0

OwnerStep == create_snapshot \/ load_config_file \/ load_finish

TaskStep ==
    \/ hot_reload \/ load_config_file_static \/ reload_configuration_internal \/ hot_snapshot

ConfigNext ==
    \/ \E p \in Paths :
          modify_file(p) \/ \E precedence \in Precedences : add_config_path(p, precedence)
    \/ load_configuration \/ reload_configuration \/ OwnerStep
    \/ rollback_to_last_valid
    \/ \E c \in Given : put_in_force(c)
    \/ enable_hot_reload
    \/ TaskStep

ConfigSpec == ConfigInit /\ [][ConfigNext]_configVars

\* Both tasks are polled as long as they are ready.
ConfigFairness == WF_configVars(OwnerStep) /\ WF_configVars(TaskStep)

-----------------------------------------------------------------------------
(***************************************************************************)
(* Properties                                                              *)
(***************************************************************************)
\* Type invariant; the snapshots are at most MaxBackups.
ConfigTypeOK ==
    /\ files \in [Paths -> Contents]
    /\ paths \in Seq(Paths) /\ watched \in Seq(Paths) /\ precedences \in Seq(Precedences)
    /\ config \in Configs
    /\ history \in Seq(Configs) /\ Len(history) <= MaxBackups
    /\ owner.op \in {"idle", "snapshot", "push", "load", "reload"}
    /\ task.op \in {"idle", "reload", "push"}
    /\ modified \in Nat
    /\ override \in Overrides
    /\ reported \in BOOLEAN /\ raced \in BOOLEAN /\ chosen \in BOOLEAN

\* What the rest of the program relies on: a strategy it has, and at least one attempt.
Usable(c) == c.strategy \in Strategies /\ c.retry > 0

\* Whatever the files hold, and however the owner's operations and the task's reloads
\* overlap, the configuration in force is usable, and so is every snapshot and every
\* backup that a failure will put in force.
AlwaysValid ==
    /\ Usable(config)
    /\ \A i \in DOMAIN history : Usable(history[i])
    /\ owner # Resting => Usable(owner.backup)
    /\ task # Resting => Usable(task.backup)

\* What rollback_to_last_valid goes back to, "the most recent valid configuration"
\* (src/configuration.rs:578), can be gone back to.
RollbackPossible == history # <<>> => validate_configuration(Last(history))

\* "Higher precedence files override lower precedence ones" (src/configuration.rs:1234):
\* of the files that set the strategy, one added with the highest precedence says what the
\* owner reads, unless a file was modified.
HigherPrecedenceOverrides ==
    LET setting == {i \in DOMAIN paths : files[paths[i]].kind = "config"
                                         /\ files[paths[i]].strategy # ""}
        highest == {i \in setting : \A j \in setting : precedences[j] <= precedences[i]}
    IN  owner.op \in {"load", "reload"} /\ owner.rest = <<>> /\ changes = 0 /\ setting # {} =>
            \E i \in highest : owner.merged.strategy = files[paths[i]].strategy

\* What the files amount to: the file that was added last is read last, and wins over those
\* before it, whatever their precedences.
MergedStrategy ==
    LET setting == SelectSeq(watched, LAMBDA p : files[p].kind = "config"
                                                 /\ files[p].strategy # "")
    IN  IF override # "unset" THEN override
        ELSE IF setting = <<>> THEN default_configuration.strategy
        ELSE files[setting[1]].strategy

\* The files can be read and make a valid configuration.
Sound ==
    /\ \A i \in DOMAIN watched : files[watched[i]] # Broken
    /\ MergedStrategy \in Strategies

\* Once the files settle and the watcher has reported a change of them, the strategy of the
\* file added last that sets one ends up in force, whatever they held in between and however many reloads
\* failed: unless the owner was inside an operation during the last reload, or has put
\* something else in force itself.
HotReloadConverges ==
    <>[](Sound /\ reported /\ ~raced /\ ~chosen => config.strategy = MergedStrategy)
=============================================================================
