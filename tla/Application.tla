---------------------------- MODULE Application ----------------------------
(***************************************************************************)
(* main of src/main.rs with Application and AppState of src/app.rs: start, *)
(* the command raced against a signal handler, shutdown and exit code.     *)
(*                                                                         *)
(* setup_signal_handling is an async function, and main does not await it: *)
(* its body runs when select! first polls it, and it returns the handle of *)
(* the task it spawned without waiting for that task.                      *)
(***************************************************************************)
VARIABLES phase,            \* where main stands
          is_initialized, shutdown_signal,
          command,          \* what became of handle_command
          listening,        \* the spawned task has installed its signal handlers
          signalled,        \* a termination signal has arrived
          exit              \* how the process ended

appVars == <<phase, is_initialized, shutdown_signal, command, listening, signalled, exit>>

\* Application::new fails or not (metrics registration).
new_application ==
    /\ phase = "new"
    /\ \/ phase' = "start" /\ UNCHANGED exit
       \/ phase' = "exited" /\ exit' = "failure"
    /\ UNCHANGED <<is_initialized, shutdown_signal, command, listening, signalled>>

\* Application::start initializes the application; nothing in it can fail.
start ==
    /\ phase = "start"
    /\ is_initialized' = TRUE
    /\ phase' = "cli"
    /\ UNCHANGED <<shutdown_signal, command, listening, signalled, exit>>

\* CliHandler::new: without it the application shuts down with code 1.
new_cli_handler ==
    /\ phase = "cli"
    /\ \/ phase' = "select" /\ UNCHANGED command
       \/ phase' = "shutdown" /\ command' = "error"
    /\ UNCHANGED <<is_initialized, shutdown_signal, listening, signalled, exit>>

\* select! polls its branches in either order.  handle_command ends without waiting
\* for anything, or is pending and the other branch is polled.
poll_command ==
    /\ phase = "select"
    /\ \/ command' \in {"ok", "error"} /\ phase' = "shutdown"
       \/ phase' = "pending" /\ UNCHANGED command
    /\ UNCHANGED <<is_initialized, shutdown_signal, listening, signalled, exit>>

\* setup_signal_handling spawns its task and is ready at once: the command is dropped
\* where it stands.
poll_shutdown_handler ==
    /\ phase \in {"select", "pending"}
    /\ command' = "dropped"
    /\ phase' = "shutdown"
    /\ UNCHANGED <<is_initialized, shutdown_signal, listening, signalled, exit>>

\* The spawned task runs for the first time.
install_handlers ==
    /\ command = "dropped" /\ ~listening /\ phase # "exited"
    /\ listening' = TRUE
    /\ UNCHANGED <<phase, is_initialized, shutdown_signal, command, signalled, exit>>

\* SIGINT or SIGTERM: AppState::shutdown where the handlers are installed, and the
\* default action of the system, which ends the process, where they are not.
signal ==
    /\ phase # "exited" /\ ~signalled
    /\ signalled' = TRUE
    /\ IF listening
       THEN shutdown_signal' = TRUE /\ UNCHANGED <<phase, exit>>
       ELSE /\ phase' = "exited" /\ exit' = "killed"
            /\ UNCHANGED shutdown_signal
    /\ UNCHANGED <<is_initialized, command, listening>>

\* Application::shutdown and process::exit with the result of the select.
shutdown ==
    /\ phase = "shutdown"
    /\ shutdown_signal' = TRUE
    /\ phase' = "exited"
    /\ exit' = IF command = "error" THEN "failure" ELSE "success"
    /\ UNCHANGED <<is_initialized, command, listening, signalled>>

-----------------------------------------------------------------------------
AppInit ==
    /\ phase = "new"
    /\ is_initialized = FALSE /\ shutdown_signal = FALSE
    /\ command = "none" /\ exit = "none"
    /\ listening = FALSE /\ signalled = FALSE

AppNext ==
    \/ new_application \/ start \/ new_cli_handler
    \/ poll_command \/ poll_shutdown_handler \/ install_handlers
    \/ signal \/ shutdown

AppSpec == AppInit /\ [][AppNext]_appVars

\* "Handle the command with graceful shutdown support": main reports success only if
\* the command succeeded, or was cut short by a termination signal.
ExitMeansDone ==
    exit = "success" => command = "ok" \/ (command = "dropped" /\ signalled)
=============================================================================
