SPECIFICATION AppSpec
INVARIANTS
    ExitMeansDone
CHECK_DEADLOCK FALSE
