SPECIFICATION FairSpec
CONSTANT MaxRestores <- MCMaxRestores
INVARIANTS
    TypeOK
    OneAtATime
PROPERTIES
    TerminalStatusStands
    RunsKeepTheContract
    StatusBecomesTerminal
    ScreenUnlocks
CHECK_DEADLOCK FALSE
