SPECIFICATION Spec
CONSTANTS
    a = a
    b = b
    c = c
    Tasks <- TheTasks
    Boot = Boot
    Idle = Idle
    Reaper = Reaper
    NULL = NULL
INVARIANTS TypeOK EveryTaskPlaced DeadNeverRuns TimerStaysAlive CrashOnlyInInit
PROPERTIES IdleIsForever RunsEventually
CHECK_DEADLOCK FALSE
