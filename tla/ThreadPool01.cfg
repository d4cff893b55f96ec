SPECIFICATION FairSpec
CONSTANTS
    Workers = {w1, w2}
    Tasks = {t1, t2, t3}
    Main = main
    NULL = NULL
    CreateMayFail = TRUE
INVARIANTS TypeOK FreedOnlyWhenLeaving EnoughAwake WaiterCovered WaitReturnsIdle
PROPERTIES Implements TasksRun
