SPECIFICATION TestSpec
CONSTANTS
    Workers = {w1, w2}
    Tasks = {t1, t2}
    Main = main
    NULL = NULL
    CreateMayFail = FALSE
PROPERTY TestEnds
