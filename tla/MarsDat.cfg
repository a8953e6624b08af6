SPECIFICATION Spec
CONSTANTS
    CoreSize = 10
    Word = 16
    NProc = 3
    NTurn = 14
    Warriors <- MCWarriors
    Bases = {0, 5}
PROPERTIES
    DatKillsProcess
CHECK_DEADLOCK FALSE
