SPECIFICATION FairSpec
CONSTANTS
    CoreSize = 10
    Word = 16
    NProc = 3
    NTurn = 14
    Warriors <- MCWarriors
    Bases = {0, 5, 8}
INVARIANTS
    EvenTurns
PROPERTIES
    OnlyLastDragged
    GameEnds
CHECK_DEADLOCK FALSE
