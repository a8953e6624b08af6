SPECIFICATION LibSpec
CONSTANTS
    t1 = t1
    t2 = t2
    t3 = t3
    t4 = t4
    Words <- MCWords
    Bitsets <- MCBitsets
    Width = 5
    GridW = 4
    GridH = 3
    Fills <- MCFills
    NIter = 1
    MinSize = 2
    MaxSize = 6
    CellTabInit = 2
    CaveTabInit = 2
    MinLen = 1
    MaxLen = 2
    MaxTurn = 3
    Spacing = 1
    MemSize = 66
    Long = 2
    Places <- MCPlaces
    Lengths <- MCLengths
    TextLen = 3
    Texts <- MCTexts
    Inputs <- MCInputs
    Sizes = {1, 4}
    Tasks = {t1, t2, t3, t4}
    Class <- MCClass
    Cores = {0, 1}
    SCHEDNQUEUE = 3
    SCHEDNIDLE = 2
    LongBits = 2
    Keys = {0, 1}
    NoTask = None
    CWCORESIZE = 7
    Half = 16
    Sources <- MCSources
    Origins <- MCOrigins
    Remains <- MCRemains
    DivThreads = {t1, t2}
    Bits = 4
    Requests <- MCRequests
    LevelSizes <- MCLevels
    RoomDraws <- MCRoomDraws
    LineDraws <- MCLineDraws
    Junk = {0, 79, 80}
    ByteBits = 2
    Garbage <- MCGarbage
    Ops <- MCOps
    Mems <- MCMems
    Args <- MCArgs
    HashBits = 12
    KeyLengths <- MCKeys
    Primes = {2, 3, 5}
    SimCells = 4
    SimCols = 2
    SimRows = 2
    DbCols = 1
    ButtonW = 7
    ButtonH = 2
    FontW = 2
    FontH = 3
    Second = {2}
    Rows = 2
    SimTurns = 2
    DrawEvery = 2
    MaxEvents = 3
    MaxDebt = 1
    CLSIZE = 8
    PAGESIZE = 32
    MEM_BUF_MAP_BITS = 4
    Requests0 <- MCBlocks
    QBufs = {1, 2, 3}
    HalfPairs <- MCHalfPairs
    Counts = {0, 1, 7, 31}
    MaxGets = 4
    MaxQueued = 5
    PixelBits = 3
    Colours <- MCColours
    Shapes <- MCShapes
    Pictures <- MCPictures
    FilmFrame <- FrameShown
    LastFrame <- LastShown
    FullAlpha = 7
    Shades = 4
    Limits = {0, 1, 7}
    MaxTime = 8
    Alphas = {0, 3, 7}
    MtBits = 5
    MtN = 5
    MtM = 3
    MtSeeds = {0, 1, 9, 31}
    MtKeys <- MCKeys1
    KSeeds = {0, 7, 2000000000}
    LagN = 8
    LagFills <- MCLagFills
    Lags <- MCLags
    Lags2 <- MCLags2
    LcgBits = 5
    DiceCounts = {0, 1, 2}
    DiceRands = {3, 19}
    SeedAfter = {0, 7}
    MaxDraws <- MCDraws
    ChkBits = 2
    Packets <- MCPackets
    NETIP4PKTSIZE = 18
INVARIANTS
    DisplaySound
    BlocksApart
    PicturesTrue
    FramesInOrder
    QuotientsExact
    WordsExact
    StringsHold
    DungeonSound
    SortHolds
    LevelSound
    TasksKept
    RedcodeHolds
PROPERTIES
    BestFirst
\* The parts stop with their result.
CHECK_DEADLOCK FALSE
