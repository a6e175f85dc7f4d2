SPECIFICATION FairSpec
CONSTANTS
    Sizes = {"80x24"}
    Window = "80x24"
    DefaultSize = "80x24"
    SHUTDOWN_NUM = 6
    CHANNEL = 1
    MAX_EVENTS = 0
    MAX_OUTPUT = 1
    MAX_IN_FLIGHT = 1
    MAX_UNACKED = 1
INVARIANTS TypeOK FinalFramePainted
PROPERTIES FinalStateFixed ClientLeaves ServerLeaves
CHECK_DEADLOCK FALSE
