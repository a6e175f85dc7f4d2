SPECIFICATION Spec
CONSTANTS
    Sizes = {"80x24", "80x25"}
    Window = "80x25"
    DefaultSize = "80x24"
    SHUTDOWN_NUM = 6
    CHANNEL = 1
    MAX_EVENTS = 0
    MAX_OUTPUT = 1
    MAX_IN_FLIGHT = 1
    MAX_UNACKED = 1
INVARIANT WindowTaken
CHECK_DEADLOCK FALSE
