SPECIFICATION Spec
CONSTANTS
    Sizes = {"80x24", "80x25"}
    Window = "80x24"
    DefaultSize = "80x24"
    SHUTDOWN_NUM = 9
    CHANNEL = 1
    MAX_EVENTS = 2
    MAX_OUTPUT = 0
    MAX_IN_FLIGHT = 1
    MAX_UNACKED = 1
INVARIANTS AckedInputWritten
PROPERTIES EchoAckGrows
CHECK_DEADLOCK FALSE
