SPECIFICATION Spec
CONSTANTS
    Networks = {home, train}
    Ports = {p1, p2, p3}
    TS_MOD = 5
    CLOCK_SKEW = 3
    RTT_LIMIT = 3
    REPLY_LIMIT = 3
    PORT_HOP_INTERVAL = 1
    MAX_PORTS_OPEN = 2
    MAX_DELAY = 1
    MAX_SEQ = 2
    MAX_IN_FLIGHT = 2
SYMMETRY MCSymmetry
INVARIANTS TypeOK AttachedToNewest AnswerFindsSocket SampleTrue EstimateWithinSamples
