SPECIFICATION Spec
CONSTANTS
    Instruction <- MCInstruction
    Payload <- MCPayload
    Count <- MCCount
    MAX_ID = 4
INVARIANTS Inv Genuine NeverSitsOnAll
