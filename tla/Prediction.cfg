SPECIFICATION Spec
CONSTANTS
    Chunks <- MCKeys
    Sizes <- MCTwoRowsOrNarrow
    Window <- MCTwoRows
    PROMPTS = TRUE
    PASTE_THRESHOLD = 3
    MAX_INPUTS = 3
    MAX_EMPTY = 1
INVARIANTS TypeOK ComesTrue PromptHidden OnlyUnanswered
CHECK_DEADLOCK FALSE
