SPECIFICATION Spec
CONSTANTS
    Chunks <- MCTyping
    Sizes <- MCTwoSizes
    Window <- MCOneRow
    PROMPTS = FALSE
    PASTE_THRESHOLD = 3
    MAX_INPUTS = 4
    MAX_EMPTY = 0
INVARIANT CursorOnScreen
CHECK_DEADLOCK FALSE
