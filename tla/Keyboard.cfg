SPECIFICATION FairSpec
CONSTANTS
    Platforms = {"unix", "windows"}
    Settings <- MCSettings
    Texts <- MCTexts
    Windows = {"small", "large"}
    FirstWindow = "small"
    CHANNEL = 1
    BUFFER = 3
    MAX_RESIZES = 2
    MAX_ERRORS = 1
INVARIANTS TypeOK KeysTrue HelpMatches WindowKnown
PROPERTY AllTaken
CHECK_DEADLOCK FALSE
