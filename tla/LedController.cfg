CONSTANTS
    Alphabet = {"0", "1", "5", "M", "newline", "other"}
    MaxInput = 8
SPECIFICATION Spec
INVARIANTS
    LedsShowTheLastCommand
    RepeatedPatternIsShown
CHECK_DEADLOCK FALSE
