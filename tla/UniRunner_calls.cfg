SPECIFICATION LiveSpec
CONSTANTS
    Calls <- MCCalls
INVARIANTS ResultCorrect NoConflict
PROPERTIES CallsReturn
CHECK_DEADLOCK FALSE
