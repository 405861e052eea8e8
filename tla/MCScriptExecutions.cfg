SPECIFICATION MCSpec
CONSTANTS
    Errors = {OK, EVAL_FALSE, BAD_OPCODE}
    OK = OK
    MaxFrames = 5
INVARIANTS
    TypeOK
    LoopMakesExecutions
    GroupsAreExecutions
    ErrorIsTheFirst
CHECK_DEADLOCK FALSE
