SPECIFICATION Spec
CONSTANTS
    VALUE_BITS = 5
    FUEL = 1
    Sources <- MCPartlyConstant
    Damage <- MCIntact
    Vars <- MCVars
    Garbage = {0, 3}
    NUM_VARS = 2
    MAX_STEPS = 40
    MAX_STEPS_DAMAGED = 40
CHECK_DEADLOCK FALSE
INVARIANT PrintsRight
