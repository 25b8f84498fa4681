SPECIFICATION Spec
CONSTANTS
    VALUE_BITS = 4
    FUEL = 20
    Sources <- MCSources
    Damage <- MCDamage
    Vars <- MCVars
    Garbage = {0, 3}
    NUM_VARS = 2
    MAX_STEPS = 400
    MAX_STEPS_DAMAGED = 60
CHECK_DEADLOCK FALSE
INVARIANTS ParsesRight PrintsRight CodeSound
PROPERTY EndsToo
