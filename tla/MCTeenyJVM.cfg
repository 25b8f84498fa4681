SPECIFICATION Spec
CONSTANTS
    CLASS_MAGIC = 51966
    INT_BITS = 16
    MAX_FRAMES = 3
    Methods <- MCMethods
    MethodRefs <- MCMethodRefs
    IntegerRefs <- MCIntegerRefs
    CODE_LENGTH = 12
    ClassFiles <- MCClassFiles
    Supported <- MCSupported
    MainMethod <- MCMainMethod
    Kits <- MCKits
CHECK_DEADLOCK FALSE
INVARIANTS Lockstep AssertsExactly
