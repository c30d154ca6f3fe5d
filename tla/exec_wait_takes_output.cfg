SPECIFICATION Spec
CONSTANTS
    Calls = {c1}
    Kinds = {"tty"}
    MaxFrames = 1
    ExitCodes = {0, 1}
    Faults = {}
INVARIANT
    ReaderSeesEverything
