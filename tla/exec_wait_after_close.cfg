SPECIFICATION Spec
CONSTANTS
    Calls = {c1}
    Kinds = {"interactive"}
    MaxFrames = 1
    ExitCodes = {0, 1}
    Faults = {}
INVARIANT
    WaitReturnsExitCode
