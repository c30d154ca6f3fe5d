SPECIFICATION FairSpec
CONSTANTS
    Callers = {c1}
    Ops = {"EnsureRunning"}
PROPERTY
    WaitIsBounded
