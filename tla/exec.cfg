SPECIFICATION FairSpec
CONSTANTS
    Calls = {c1}
    Kinds = {"exec", "mux", "interactive", "tty", "detached"}
    MaxFrames = 2
    ExitCodes = {0, 1}
    Faults = {"request", "torn", "early", "outside", "writer"}
INVARIANTS
    TypeOK
    RetrySafe
    ExecCompleted
    OutputInOrder
    ReaderComplete
    WaitCompleted
    ExecLeavesNothing
PROPERTIES
    CallsReturn
    CloseFreesWait
