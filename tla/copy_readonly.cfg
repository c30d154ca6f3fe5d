SPECIFICATION Spec
CONSTANTS
    Superuser = FALSE
    Base = "a"
    Sources <- MCSources
    Dests <- MCDests
INVARIANTS
    FailureLeavesNothing
