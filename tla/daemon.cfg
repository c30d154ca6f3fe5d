SPECIFICATION FairSpec
CONSTANTS
    Callers = {c1}
    Ops = {"New", "NewStrict", "EnsureRunning", "StartDaemon", "RestartDaemon", "DaemonStatus", "StopDaemon"}
INVARIANTS
    TypeOK
    NilMeansHealthy
    AtMostOneLateProbe
PROPERTY
    CallEnds
