SPECIFICATION Spec
CONSTANTS
    Users = {u1, u2}
    MaxNames = 3
    MaxBoxes = 2
    Jobs <- MCJobs
    Faults = {"request", "partial", "outside"}
INVARIANTS
    TypeOK
    CreatedIsOwn
    TakenOnlyIfRaced
PROPERTIES
    NotFoundMeansGone
    ImplementsRegistry
