SPECIFICATION Spec
CONSTANTS
    Writers = {w1, w2}
    Jobs <- MCJobs
    Nothing = Nothing
INVARIANTS
    TypeOK
    RefusedWithoutEffect
    NilStoredUnlessRaced
PROPERTIES
    RefusedForCause
