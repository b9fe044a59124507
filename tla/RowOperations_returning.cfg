CONSTANTS
    Requests = {r1, r2}
    Seed = seed
    NoRow = NoRow
    MaxKey = 2
    Dialect = "returning"
    Asked <- AllOperations
    Connections <- OneConnection
    NoConnection = NoConnection
SYMMETRY Symmetry
SPECIFICATION Spec
INVARIANT TypeOK
INVARIANT AnswerIsOwnRow
PROPERTY AtomicStore
