CONSTANTS
    Requests = {r1, r2}
    Seed = seed
    NoRow = NoRow
    MaxKey = 2
    Dialect = "mysql"
    Asked <- PlainInserts
    Connections <- TwoConnections
    NoConnection = NoConnection
SPECIFICATION Spec
INVARIANT AnswerIsOwnRow
