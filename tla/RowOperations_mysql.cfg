CONSTANTS
    Requests = {r1, r2}
    Seed = seed
    NoRow = NoRow
    MaxKey = 2
    Dialect = "mysql"
    Asked <- OperationsOnOneKey
    Connections <- OneConnection
    NoConnection = NoConnection
SPECIFICATION FairSpec
INVARIANT AnswerObserved
INVARIANT InsertAnswerHonest
PROPERTY EveryRequestAnswered
