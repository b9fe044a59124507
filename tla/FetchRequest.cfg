CONSTANTS
    Names = {"a", "b"}
    Values = {"v", "w"}
    Undefined = "undefined"
    Requests <- AllRequests
    MaxPredicates = 3
    MaxSortFields = 1
    MaxPageSize = 3
    MaxRows = 7
SPECIFICATION Spec
INVARIANT TypeOK
INVARIANT StatementMeansRequest
INVARIANT ArgumentsMeetParameters
INVARIANT ExecutedIffValid
INVARIANT LimitByCount
INVARIANT PagesPartition
