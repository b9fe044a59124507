CONSTANTS
    Requests = {r1}
    Roles = {"admin", "viewer"}
    Tables = {"film", "audit"}
    NoPrincipal = NoPrincipal
    Undefined = Undefined
    Urls <- MCUrls
    Documents <- MCDocuments
    Edits <- MCEdits
    MaxEdits = 1
    Environment <- MCEnvironment
    PageArguments <- MCPageArguments
    DriverErrors <- MCDriverErrors
    Messages <- MCMessages
SPECIFICATION FairSpec
INVARIANT TypeOK
INVARIANT ServingConfigSound
INVARIANT OneConfiguration
INVARIANT StatusMeansCause
INVARIANT PagesBounded
INVARIANT ReleasedIdle
PROPERTY ShutdownReleases
