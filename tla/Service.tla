------------------------------ MODULE Service ------------------------------
(***************************************************************************)
(* The life of the process (main.ts, app.module.ts): it reads the          *)
(* configuration, creates its providers, configures the application and    *)
(* listens; it serves requests, and is shut down.                          *)
(*                                                                         *)
(* Three readers ask for the configuration, at three moments of the start, *)
(* while someone may edit the file; getRuntimeConfig keeps what it read    *)
(* first.  A request is one of the list, insert and status handlers: the   *)
(* arguments the configuration limits, the statements it awaits one after  *)
(* the other, and the status the exception filter gives to a failed one.   *)
(* What the statements do to the tables is in RowOperations, the pool they *)
(* run on in AdapterPool, the way to the handler in Access.                *)
(***************************************************************************)
EXTENDS RuntimeConfig

CONSTANTS
    Requests,
    Documents,      \* the documents the file may hold
    Edits,          \* those it may be changed to
    MaxEdits,       \* bound: how often it is changed
    Environment,    \* process.env: [variables -> texts or Undefined]
    PageArguments,  \* what may be given for pageIndex and pageSize
    DriverErrors,   \* [Adapters -> the errors of its driver, each with its cause]
    Messages        \* what their messages match, as sets of the filter's patterns

ASSUME ServiceAssumption ==
    /\ Edits \subseteq Documents
    /\ MaxEdits \in Nat
    /\ \A value \in PageArguments :
         \/ value \in { Missing, <<"text", "">> }
         \/ value[1] = "number" /\ value[2] \in Int

IsRoleText(text) == text \in RoleNames \cup {""}

\* Numbers are integers ("fraction" is a type of its own), and Roles has the
\* names that occur in the gates, or in the variables these are taken from.
ASSUME DocumentAssumption ==
    \A d \in Documents : \A p \in DOMAIN d :
        /\ d[p][1] = "number" => d[p][2] \in Int
        /\ p # <<>> /\ p[1] = "authentication" /\ d[p][1] = "array" =>
             \A i \in DOMAIN d[p][2] :
               LET element == d[p][2][i] IN
               /\ element[1] = "string" => IsRoleText(element[2].text)
               /\ element[1] = "placeholder" /\ Environment[element[2]] # Undefined
                    => IsRoleText(Environment[element[2]].text)

Filter == INSTANCE ExceptionFilter

VARIABLES
    file,       \* what is at FETCHLANE_CONFIG: the kind, and a document
    edits,      \* how often it was changed
    cached,     \* cachedRuntimeConfig, Undefined before it is read
    held,       \* [Readers -> the configuration each of them got]
    phase,      \* how far the process is
    adapter,    \* the adapter class chosen for the database URL
    released,   \* was adapter.release() called?
    work        \* [Requests -> the request each of them is]

vars == <<file, edits, cached, held, phase, adapter, released, work>>

Readers == {"bootstrap", "providers", "application"}

Phases == {"started", "read", "created", "configured", "listening", "closing",
           "drained", "stopped", "failed"}

\* FETCHLANE_CONFIG is not set, or names no file, or one that is not JSON, or a document.
Files == ({"unset", "absent", "garbage"} \X {<<>>}) \cup ({"document"} \X Documents)

Adapters == {"postgres", "mysql", "sqlserver"}

\* createDatabaseAdapterRegistry: the aliases of the adapter classes.
Registry ==
    [postgres |-> "postgres", postgresql |-> "postgres", mysql |-> "mysql",
     sqlserver |-> "sqlserver", mssql |-> "sqlserver"]

NoPage == [limit |-> 0, offset |-> 0]

NoFault == [cause |-> "none", exception |-> Filter!Failed(Undefined, Undefined, Undefined, {})]

(***************************************************************************)
(* A request: its arguments, the page they make, the statements it has yet *)
(* to run, the driver's error that ended it, and its response.             *)
(***************************************************************************)
Idle == [pc |-> "idle", kind |-> "", table |-> "", pageSize |-> Missing, page |-> NoPage,
         statements |-> <<>>, fault |-> NoFault, status |-> 0, connected |-> FALSE]

Init ==
    /\ file \in Files
    /\ edits = 0
    /\ cached = Undefined
    /\ held = [reader \in Readers |-> Undefined]
    /\ phase = "started"
    /\ adapter = Undefined
    /\ released = FALSE
    /\ work = [r \in Requests |-> Idle]

-----------------------------------------------------------------------------
(* The start *)

\* readConfigFile, parseJsonConfig and what follows: Undefined is an exception.
Load ==
    IF file[1] = "document" THEN ValidateRuntimeConfig(file[2], Environment)
    ELSE Undefined

\* Slip: every reader reads the file.
GetRuntimeConfigAgain == Load

GetRuntimeConfig == IF cached # Undefined THEN cached ELSE Load

\* A reader gets the configuration, or the start ends with an exception.
Read(reader, config, next) ==
    /\ cached' = config
    /\ held' = [held EXCEPT ![reader] = config]
    /\ phase' = IF config = Undefined THEN "failed" ELSE next

Bootstrap ==
    /\ phase = "started"
    /\ \E config \in {GetRuntimeConfig} : Read("bootstrap", config, "read")
    /\ UNCHANGED <<file, edits, adapter, released, work>>

\* The ACTIVE_DATABASE_ADAPTER provider: an alias nobody has is an exception.
ActiveDatabaseAdapter(config) ==
    IF config # Undefined /\ Urls[config.url].engine \in DOMAIN Registry
    THEN Registry[Urls[config.url].engine]
    ELSE Undefined

\* NestFactory.create: the module's providers are created.
Create ==
    /\ phase = "read"
    /\ \E config \in {GetRuntimeConfig} :
         /\ adapter' = ActiveDatabaseAdapter(config)
         /\ Read("providers", config, IF adapter' = Undefined THEN "failed" ELSE "created")
    /\ UNCHANGED <<file, edits, released, work>>

\* configureApplication: CORS, filter, body limit, middlewares and documentation.
ConfigureApplication ==
    /\ phase = "created"
    /\ \E config \in {GetRuntimeConfig} : Read("application", config, "configured")
    /\ UNCHANGED <<file, edits, adapter, released, work>>

\* The port may be taken; nobody catches the rejection.
Listen ==
    /\ phase = "configured"
    /\ phase' \in {"listening", "failed"}
    /\ UNCHANGED <<file, edits, cached, held, adapter, released, work>>

\* Someone changes, or removes, the file; when all have read it, to no effect.
EditFile ==
    /\ edits < MaxEdits
    /\ phase \in {"started", "read", "created"}
    /\ edits' = edits + 1
    /\ file' \in { <<"absent", <<>>>> } \cup ({"document"} \X Edits)
    /\ UNCHANGED <<cached, held, phase, adapter, released, work>>

-----------------------------------------------------------------------------
(* The list handler's arguments *)

Config == held["providers"]

DefaultQueryPageSize == 100

\* What Number() makes of the argument; "text" is anything but one integer.
IsIntegerQueryValue(value) == value[1] # "text"

QueryValue(value, default) == IF value = Missing THEN default ELSE value[2]

IsPageIndex(value) ==
    IsIntegerQueryValue(value) /\ QueryValue(value, 0) >= 0

\* Slip: a request without a page size is not compared with the limit.
IsPageSizeIfGiven(value) ==
    \/ value = Missing
    \/ /\ IsIntegerQueryValue(value)
       /\ value[2] > 0 /\ value[2] <= Config.limits["fetchMaxPageSize"]

IsPageSize(value) ==
    /\ IsIntegerQueryValue(value)
    /\ LET parsed == QueryValue(value, DefaultQueryPageSize)
       IN  parsed > 0 /\ parsed <= Config.limits["fetchMaxPageSize"]

Page(pageIndex, pageSize) ==
    LET limit == QueryValue(pageSize, DefaultQueryPageSize)
    IN  [limit |-> limit, offset |-> QueryValue(pageIndex, 0) * limit]

-----------------------------------------------------------------------------
(* Requests *)

\* Slip: the statements that were still to come stay with the request.
AnsweredEarly(request, status, fault) ==
    [request EXCEPT !.pc = "answered", !.status = status, !.fault = fault]

Answered(request, status, fault) ==
    [request EXCEPT !.pc = "answered", !.statements = <<>>, !.status = status,
                    !.fault = fault]

\* What keys the configuration gives to a table, if it does.
PrimaryKeyOverride(table) ==
    IF Config.primaryKeys # Undefined /\ table \in DOMAIN Config.primaryKeys
    THEN Config.primaryKeys[table]
    ELSE Undefined

HasGeneratedKey(keys) == \E i \in DOMAIN keys : keys[i].isGenerated

(***************************************************************************)
(* The statements an insert may run: that the table exists, its key        *)
(* columns unless the configuration has them, the INSERT; on MySQL also    *)
(* those that read the row back, as far as they find something.            *)
(***************************************************************************)
InsertStatements(table) ==
    LET keys == IF PrimaryKeyOverride(table) = Undefined THEN <<"keys">> ELSE <<>>
        readBack == IF adapter # "mysql" THEN { <<>> }
                    ELSE { <<"lastId">>, <<"lastId", "column">>,
                           <<"lastId", "column", "row">> }
    IN  { <<"exists">> \o keys \o <<"insert">> \o after : after \in readBack }

\* Slip: the server keeps accepting requests during the shutdown.
MayStillArrive(r) == phase \in {"listening", "closing"} /\ work[r].pc = "idle"

MayArrive(r) == phase = "listening" /\ work[r].pc = "idle"

Become(r, request) ==
    /\ work' = [work EXCEPT ![r] = request]
    /\ UNCHANGED <<file, edits, cached, held, phase, adapter, released>>

\* GET :table.
ListArrives(r) ==
    /\ MayArrive(r)
    /\ \E pageIndex, pageSize \in PageArguments :
         LET request == [Idle EXCEPT !.pc = "working", !.kind = "list",
                                     !.pageSize = pageSize]
         IN  Become(r,
               IF IsPageIndex(pageIndex) /\ IsPageSize(pageSize)
               THEN [request EXCEPT !.page = Page(pageIndex, pageSize),
                                    !.statements = <<"exists", "select">>]
               ELSE Answered(request, 400, NoFault))

\* POST :table.
InsertArrives(r) ==
    /\ MayArrive(r)
    /\ \E table \in Tables : \E statements \in InsertStatements(table) :
         Become(r, [Idle EXCEPT !.pc = "working", !.kind = "insert", !.table = table,
                                !.statements = statements])

\* GET /api/status.
StatusArrives(r) ==
    /\ MayArrive(r)
    /\ Become(r, [Idle EXCEPT !.pc = "working", !.kind = "status",
                              !.statements = <<"check">>])

(***************************************************************************)
(* A statement succeeds.  The ones before the last may make an end of the  *)
(* request: the table does not exist, or the record has a value for a      *)
(* generated key column, whether the catalogue or the configuration says   *)
(* that it is one.                                                         *)
(***************************************************************************)
AfterStatement(request) ==
    LET done == Head(request.statements)
        rest == Tail(request.statements)
        next == IF rest # <<>> THEN [request EXCEPT !.statements = rest]
                ELSE [Answered(request, IF request.kind = "insert" THEN 201 ELSE 200, NoFault)
                        EXCEPT !.connected = request.kind = "status"]
        keys == PrimaryKeyOverride(request.table)
        rejects == \/ done = "keys"
                   \/ /\ request.kind = "insert" /\ done = "exists"
                      /\ keys # Undefined /\ HasGeneratedKey(keys)
    IN  {next}
          \cup (IF done = "exists" THEN {Answered(request, 404, NoFault)} ELSE {})
          \cup (IF rejects THEN {Answered(request, 400, NoFault)} ELSE {})

StatementSucceeds(r) ==
    /\ work[r].pc = "working"
    /\ \E request \in AfterStatement(work[r]) : Become(r, request)

(***************************************************************************)
(* Why a statement fails: the database cannot be reached, or refuses the   *)
(* credentials; a unique or foreign key stands against the values, or      *)
(* another constraint; a name or the syntax is wrong; or anything else.    *)
(***************************************************************************)
Causes == {"connectivity", "credentials", "conflict", "constraint", "query", "other"}

\* PostgreSQL's codes of a unique or foreign key, and of a wrong name or syntax.
KeyViolations == {"23505", "23503"}
NameErrors    == {"42601", "42P01", "42703"}

\* The numbers of such errors on MySQL and on SQL Server.
ErrorNumbers == {"1062", "1451", "1452", "2627", "2601", "547",
                 "1064", "1146", "1054", "102", "207", "208"}

\* Codes of the system and of the drivers for a server that cannot be reached.
ReachCodes == {"ECONNREFUSED", "ENOTFOUND", "ETIMEDOUT", "ESOCKET", "ELOGIN"}

(***************************************************************************)
(* What the drivers' codes mean, however many errors a driver may throw.   *)
(* A code of pg is a SQLSTATE or a system error.  A code of mysql2 and of  *)
(* mssql is a name (ER_DUP_ENTRY, EREQUEST): the number goes in errno or   *)
(* number.  An error that the driver makes itself may have a message only. *)
(***************************************************************************)
ASSUME ErrorsAssumption ==
    /\ Undefined \notin KeyViolations \cup NameErrors \cup ErrorNumbers \cup ReachCodes
    /\ \A a \in Adapters : \A e \in DriverErrors[a] :
         /\ e.cause \in Causes
         /\ e.code \notin ErrorNumbers
         /\ e.code \in ReachCodes => e.cause \in {"connectivity", "credentials"}
         /\ e.code = Undefined => e.errno = Undefined /\ e.number = Undefined
         /\ a = "postgres" =>
              /\ e.code \in KeyViolations <=> e.cause = "conflict"
              /\ e.code \in NameErrors <=> e.cause = "query"
         /\ a # "postgres" => e.code \notin KeyViolations \cup NameErrors

Fault(cause, exception) == [cause |-> cause, exception |-> exception]

(***************************************************************************)
(* What the driver of an adapter throws.  The message is the server's, in  *)
(* its language, and mentions the names of the tables, columns and         *)
(* constraints it is about: it may match the filter's patterns or not,     *)
(* whatever the error is.                                                  *)
(***************************************************************************)
DriverFaults(a) ==
    { Fault(e.cause, Filter!Failed(e.code, e.errno, e.number, message)) :
        e \in DriverErrors[a], message \in Messages }

\* The adapter's own error, where the driver is not installed.
MissingDriver ==
    Fault("driver", Filter!Failed(Undefined, Undefined, Undefined, {"driver"}))

\* What a statement may do wrong by itself, over what happens to any statement.
OwnCauses(statement) ==
    IF statement = "insert" THEN {"conflict", "constraint", "query"}
    ELSE IF statement = "select" THEN {"query"}
    ELSE {}

FaultsOf(statement) ==
    {MissingDriver}
      \cup { f \in DriverFaults(adapter) :
               f.cause \in {"connectivity", "credentials", "other"} \cup OwnCauses(statement) }

\* StatusService.checkDatabase catches; everywhere else the filter does.
StatementFails(r) ==
    /\ work[r].pc = "working"
    /\ \E fault \in FaultsOf(Head(work[r].statements)) :
         Become(r, Answered(work[r],
                            IF work[r].kind = "status" THEN 200
                            ELSE Filter!NormalizeException(fault.exception),
                            fault))

\* The response is sent, and the connection has room for another request.
Respond(r) ==
    /\ work[r].pc = "answered"
    /\ Become(r, Idle)

-----------------------------------------------------------------------------
(* The shutdown hooks: Nest closes the server, waits until the requests    *)
(* have their responses, and then tells the providers.                     *)

Shutdown ==
    /\ phase = "listening"
    /\ phase' = "closing"
    /\ UNCHANGED <<file, edits, cached, held, adapter, released, work>>

Drained ==
    /\ phase = "closing"
    /\ \A r \in Requests : work[r].pc = "idle"
    /\ phase' = "drained"
    /\ UNCHANGED <<file, edits, cached, held, adapter, released, work>>

\* Slip: the adapter is released when the shutdown begins (onModuleDestroy).
OnModuleDestroy ==
    /\ phase = "closing"
    /\ phase' = "stopped"
    /\ released' = TRUE
    /\ UNCHANGED <<file, edits, cached, held, adapter, work>>

\* DatabaseLifecycleService.onApplicationShutdown.
OnApplicationShutdown ==
    /\ phase = "drained"
    /\ phase' = "stopped"
    /\ released' = TRUE
    /\ UNCHANGED <<file, edits, cached, held, adapter, work>>

\* The process has ended, by itself or with an exception.
Ended ==
    /\ phase \in {"stopped", "failed"}
    /\ UNCHANGED vars

Next ==
    \/ Bootstrap \/ Create \/ ConfigureApplication \/ Listen
    \/ EditFile
    \/ \E r \in Requests :
         \/ ListArrives(r) \/ InsertArrives(r) \/ StatusArrives(r)
         \/ StatementSucceeds(r) \/ StatementFails(r) \/ Respond(r)
    \/ Shutdown \/ Drained \/ OnApplicationShutdown
    \/ Ended

Spec == Init /\ [][Next]_vars

(***************************************************************************)
(* A statement settles (AdapterPool) and its response is sent, and Nest    *)
(* runs the hooks of a shutdown that has begun.                            *)
(***************************************************************************)
FairSpec ==
    /\ Spec
    /\ \A r \in Requests :
         WF_vars(StatementSucceeds(r) \/ StatementFails(r) \/ Respond(r))
    /\ WF_vars(Drained \/ OnApplicationShutdown)

-----------------------------------------------------------------------------
(* Properties *)

TypeOK ==
    /\ file \in Files
    /\ edits \in 0..MaxEdits
    /\ phase \in Phases
    /\ adapter \in Adapters \cup {Undefined}
    /\ released \in BOOLEAN
    /\ DOMAIN held = Readers
    /\ \A r \in Requests :
         /\ DOMAIN work[r] = DOMAIN Idle
         /\ work[r].pc \in {"idle", "working", "answered"}
         /\ (work[r].statements # <<>>) = (work[r].pc = "working")
         /\ work[r].status \in {0, 200, 201, 400, 404, 409, 500, 503}
         /\ (work[r].status # 0) = (work[r].pc = "answered")
         /\ work[r].pc # "idle" => phase \in {"listening", "closing"}

(***************************************************************************)
(* Whatever the file holds, a configuration that a reader got is one that  *)
(* the rest of the service can run on: the assumptions of the other        *)
(* modules hold of it.  Budgets, window and page limits are positive       *)
(* (RateLimiter, FetchRequest); with authentication there is a place to    *)
(* get keys from and a policy, of well-formed gates of real role names     *)
(* (Authorization); with CORS, origins; the database URL has all of its    *)
(* parts, and an adapter for its engine before anything is served.         *)
(* (runtime-config.ts:527-692, db.conf.ts:30-106, database.providers.ts)   *)
(***************************************************************************)
ServableConfig(config) ==
    /\ \A limit \in DOMAIN config.limits : config.limits[limit] > 0
    /\ config.cors.enabled => config.cors.origins # {} /\ "" \notin config.cors.origins
    /\ config.authentication.enabled =>
         /\ \E url \in {"issuerUrl", "jwksUrl"} : ~ Blank(config.authentication[url])
         /\ config.authentication.authorization # Undefined
    /\ config.authentication.authorization # Undefined =>
         IsPolicy(config.authentication.authorization)
    /\ \A part \in {"engine", "user", "password", "host", "database"} :
         Urls[config.url][part] # ""
    /\ config.primaryKeys # Undefined =>
         \A t \in DOMAIN config.primaryKeys :
            /\ config.primaryKeys[t] # <<>>
            /\ \A i \in DOMAIN config.primaryKeys[t] :
                 config.primaryKeys[t][i].column # ""

ServingConfigSound ==
    /\ \A reader \in Readers : held[reader] # Undefined => ServableConfig(held[reader])
    /\ phase \in {"listening", "closing", "drained"} =>
         /\ \A reader \in Readers : held[reader] # Undefined
         /\ adapter \in Adapters
         /\ Registry[Urls[Config.url].engine] = adapter

(***************************************************************************)
(* All parts of the process run on one and the same configuration, though  *)
(* they ask for it at different moments and the file may have been changed *)
(* or removed in between: the port it listens on belongs to the limits and *)
(* the policy it enforces, and no edit makes a later reader fail.          *)
(* (runtime-config.ts:294-315 and 421-427, main.ts:63 and 181)             *)
(***************************************************************************)
OneConfiguration ==
    /\ \A one, other \in Readers :
         held[one] # Undefined /\ held[other] # Undefined => held[one] = held[other]
    /\ phase = "failed" /\ held["bootstrap"] # Undefined =>
         held["providers"] = held["bootstrap"]

(***************************************************************************)
(* The status of a response does not blame the wrong one, whatever error   *)
(* the driver throws and whatever its message says.  A 4xx that came from  *)
(* the database is the fault of the request (409: its keys, 400: its       *)
(* names), never of the operator; a driver that is not there is a 503, and *)
(* a database that cannot be reached or refuses the credentials is a 503   *)
(* or a 500 (its error may have a code the filter does not know, and a     *)
(* message without the words it looks for).  A 503 about anything else is  *)
(* due to a message that reads like one: the filter looks at it before the *)
(* code.  On PostgreSQL, whose codes the filter sees, the keys and the     *)
(* names get just their status unless the message is in the way.  The      *)
(* status endpoint answers all the same, and says "connected" just when    *)
(* its statement went through.  (api-exception.filter.ts:59-254,           *)
(* status.service.ts:133-158)                                              *)
(***************************************************************************)
StatusMeansCause ==
    \A r \in { r \in Requests : work[r].pc = "answered" } :
        LET request == work[r]
            cause   == request.fault.cause
            reads   == request.fault.exception.message
        IN  IF request.kind = "status"
            THEN request.status = 200 /\ request.connected = (cause = "none")
            ELSE /\ request.status = 409 => cause = "conflict"
                 /\ request.status = 400 => cause \in {"query", "none"}
                 /\ request.status = 404 => cause = "none"
                 /\ cause = "driver" => request.status = 503
                 /\ cause \in {"connectivity", "credentials"} => request.status \in {500, 503}
                 /\ request.status = 503 =>
                      cause \in {"driver", "connectivity", "credentials"} \/ reads # {}
                 /\ adapter = "postgres" /\ reads = {} =>
                      /\ cause = "conflict" => request.status = 409
                      /\ cause = "query" => request.status = 400

(***************************************************************************)
(* No list request makes the database return more rows than the configured *)
(* maximum, or none, or starts anywhere but at a page, the default size    *)
(* for want of an argument included: where the maximum is below it, such a *)
(* request is refused.  (data-access.controller.ts:43-47, 244-257 and      *)
(* 573-621, data-access.service.ts:101-121)                                *)
(***************************************************************************)
PagesBounded ==
    \A r \in { r \in Requests : work[r].kind = "list" /\ work[r].page # NoPage } :
        LET page == work[r].page IN
        /\ page.limit \in 1..held["bootstrap"].limits["fetchMaxPageSize"]
        /\ page.offset >= 0 /\ page.offset % page.limit = 0
        /\ work[r].pageSize = Missing => page.limit = DefaultQueryPageSize

(***************************************************************************)
(* The adapter is released after the last response and no earlier: a       *)
(* statement that came after would open a new pool, which nobody ends.     *)
(* (database-lifecycle.service.ts:21-23, with AdapterPool's lazy getPool)  *)
(***************************************************************************)
ReleasedIdle ==
    released => \A r \in Requests : work[r].pc = "idle"

(***************************************************************************)
(* A shutdown that has begun ends in the adapter's release, whatever the   *)
(* requests that are under way still run into.                             *)
(* (main.ts:119, database-lifecycle.service.ts:21-23)                      *)
(***************************************************************************)
ShutdownReleases == phase = "closing" ~> released
=============================================================================
