# Verification of fetchlane

fetchlane is a NestJS service that exposes the tables of a PostgreSQL, MySQL or
SQL Server database over HTTP. This directory holds TLA+ modules translated from
its source (`src/...` paths below are relative to the repository), TLC
configurations that check them on small instances, and proofs that TLAPS checks
for every instance.

    tlc  -config RateLimiter.cfg MCRateLimiter.tla     # one run
    tlapm RateLimiterProofs.tla                        # one proof module

`PROJECT.json` lists the runs, the source lines each definition stands for, the
mutants that show each property can fail, the hazards and the theorems.

## 1. Inventory

fetchlane is one Node process. Nothing runs in parallel, but every `await` is a
point where other requests, timers and callbacks run. A request passes, in this
order (`main.ts:configureApplication`): body parser, AuthenticationMiddleware,
RateLimitMiddleware, a DataAccessController handler (identifier check, role
gate, argument checks), DataAccessService, and an adapter that runs SQL through
a connection pool. Errors end in ApiExceptionFilter.

| Component | State it keeps | Operations | What is hard |
|---|---|---|---|
| Row endpoints (`controllers/data-access.controller.ts`, `service/data-access.service.ts`, adapters' `insert`/`update`/`delete`) | none of its own; the table; per connection `LAST_INSERT_ID()` | get, get column, create, update, update column, delete | each request is 2 to 6 statements, no transaction, on whatever connection the pool hands out; tables dropped meanwhile; lost connections |
| Adapter pool (`getPool`, `createPool`, `execute`, `release`) | `poolPromise`, the pool's connections | one per method | a shared promise, late failures, release during creation, leaks |
| Rate limiting (`limits/rate-limit.middleware.ts`) | `buckets`, the interval timer | `use`, `pruneExpiredBuckets`, `onModuleDestroy` | window boundaries, stale buckets, a late sweep |
| Authentication (`authentication/*`) | `jwksResolverPromise`, the request context | `use`, `getJwksResolver`, discovery, `jwtVerify` | a promise shared by concurrent requests, a provider that is out |
| Authorization (`authentication/authorization.service.ts`) | the configured policy (frozen) | `authorizeSchemaAccess`, `authorizeCrud`, `evaluateGate` | the order of the early returns |
| FetchRequest writer (`data/fetch-request.ts`, `service/fetch-request-handler.service.ts`) | none | `handleRequest`, `write` | placeholder numbering and precedence in nested clauses; limits on the whole tree; three dialects |
| Exception filter (`filters/api-exception.filter.ts`) | none | `catch` | first match wins among rules over codes and messages of three drivers |
| Runtime configuration (`config/runtime-config.ts`, `db.conf.ts`) | `cachedRuntimeConfig`, frozen | load, interpolate, validate | placeholders before validation, blanks, defaults, fields that depend on each other; three readers of a file that may change |
| Schema description (`controllers/data-access.controller.ts`, adapters' `getTableNames`, `getTableInfo`, `describeTable`, `getPrimaryKeyColumns`) | none | four requests | up to five catalogue queries, which DDL can tear; joins of catalogue views |
| Lifecycle and adapter selection (`main.ts`, `data/database.providers.ts`, `data/database-lifecycle.service.ts`) | how far the start is, the adapter | bootstrap, shutdown hooks | a start that fails half-way, a shutdown while statements run |
| Status (`status/status.service.ts`) | none | one statement | answers although the database is gone |
| FetchRequest builder, logging, API docs | none of interest | | |

What makes each correct: a row request takes effect at one instant and answers
what that instant did; a connection is never lost and a pool never orphaned; a
caller is admitted as often as its budget says and no more; a request is served
only when its token and its role gate allow it, and is counted in its own
sender's budget; every request is answered; all parts run on one configuration
that meets what each of them assumes; an error's status tells who has to act; a
description says what was declared; a shutdown ends the pool, once nobody uses
it.

## 2. Plan

Done, in this order, the most important behaviour first: `RecordStore` and
`RowOperations`; `FixedWindow`, `RateLimiter` and its proofs; `AdapterPool` and
its proofs; `Authorization` and its proofs; `Access`, which composes
`Authorization` and `RateLimiter` with authentication; `FetchRequest`;
`ExceptionFilter` and `RuntimeConfig`, operators without a state, and `Service`,
the life of the process, which composes them, with its proofs; `SchemaDescription`.

Then the theorems, in the order of what they say most about: the row operations
and their refinement of `RecordStore`; what was left of the rate limiter and the
pool; `Access`; what `Service` runs on and answers; the writer of `FetchRequest`;
`SchemaDescription`.

Last the two that rest on recursive data: what a statement of the `FetchRequest`
writer means, for every tree, and what an adapter's joins make of any catalogue.
Every safety property and action property of a passing run now has a theorem.

Left: `primaryKeys` overrides in the row operations on one row.

## 3. Modules

### RecordStore, RowOperations, MCRowOperations, RowOperationsProofs

`RecordStore` is the abstract specification: a table, requests that arrive,
take effect at one instant (`Perform`, or `Refuse` when nothing is done) and are
answered. Its `FindRow` .. `DeleteRow` say what one SQL statement does; they
stand for the database engine. A row is its key and the request that last wrote
its other columns: two rows are equal exactly when the same request stored the
same content under the same key, which is all the properties look at.

`RowOperations` is the code: `Submit` is the controller's entry,
`ResolvePrimaryKey`, `EnsureTableExists` and `GeneratedColumns` are the awaited
checks, `SelectRow` and `WriteReturning` the single statements of the PostgreSQL
and SQL Server adapters, `MySql...` the several statements of the MySQL adapter.
`pc[r]` is the await a handler is at, `held[r]` what it has in its locals. A
statement needs a connection (`Acquire`); the step that runs it gives the
connection back, as `execute` does in its `finally`. `LoseConnection` is a
connection error before the statement took effect; the write actions also let
the answer be lost after it did. `lastId` is per connection, as in MySQL, and
zero on a connection the pool had to replace. Another client may drop the table.
`own` and `during` are history variables for the properties.

Abstracted: values other than the key, key coercion and composite keys (a key
is one value), the wording of errors (all client errors are `refused`). Left
out: `fetch` (one read statement), a column that does not exist, and
`primaryKeys` overrides, which skip the catalogue query; the list endpoint and
the overrides of an insert are in `Service`.

| Run | Instance | Shows |
|---|---|---|
| `rows_returning` | 2 requests, every operation, 2 keys, 1 connection | `AtomicStore`: the handlers refine `RecordStore`; `AnswerIsOwnRow` |
| `rows_mysql` | 2 requests, the operations that meet on key 1 | `AnswerObserved`, `InsertAnswerHonest`; every request is answered |
| `mysql_insert` (violated) | 2 inserts, 2 connections | the answer is another request's row |

Two requests are enough for any pair to interleave at every await, two keys for
a row a row to be moved onto another; one connection makes the pool the bottleneck.
MySQL's `LAST_INSERT_ID()` is that of the connection it happens to run on: with two
connections it may be another request's, and even with one it is an older key when
the insert generates none (which is why `AnswerObserved` and `InsertAnswerHonest`
are about the rest).

MySQL does not refine `RecordStore` and no run says so: its update and delete
take two statements, so a delete may answer with a row another request changed
in between. What does hold is `AnswerObserved`: every answer was true at some
instant of the request.

Fairness (`FairSpec`): weak fairness on every step of a started handler. The
event loop runs a callback that is ready and the database answers a statement or
fails it; clients, lost connections and dropped tables are never forced.

### FixedWindow, RateLimiter, MCRateLimiter, RateLimiterProofs

The middleware's methods are synchronous, so each is one action. `Use` is `use`
with key, bucket, headers and verdict; `PruneExpiredBuckets` is the interval
timer, which runs up to `MaxLate` after it is due because the event loop may be
busy; `Tick` is the clock. `FixedWindow` is the promise: windows that close by
themselves. `verdict` is the last response; `recent` is the history of
admissions of the last window length.

Abstracted: milliseconds are ticks; a caller is a subject or an address (a
subject is never blank, `readStringClaim`). `MaxTime` stops the clock (hence no
deadlock check) and `MaxCount` the counters.

`limiter`: windows of 2 ticks, 5 ticks, limits 2 and 1, a subject seen from two
addresses and an anonymous client on both kinds of endpoint: long enough for two
neighbouring windows and two sweeps, one of them late. It shows that no window
length sees more than `2 * limit - 1` admissions (`SlidingBound`: a fixed-window
limiter does admit nearly twice the limit at a boundary), that a 429 is earned
(`RefusedOnlyWhenSpent`), that the headers hold (`HeadersKeepTheirWord`), that
the map stays small (`StaleBound`), and the refinement (`AsFixedWindow`).

### AdapterPool, AdapterPoolProofs

`poolPromise` holds the number of the cached pool; `state[p]` is what became of
its promise. `Execute` calls `getPool` (cached or created, synchronously),
`PoolAwaited` resumes on the settled promise, `Connect` takes a connection,
`QueryEnds` is the `finally`. `CreationFails` is the catch of `getPool`, which
clears the cache whatever it holds. `Release` clears it too and hangs the end of
the pool on its promise (`EndBegins`, `PoolEnds`).

`pool`: 2 statements, 3 pools of one connection. Three pools are needed for the
late failure: one given up while pending, one live, one after it. `MaxPools`
stops the run, hence no deadlock check.

Fairness (`FairSpec`): promises settle, their callbacks run, queries end, and
`Connect` is strongly fair because the drivers' pools queue their waiters in
order. Nothing forces `release()` or a client.

### Authorization, AuthorizationProofs

`EvaluateGate` is `evaluateGate` with its early returns in order; `CrudGate` is
the choice of a gate; `Admits` is what the service's comment says a gate means,
written without looking at the code's order. Roles are names other than `*` and
`anonymous`.

### Access, MCAccess, AccessProofs

The way of a request: `Enter` (body parser and authentication up to its first
await), `JwksAwaited`, `VerifyToken` (which calls the rate limiter), `Handle`
(the checks before the first call of the service) and `Serve`. The limiter is an
INSTANCE of `RateLimiter`, the gates are `Authorization`'s. `resolver` is
`jwksResolverPromise`, `DiscoveryEnds` the end of the one discovery request,
`ProviderChanges` the identity provider going out and coming back. A token is a
subject, roles, and whether it verifies; signatures and claims are not modelled,
nor is a provider whose discovery document is no JSON (a 500).

`access`: 2 requests out of 13 (every kind of channel, token and fault) under 6
configurations, a budget of one data request per window. Two requests suffice
for one to act during each await of the other. The clock is bounded, hence no
deadlock check. Fairness (`FairSpec`): discovery settles and a resumed handler
runs. It shows that each answer has its reason (`AccessDecided`): nobody is served
with a header that was not accepted, past a gate or a switched-off feature, and a
401, 403 or 404 comes from just these or, for 401, from an outage of the provider.
A request without a header goes on as an anonymous one, whatever it asks for:
`TokenRequired` says otherwise, as the documentation does, and is violated
(`access_token`, for `/api/docs` as well, which has no gate). It also shows that each
is counted in its own budget once authenticated (`ChargedToSender`), one discovery,
and that all are answered.

### FetchRequest, MCFetchRequest, FetchRequestProofs

`ValidateLimits` is the handler's check, `StartWriting` the shape and the sort,
then one action per clause (`ExpandSimplePredicateClause`,
`ExpandCompoundPredicateClause`), with the recursion's stack in `todo`;
`ExpandPagination` ends in the adapter's `paginateQuery`. `args`, `index` and
`mode` are `PlaceholderState`. The tree is a function from paths to clauses. Nothing
checks a body against the declared types, so a clause may have any of the fields.
The two walks tell a compound apart by different ones: `CountPredicates` by
`predicates` (`HasPredicates`), the writer by `type` (`IsCompound`). `Body` is what
the counter walks, `Tree` the part of it that the writer reaches, `Mixed` the clauses
which have predicates but no type. A type other than AND and OR is not refused but put
between the predicates as it is (`"other"`); a clause without a text is a TypeError
(500). A predicate's text is a sequence of words, of which `?` and the names are
placeholders, `x` a comparison without one, and `AND` and `OR` what they are in
SQL. An absent field of an argument object is `Undefined`.

The reference is `Meaning`: the truth of the tree itself, by recursion on paths,
with a predicate's own `AND` binding more tightly than its `OR`. `StatementTruth`
reads the statement's WHERE clause from left to right with a level for each open
parenthesis (`Truth`), and binds its
parameters as each engine does: by order (MySQL's `?`) or by number (`$n`, `@pn`).
A predicate's text has no parentheses of its own: it is read in a pair that the
writer puts around it, so nested ones would be levels inside of that.
A row is the set of the values that it matches.

`fetch`: every tree of up to two predicates out of 13 texts with arguments (both
styles, mixed ones, arguments missing or too many), three predicates with a compound
clause before or inside another, four for a limit of three, empty compounds; clauses
of undeclared shapes beside and below others; every page, sort and shape with the
empty tree; three dialects. Two values tell any two arguments apart, a page of up to 3
of 7 rows has a full page, a part of one and an empty one. Deadlock is checked: the
response is the only end (`Done`). `LimitByCount` is what the counter does guarantee:
the limit, and one more for each clause of `Mixed`. The run has up to four predicates
with an empty list under a limit of three, which is one of the divergences in section
4. `StatementMeansRequest` is about trees whose compounds are of type AND or OR:
another type has no meaning to compare with.

Abstracted: a predicates value that is no list of objects, wherever it is, is one of
the shapes; arguments that are a number or `true` count as an object without fields,
other scalars as null; placeholder characters inside string literals; and quoting. The
rows' order is taken to be the same for each page, which an SQL engine promises only
with a sort that is total.

### ExceptionFilter, RuntimeConfig, Service, MCService, ServiceProofs

`ExceptionFilter` is the classification in the order of its rules. A code is
text, because it is compared as text; a message is the set of the filter's two
patterns that it matches.

`RuntimeConfig` is what `getRuntimeConfig` makes of a file. A document is a
function from paths to typed values, so that a missing field is a path outside
its domain. A text is plain or padded with blanks, or a placeholder for a
variable of the environment, which is put in before validation. `FieldsSound`
has what each field must be, `CrossChecks` what they must be to each other,
`ReadConfig` the result with its defaults and trimmed texts; `Urls` is what
`parseDatabaseUrl` finds in a URL.

`Service` is the process. `Bootstrap`, `Create` and `ConfigureApplication` are the
three readers of the configuration (`held` is what each got, `cached` the memo),
`Listen` may fail, `EditFile` is someone at the file. A request is a list, an insert
or a status request: the arguments which the configuration limits, then its statements
one by one, each of which may fail as any of the active driver's errors
(`DriverFaults`), then its response. The errors are a constant, `DriverErrors`: what
the drivers throw is theirs, and no list of it would be complete. `ErrorsAssumption`
says what is relied on, which is what the codes mean: that the codes the filter looks
for have the causes it takes them for (on PostgreSQL, where they are SQLSTATEs, just
these), that a code of mysql2 and mssql is a name and never one of the numbers, and
that an error with a number has a code. There may be any other codes, and each error
occurs with every message: a message is the server's, in its language and with the
names of tables and columns in it, so that it may match the filter's words or not.
`Shutdown`, `Drained` and `OnApplicationShutdown` are Nest's order: no more requests,
the responses, the provider's hook. The update, delete and fetch requests are not
repeated here: they fail the same way.

`service`: one request (requests share nothing here; those that meet are in
`RowOperations` and `AdapterPool`), all documents that differ from a sound one in
one value (23 values at each path of one with authentication, at the
authentication paths of one without), those that differ in a URL or in values
that depend on each other, and every way to have no document: 1,400 in all. One
edit at any moment of the start suffices for a reader to see another file than
the one before. Page arguments are on both sides of each limit. It shows
`ServingConfigSound` (the assumptions of the other modules hold of whatever
the service runs on), `OneConfiguration`, `StatusMeansCause`, `PagesBounded`,
`ReleasedIdle` and `ShutdownReleases`. Deadlock is checked: `Ended` is the only
end.

The drivers' errors of the run have every cause on each engine, those of the connection
with codes that the filter knows and that it does not, each error with a message that
matches its words and one that does not. `StatusMeansCause` says what can be relied
on: a 409 is about keys, a 400 about names, an unreachable database is a 503 or a 500,
and a 503 about anything else is due to its message (section 4).

Fairness (`FairSpec`): a statement settles (the promise of `AdapterPool`) and
its response is sent, and Nest runs the hooks of a shutdown once the requests are
answered. The start, clients and the signal to shut down are never forced.

### SchemaDescription, MCSchemaDescription, SchemaDescriptionProofs

`window` holds the catalogues from the arrival of the request to now;
`StatementSucceeds` runs one query on the last of them, `ChangeTables` adds one.
`ConstraintRows` are the rows of the description's join, with the columns that
each dialect joins on; `Groups` and `Aggregate` make a constraint of them.
A name is the sequence of its parts between commas, because two of the
dialects aggregate names to a list, split it at commas, trim the parts and drop the
empty ones (`Part`, `Entries`; `Trim` says what is left of a text without the blanks
around it). SQL Server takes a foreign key's rules from `sys.foreign_keys`, which it
joins by name alone, over all schemas: `elsewhere` has the foreign keys that other
schemas declare under a constraint's name, and `References` joins them with it, so that
they repeat its rows and may be where its rules come from (`RuleOf` takes the last, as
MAX does). Its indexes are joined with their key columns, so that one without any is not
listed (`IsListed`). The order that an
engine gives to rows of one position is not defined; the model takes one.
`IsCatalogue` says what the schema of the connection can hold: a table has one primary
key at most and no two constraints or indexes of one name, a foreign key refers to as
many columns as it has, a schema of SQL Server has no two constraints of one name and a
MySQL schema no two foreign keys. MySQL would also allow a foreign key and a
unique key of one name in a table, which is left out.

`schema`: six catalogues in each dialect (no table, one, one that refers to the
other with expressions and predicates in indexes, composite keys, names that have
a comma, names with blanks) and a seventh on two: on PostgreSQL foreign keys of one
name, on SQL Server constraints with namesakes in other schemas; at most two
changes during a request, which is enough for a table to go and to come back
between two of the five queries. `DescriptionObserved` says
that each section was declared at some instant of the request, the instants in
the order of the sections; for constraints it has the
precondition `JoinsOnce`, without which it fails: a composite key in PostgreSQL
(or foreign key in SQL Server) is repeated, which is `schema_constraints`; on
PostgreSQL a name that several tables use leads to all of them; on SQL Server a
namesake in another schema repeats the columns; a name with a comma or blanks
is changed by the other two; and SQL Server's views leave out a referenced key that is
only a unique index. `ConstraintsOwn` and `EmptyOnlyWhenDropped` have no
precondition. Of the key columns `DescriptionObserved` compares the names and their
order, not `isGenerated`.

`ConstraintColumnUsage` is a set, so identical rows of that view are one, and it does
not have the rows of PostgreSQL's CHECK constraints; the properties compare columns as
sets there, or where the joins are one to one.

Abstracted: types, lengths, nullability, check expressions, and the truncation
of MySQL's `GROUP_CONCAT`.

## 4. What the code does otherwise than it says

Each of these has a run whose counterexample TLC prints.

- `mysql_insert`: `insert` reads `LAST_INSERT_ID()` in a statement of its own,
  on another pooled connection (`mysql-database.ts:90`).
- `access_jwks`: a failed discovery is remembered for ever
  (`oidc-authentication.service.ts:115`).
- `access_token`: without a token a request is answered by its gate with 403, where
  `README.md:95-97` says 401, and `/api/docs`, which has no gate, is served, where
  `README.md:214` and `test/authentication.e2e-spec.ts:245-257` ask for a token.
- `schema_constraints`: the description's joins go by a constraint's name only,
  so that a composite key's columns are listed several times
  (`postgres-database.ts:435`, and `sqlserver-database.ts:446` for foreign keys); SQL
  Server's rules are joined by name over all schemas (`sqlserver-database.ts:449`).

Seen while reading, without a run:

- A late failure to create a pool clears a newer promise
  (`mysql-database.ts:612` and the same lines of the other adapters; modelled in
  `CreationFails`). The application releases once, at shutdown, so this needs a
  caller that releases and goes on.
- `readErrorCode` takes `code` first, which mysql2 and mssql set to a name, so
  that the numbers of both engines are never seen and a duplicate key is a 500
  (`api-exception.filter.ts:201`); hence the last part of `StatusMeansCause` is about
  PostgreSQL only.
- A predicate with an empty list of predicates is counted as nothing and written
  (`fetch-request-handler.service.ts:75`, `fetch-request.ts:99`), where
  `docs/fetchrequest-examples.md:49` says that all are capped; hence `Mixed` in
  `LimitByCount` and `ExecutedIffValid`.
- A message with "connect" or "timeout" in it, be it in the name of a table, is a 503
  whatever its code says (`api-exception.filter.ts:222`), whose text is that the
  service could not connect (`:150`); hence `reads` in `StatusMeansCause`.
- A reset connection (`ECONNRESET`), a PostgreSQL server that is starting (57P03) or
  full (53300) and rejected credentials are a 500: neither the codes nor the words of
  `isConnectivityError` have them (`api-exception.filter.ts:220-222`).
- The type of a compound clause is not checked (`fetch-request.ts:192`), and a clause
  without a text is a 500.
- `config/config.local.example.json` does not start: the fields of
  authentication are required although it is disabled (`runtime-config.ts:541`).
- A missing `enableSchemaFeatures` is false and not invalid
  (`runtime-config.ts:654`, `README.md:152`).
- A blank `jwksUrl` beside an `issuerUrl` starts, and is what keys are then fetched
  from (`runtime-config.ts:672`).
- A qualified name such as "public.member" is a 404
  (`postgres-database.ts:246`, `data-access.controller.ts:629`).
- SQL Server indexes without key columns (columnstore) are not described
  (`sqlserver-database.ts:494-507`), and splitCsv changes names that have commas or
  blanks (`mysql-database.ts:632`).
- Predicates of SQL Server's filtered indexes and MySQL's expression indexes are
  not described (`database-metadata.ts:110`).
- `FetchRequestBuilder.where(text)` spreads the text into characters
  (`fetch-request-builder.ts:62`).
- Authorization is enforced although authentication is disabled
  (`README.md:91`), 401 and 413 responses have no rate limit headers
  (`README.md:357`), a fetch request without predicates or sort is a 500 because
  the limits are read before the shape is checked
  (`fetch-request-handler.service.ts:49`, modelled in `LimitError`), a missing
  table is 503 and not 404 on the routes by key, a provider outage during
  verification is 401 and not 503.

## 5. Proofs

TLAPS checks these for every value of the constants that satisfies the named
assumptions. The assumptions are what the code, its types or the libraries
guarantee:

| Assumption | Module | Says |
|---|---|---|
| `LimitsAssumption` | `RateLimiter`, `Access` | limits and window are positive (`readPositiveInteger`) |
| `PoolAssumption` | `AdapterPool` | finitely many statements at once, pools of one connection at least |
| `RowAssumption` | `RowOperations` | the initial author and the marks for "none" are none of the others; there is a connection |
| `AccessAssumption` | `Access` | configurations of the declared type; no caller, role set or budget is the mark for "no principal" |
| `FetchAssumption` | `FetchRequest` | bodies are finite trees of clauses with any of the fields, in which each step of a path is one of the parent's predicates (`IsPath`); the name of an argument is no word of SQL |
| `ServiceAssumption`, `DocumentAssumption` | `Service` | query arguments are blank or numbers; `number` values are integers (fractions are a kind of their own), and gates name roles of `RoleNames` |
| `ErrorsAssumption` | `Service` | what the drivers' codes mean, as far as the filter knows them, whatever errors they throw: see `Service` above |
| `SchemaAssumption` | `SchemaDescription` | catalogues that the schema of a connection can hold in the dialect (`IsCatalogue`, above), with columns of the declared type; an empty default is read on MySQL only, the others quote it |

**RowOperationsProofs.** `TypeCorrect` by `TypeInv`: `TypeOK` and that a handler
past its entry has an operation that was asked for. `OwnRowAnswered`,
`AnswersObserved` and `InsertsHonest` by `AnswerInv`: none of the three is
inductive, since each is about finished requests. `Control` says what a handler
holds at each of its awaits, `Honest` at which of them an insert has stored its
row, `Observed` that what a handler holds was seen while it ran (a MySQL delete
from the moment it read the row), `OwnRow` that a returning write holds what it
stored. A step of one request changes the row another one is at, hence
`Watched`: every value of a row that is there while a request runs is in
its `during`. `ImplementsStore`: a request's outcome in the store is none until
it is `Performed` and what it holds from then on, so that statements that fail or
only look map to stutters, those that take effect to `Perform`, and refusals to
`Refuse`. `OwnRowAnswered` and `ImplementsStore` are about
`Dialect = "returning"`, the other three about every dialect.

**RateLimiterProofs.** `StaleBucketsGo`, by `TimerInv`: `StaleBound` does not
say when the timer runs next; with "a bucket still there expires after the
timer's last run" it is inductive. `BucketsAreWindows`: `RateLimiter` implements
`FixedWindow` under the mapping that shows a bucket only while its window is open
(`Use` maps to `Arrive`, `PruneExpiredBuckets` to a stutter because it removes
only what the mapping hides, `Tick` to `Tick`). `HeadersHonest`, by `HeadersInv`:
while the last response's window is open, its bucket is still the one that was
counted. `SlidingWindowBounded` and `RefusalsMeanSpent`, by `HistoryInv`: the
recent admissions are numbered within their windows, each number once, windows of
a key do not overlap, and those of the open window are numbered up to its count
without a gap. So at most two windows meet in a stretch of one length, and
of the earlier one not its first admission, which opened it: `2 * limit - 1`, by
an injection of admissions into their numbers.

**AdapterPoolProofs.** `TypeCorrect` and `ConnectionsComeBack`, by
`ConnectionInv`: that giving a connection back keeps `lent[p]` from falling below
zero needs that it is the number of users of p, and that users hold pools that
exist. `CacheIsSound` and `PoolsAreShared`, by `CacheInv`: the cache holds the
newest pool or none, release asks just those it drops to end, and a pool out of
the cache is settled as failed, asked to end, or was lost after a dropped pool
of a smaller number failed.

**AuthorizationProofs.** `GateAsDocumented`: the code's decision is `Admits`, for
every gate and caller; `DenyOverridesAllow`.

**AccessProofs.** `TypeCorrect` takes the limiter's steps from `RateLimiter!TypeOK`.
`DiscoveryOnce`, by `DiscoveryInv`: while the resolver is null, discovery was not
started. `AccessIsDecided` and `ChargesSender`, by `StageInv`: `Stage` says of each
await what has been decided and charged before it, that the context's principal is the
request's own sender; `Answered` what each status says of the request. Every action is
shown to leave the other requests alone (`OthersStay`). The gates enter through what
`Authorization` says of them.

**FetchRequestProofs.** `ArgumentsMatch`, by `ArgInv`: that parameters are
increasing and within range does not say which they are; that they are exactly 1
to `Len(args)` in this order does, with lemmas about the rank of a placeholder
in its text and about texts numbered one after the other. `LimitHolds` and
`ExecutedWhenValid`, by `WalkInv`: the predicates written are those that are not
below a clause which still waits (`Walk`), no clause waits twice or below
another (`Disjoint`), the counter is the number of those written, and they obey
the rules in the style of the request so far. When nothing waits, that is
`Valid`; when the walk stops, the clause at hand breaks a rule. The counter's walk is
of `Body` and the writer's of `Tree`: a predicate that is written is counted unless it
has predicates of its own, and then it is in `Mixed`, which gives `LimitByCount` and
the two halves of `ExecutedIffValid`. Instead of an
induction over the tree, a step replaces a waiting clause by its
children and the set of written predicates stays or grows by one.
`PagesPartitionRows` is arithmetic on the two ways to number rows.

`StatementTrue` is the theorem about the whole writer. Its invariant, `MeaningInv`,
is about the line: the text written so far followed by what waits, in which a waiting
clause counts as its own judgement. The line always means what the request means, in
every row; when nothing waits it is the statement. A simple clause is replaced by
its text in parentheses, a compound one by its children and joins in parentheses,
and `LineBracketed` says that an item of a line can be replaced by any line in
parentheses that has its truth, wherever it stands: this is what the parentheses
are for. It rests on `Bracketed`, that a text in parentheses leaves the
levels around it alone. Arguments that are collected later do not change what is
written (`WrittenKept`), renumbering keeps each comparison with its value
(`RenderedMeans`), and MySQL's binding by order gives each `?` the argument that its
number would have (`BoundByOrder`).

The recursions, of `Truth` over words and of `Meanings` over paths, are recursive
functions, and the induction theorems of the library cannot be used for them
(they take an operator). Instead the proofs take the smallest number at which a
statement fails: `SmallestNumber` is the well-foundedness of `<` in a form about
sets, `CountingUp` is induction over a set of numbers. With these it is shown that
a function with the recursion's equations exists (`ReadingExists`, `MeaningsExist`),
so that the equations can be used (`TruthRead`, `MeaningsRead`).

**ServiceProofs.** `ConfigurationIsOne`, by `ConfigInv`: what any reader got is what
the memo holds (so the next reader gets it too), and past the providers two readers
have it. `ReleaseComesLast`, by `ShutdownInv`: no request is under way from `Drained`
on, and none arrives. `ConfigurationServes`, by `StartInv`: everything in the memo or
in a reader's hands was accepted from a document; that an accepted configuration is
one to run on (`AcceptedServable`) is shown field by field from `FieldsSound` and
`CrossChecks`, over any document and environment. `StatusTellsCause` and
`PagesWithinLimit`, by `WorkInv`, which says of a request at work that it has
statements to run and that its page was accepted; the filter's verdict is shown from
`ErrorsAssumption` for any error of each driver, with any message (see the lemmas
before `StatusTellsCause`). All hold for any number of requests, of which the run has
one.

**SchemaDescriptionProofs.** `TypeCorrect`, by `DescInv`: the statements to come are
those after the ones that were read. `EmptyWhenDropped`, by `MissInv`: past
`ensureTableExists` there was an instant with the table. `SectionsInOrder`: the
interleaving part of `DescriptionObserved`, that each section is the result of its
statement at an instant of the request, in the order of the sections; the witness
grows with each statement. `DescriptionsObserved` adds that whatever a statement
returns is true of the catalogue that it reads (`SectionTrue`), one lemma for each
section. What a query returns is sorted and concatenated: that rows can be sorted and
that positions which differ leave one order only (`ByPositionSorted`,
`ByPositionOrder`), and the elements of concatenated lists (`FlattenParts`,
`FlattenSingles`), are shown over sets of numbers as above. For keys, table and type
lead to the rows of one constraint (`OwnKeyUsage`). For constraints, where `JoinsOnce`
holds each of the three joins leads to one row (`OwnRowsKnown`, `ReferencesOnce`,
`UsedOnce`; on SQL Server it has no namesakes), so the rows are one group, one for
each column in order, and make the declaration (`OnceDescribed`). `OwnConstraints`
does not need `JoinsOnce`: a left join is never empty (`RowsSome`), each group has
every own row of the constraint however often it is repeated, by namesakes too
(`GroupRows`), and the rows are finite so they can be sorted (`RowsFinite`).

TLC finds the inductive invariants true on the instances of the runs (`MeaningInv` on
the valid requests of `fetch`); of `StartInv`,
which asks of each state which of the documents it came from, it has checked the
first levels of the state graph only.

Only model-checked, and why:

- `EveryRequestAnswered` (of both modules), `DroppedPoolEnds`, `StatementEnds`,
  `ShutdownReleases`: liveness under fairness is out of the prover's reach.
- The properties of the runs that TLC finds violated are false.

## 6. Not modelled

Logging and API documentation keep no state a property could be about, nor does
the rest of the status report (version, uptime, memory). `FetchRequestBuilder`
is for clients and tests; the service does not call it. The wording of error
bodies, the coercion of key values, composite keys in the row operations, the
signature of a token, and column types are data that no property tells apart.
