--------------------------- MODULE RuntimeConfig ---------------------------
(***************************************************************************)
(* The configuration file (config/runtime-config.ts, db.conf.ts): from the *)
(* JSON document and the environment to the frozen configuration, or to a  *)
(* refusal to start.                                                       *)
(*                                                                         *)
(* A document is a function from the paths that are present to their       *)
(* values.  A value is a pair of a type and a content: objects have none,  *)
(* their members are at paths of their own; the content of an array is the *)
(* sequence of its elements.  A string is its trimmed text and whether     *)
(* there is white space around it; one that contains "${" is either a      *)
(* placeholder, which names a variable, or "mixed".                        *)
(***************************************************************************)
EXTENDS Authorization, Integers, Sequences

CONSTANTS
    Undefined,  \* JavaScript's undefined
    Urls        \* [the texts that new URL() accepts -> the parts it finds]

-----------------------------------------------------------------------------
(* JSON values *)

Missing   == <<"missing", "">>
Object    == <<"object", "">>
Boolean(b) == <<"boolean", b>>
Number(n) == <<"number", n>>
Array(s)  == <<"array", s>>
String(s) == <<"string", s>>
Placeholder(variable) == <<"placeholder", variable>>

Plain(text)  == [text |-> text, padded |-> FALSE]
Padded(text) == [text |-> text, padded |-> TRUE]
Blank(s)     == s.text = ""

At(document, path) ==
    IF path \in DOMAIN document THEN document[path] ELSE Missing

-----------------------------------------------------------------------------
(* interpolateEnvironmentPlaceholders *)

\* The document's strings, wherever they are.
Strings(document) ==
    { document[p] : p \in DOMAIN document }
        \cup UNION { { document[p][2][i] : i \in DOMAIN document[p][2] } :
                     p \in { q \in DOMAIN document : document[q][1] = "array" } }

\* An empty variable counts as a missing one, a blank one does not.
IsSet(variable, environment) ==
    environment[variable] \notin {Undefined, Plain("")}

Interpolates(document, environment) ==
    \A v \in Strings(document) :
        /\ v[1] # "mixed"
        /\ v[1] = "placeholder" => IsSet(v[2], environment)

\* The variable's value is a string, and is not looked at for placeholders again.
Resolve(v, environment) ==
    IF v[1] = "placeholder" THEN String(environment[v[2]]) ELSE v

Interpolated(document, environment) ==
    [p \in DOMAIN document |->
        IF document[p][1] = "array"
        THEN Array([i \in DOMAIN document[p][2] |->
                      Resolve(document[p][2][i], environment)])
        ELSE Resolve(document[p], environment)]

-----------------------------------------------------------------------------
(* The readers *)

IsString(v) == v[1] = "string"

IsNonEmptyString(v) == IsString(v) /\ ~ Blank(v[2])

IsOptionalString(v) == v[1] \in {"missing", "null", "string"}

IsBoolean(v) == v[1] = "boolean"

IsPositiveInteger(v) == v[1] = "number" /\ v[2] > 0

IsStringArray(v) ==
    v[1] = "array" /\ \A i \in DOMAIN v[2] : IsNonEmptyString(v[2][i])

IsMode(v) == IsNonEmptyString(v) /\ v[2].text = "oidc-jwt"

ReadStringArray(v) == { v[2][i][2].text : i \in DOMAIN v[2] }

\* Just the roles, or an object of allowed and perhaps denied roles.
IsRoleGate(document, path) ==
    \/ IsStringArray(At(document, path))
    \/ /\ At(document, path) = Object
       /\ IsStringArray(At(document, path \o <<"allow">>))
       /\ At(document, path \o <<"deny">>) = Missing
            \/ IsStringArray(At(document, path \o <<"deny">>))

ReadRoleGate(document, path) ==
    IF At(document, path) # Object
    THEN [allow |-> ReadStringArray(At(document, path)), deny |-> {}]
    ELSE [allow |-> ReadStringArray(At(document, path \o <<"allow">>)),
          deny  |-> IF At(document, path \o <<"deny">>) = Missing THEN {}
                    ELSE ReadStringArray(At(document, path \o <<"deny">>))]

-----------------------------------------------------------------------------
(* readOptionalAuthorization *)

AuthorizationPath == <<"authentication", "authorization">>
CrudPath          == AuthorizationPath \o <<"crud">>

DefaultPath(operation)   == CrudPath \o <<"default", operation>>
OverridePath(table)      == CrudPath \o <<"tables", table>>
GatePath(table, operation) == OverridePath(table) \o <<operation>>

\* The tables, and the operations of a table, that have an entry of their own.
Overridden(document) ==
    { t \in Tables : At(document, OverridePath(t)) # Missing }

OverriddenOperations(document, table) ==
    { o \in CrudOperations : At(document, GatePath(table, o)) # Missing }

\* Only a missing section is no section: null is an error.
IsAuthorization(document) ==
    \/ At(document, AuthorizationPath) = Missing
    \/ /\ At(document, AuthorizationPath) = Object
       /\ IsRoleGate(document, AuthorizationPath \o <<"schema">>)
       /\ \A section \in { <<>>, <<"default">>, <<"tables">> } :
            At(document, CrudPath \o section) = Object
       /\ \A o \in CrudOperations : IsRoleGate(document, DefaultPath(o))
       /\ \A t \in Overridden(document) :
            /\ At(document, OverridePath(t)) = Object
            /\ \A o \in OverriddenOperations(document, t) :
                 IsRoleGate(document, GatePath(t, o))

ReadOptionalAuthorization(document) ==
    IF At(document, AuthorizationPath) = Missing THEN Undefined
    ELSE [schema  |-> ReadRoleGate(document, AuthorizationPath \o <<"schema">>),
          default |-> [o \in CrudOperations |-> ReadRoleGate(document, DefaultPath(o))],
          tables  |-> [t \in Overridden(document) |->
                        [o \in OverriddenOperations(document, t) |->
                           ReadRoleGate(document, GatePath(t, o))]]]

-----------------------------------------------------------------------------
(* readOptionalPrimaryKeys *)

KeysPath(table) == <<"primaryKeys", table>>

KeyField(document, table, i, field) == At(document, KeysPath(table) \o <<i, field>>)

KeyedTables(document) == { t \in Tables : At(document, KeysPath(t)) # Missing }

IsPrimaryKeys(document) ==
    \/ At(document, <<"primaryKeys">>) = Missing
    \/ /\ At(document, <<"primaryKeys">>) = Object
       /\ \A t \in KeyedTables(document) :
            /\ At(document, KeysPath(t))[1] = "array"
            /\ At(document, KeysPath(t))[2] # <<>>
            /\ \A i \in DOMAIN At(document, KeysPath(t))[2] :
                 /\ At(document, KeysPath(t))[2][i] = Object
                 /\ \A field \in {"column", "dataType"} :
                      IsNonEmptyString(KeyField(document, t, i, field))

ReadOptionalPrimaryKeys(document) ==
    IF At(document, <<"primaryKeys">>) = Missing THEN Undefined
    ELSE [t \in KeyedTables(document) |->
            [i \in DOMAIN At(document, KeysPath(t))[2] |->
               [column      |-> KeyField(document, t, i, "column")[2].text,
                isGenerated |-> KeyField(document, t, i, "isGenerated") = Boolean(TRUE)]]]

-----------------------------------------------------------------------------
(* parseDatabaseUrl *)

\* Every part but the port has to be there, and the credentials well encoded.
IsDatabaseUrl(text) ==
    /\ text \in DOMAIN Urls
    /\ \A part \in {"engine", "user", "password", "host", "database"} :
         Urls[text][part] # ""
    /\ Urls[text].wellEncoded

-----------------------------------------------------------------------------
(* validateRuntimeConfig *)

Sections ==
    { <<>>, <<"server">>, <<"server", "cors">>, <<"database">>, <<"limits">>,
      <<"authentication">>, <<"authentication", "claimMappings">> }

RequiredStrings ==
    { <<"server", "host">>, <<"database", "url">>,
      <<"authentication", "claimMappings", "subject">>,
      <<"authentication", "claimMappings", "roles">> }

Limits ==
    {"requestBodyBytes", "fetchMaxPageSize", "fetchMaxPredicates",
     "fetchMaxSortFields", "rateLimitWindowMs", "rateLimitMax"}

PositiveIntegers ==
    { <<"server", "port">> } \cup { <<"limits", limit>> : limit \in Limits }

Flags == { <<"server", "cors", "enabled">>, <<"authentication", "enabled">> }

Authentication(document, field) == At(document, <<"authentication", field>>)

StatusLimit(document) == At(document, <<"limits", "statusRateLimitMax">>)

\* What each of the fields has to be, taken by itself.
FieldsSound(document) ==
    /\ \A p \in Sections : At(document, p) = Object
    /\ \A p \in RequiredStrings : IsNonEmptyString(At(document, p))
    /\ \A p \in PositiveIntegers : IsPositiveInteger(At(document, p))
    /\ \A p \in Flags : IsBoolean(At(document, p))
    /\ IsStringArray(At(document, <<"server", "cors", "origins">>))
    /\ StatusLimit(document)[1] \notin {"missing", "null"}
         => IsPositiveInteger(StatusLimit(document))
    /\ IsMode(Authentication(document, "mode"))
    /\ IsString(Authentication(document, "issuerUrl"))
    /\ IsString(Authentication(document, "jwksUrl"))
    /\ IsOptionalString(Authentication(document, "audience"))
    /\ IsAuthorization(document)
    /\ IsPrimaryKeys(document)

ReadAudience(v) == IF IsString(v) THEN v[2].text ELSE ""

\* statusRateLimitMax is five times the other budget unless it is given.
ReadLimits(document) ==
    [limit \in Limits \cup {"statusRateLimitMax"} |->
        IF limit = "statusRateLimitMax" /\ StatusLimit(document)[1] \in {"missing", "null"}
        THEN 5 * At(document, <<"limits", "rateLimitMax">>)[2]
        ELSE At(document, <<"limits", limit>>)[2]]

\* The fields that something depends on.  Both authentication URLs keep their blanks.
ReadConfig(document) ==
    [cors    |-> [enabled |-> At(document, <<"server", "cors", "enabled">>)[2],
                  origins |-> ReadStringArray(At(document, <<"server", "cors", "origins">>))],
     url     |-> At(document, <<"database", "url">>)[2].text,
     limits  |-> ReadLimits(document),
     authentication |->
        [enabled       |-> Authentication(document, "enabled")[2],
         issuerUrl     |-> Authentication(document, "issuerUrl")[2],
         jwksUrl       |-> Authentication(document, "jwksUrl")[2],
         audience      |-> ReadAudience(Authentication(document, "audience")),
         authorization |-> ReadOptionalAuthorization(document)],
     enableSchemaFeatures |-> At(document, <<"enableSchemaFeatures">>) = Boolean(TRUE),
     primaryKeys |-> ReadOptionalPrimaryKeys(document)]

\* Slip: the section on roles is demanded only where a key source is missing.
CrossChecksLoose(config) ==
    /\ IsDatabaseUrl(config.url)
    /\ config.cors.enabled => config.cors.origins # {}
    /\ config.authentication.enabled =>
         \/ ~ Blank(config.authentication.issuerUrl)
         \/ ~ Blank(config.authentication.jwksUrl)
         \/ config.authentication.authorization # Undefined

\* The checks that relate one field to another.
CrossChecks(config) ==
    /\ IsDatabaseUrl(config.url)
    /\ config.cors.enabled => config.cors.origins # {}
    /\ config.authentication.enabled =>
         /\ ~ Blank(config.authentication.issuerUrl) \/ ~ Blank(config.authentication.jwksUrl)
         /\ config.authentication.authorization # Undefined

\* What becomes of a document in an environment: a configuration, or Undefined
\* for an error at start-up.
ValidateRuntimeConfig(document, environment) ==
    IF ~ Interpolates(document, environment) THEN Undefined
    ELSE LET resolved == Interpolated(document, environment)
         IN  IF FieldsSound(resolved) /\ CrossChecks(ReadConfig(resolved))
             THEN ReadConfig(resolved)
             ELSE Undefined
=============================================================================
