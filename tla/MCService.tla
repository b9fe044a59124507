----------------------------- MODULE MCService -----------------------------
(***************************************************************************)
(* Instances of Service for TLC: two sound documents, and all the ways of  *)
(* changing one of their values, or several that depend on each other.     *)
(***************************************************************************)
EXTENDS Service, TLC

Text(s)  == String(Plain(s))
Roled(s) == Array([i \in DOMAIN s |-> Text(s[i])])

MCEnvironment ==
    [URL   |-> Plain("mysql://full"), ROLE |-> Padded("viewer"), BLANK |-> Padded(""),
     EMPTY |-> Plain(""), UNSET |-> Undefined]

Parts == [engine |-> "postgres", user |-> "u", password |-> "p", host |-> "h",
          database |-> "d", wellEncoded |-> TRUE]

\* One URL for each alias, one without each part, one badly encoded.
MCUrls ==
    ("postgres://full" :> Parts) @@ ("mysql://full" :> [Parts EXCEPT !.engine = "mysql"])
    @@ ("mssql://full" :> [Parts EXCEPT !.engine = "mssql"])
    @@ ("oracle://full" :> [Parts EXCEPT !.engine = "oracle"])
    @@ ("no user" :> [Parts EXCEPT !.user = ""])
    @@ ("no password" :> [Parts EXCEPT !.password = ""])
    @@ ("no host" :> [Parts EXCEPT !.host = ""])
    @@ ("no database" :> [Parts EXCEPT !.database = ""])
    @@ ("%E0%A4%A" :> [Parts EXCEPT !.wellEncoded = FALSE])

\* Authentication is off, and nothing is said of roles.
LocalDocument ==
    [p \in Sections |-> Object]
    @@ (<<"server", "host">> :> Text("127.0.0.1")) @@ (<<"server", "port">> :> Number(3000))
    @@ (<<"server", "cors", "enabled">> :> Boolean(TRUE))
    @@ (<<"server", "cors", "origins">> :> Array(<<Text("a"), String(Padded("b"))>>))
    @@ (<<"database", "url">> :> Text("postgres://full"))
    @@ [p \in { <<"limits", limit>> : limit \in Limits } |-> Number(100)]
    @@ (<<"authentication", "enabled">> :> Boolean(FALSE))
    @@ (<<"authentication", "mode">> :> Text("oidc-jwt"))
    @@ (<<"authentication", "issuerUrl">> :> Text(""))
    @@ (<<"authentication", "jwksUrl">> :> Text(""))
    @@ (<<"authentication", "claimMappings", "subject">> :> Text("sub"))
    @@ (<<"authentication", "claimMappings", "roles">> :> Text("roles"))

\* Authentication is on; a gate of each form, a table with gates and one with keys.
SecureDocument ==
    (<<"authentication", "enabled">> :> Boolean(TRUE))
    @@ (<<"authentication", "issuerUrl">> :> Text("https://issuer"))
    @@ (<<"authentication", "audience">> :> String(Padded("audience")))
    @@ (<<"database", "url">> :> Placeholder("URL"))
    @@ (<<"limits", "fetchMaxPageSize">> :> Number(50))
    @@ (<<"limits", "statusRateLimitMax">> :> Number(7))
    @@ (<<"enableSchemaFeatures">> :> Boolean(TRUE))
    @@ [p \in { AuthorizationPath, AuthorizationPath \o <<"schema">>, CrudPath,
                CrudPath \o <<"default">>, CrudPath \o <<"tables">>,
                OverridePath("film") } |-> Object]
    @@ (AuthorizationPath \o <<"schema", "allow">> :> Roled(<<"*">>))
    @@ (AuthorizationPath \o <<"schema", "deny">> :> Array(<<Placeholder("ROLE")>>))
    @@ [p \in { DefaultPath(o) : o \in CrudOperations } |-> Roled(<<"admin", "viewer">>)]
    @@ (GatePath("film", "update") :> Roled(<<"anonymous">>))
    @@ (<<"primaryKeys">> :> Object) @@ (KeysPath("film") :> Array(<<Object>>))
    @@ (KeysPath("film") \o <<1, "column">> :> String(Padded("id")))
    @@ (KeysPath("film") \o <<1, "dataType">> :> Text("integer"))
    @@ (KeysPath("film") \o <<1, "isGenerated">> :> Boolean(TRUE))
    @@ LocalDocument

Base == [local |-> LocalDocument, secure |-> SecureDocument]

\* A value is replaced, added or taken away, and what was inside it is gone.
\* (@@ makes TLC compute the function once and not at every application.)
Under(path, p) == Len(p) > Len(path) /\ SubSeq(p, 1, Len(path)) = path

Replace(document, path, value) ==
    (IF value = Missing THEN <<>> ELSE path :> value)
    @@ [p \in { p \in DOMAIN document : p # path /\ ~ (value # Object /\ Under(path, p)) } |->
          document[p]]

Change(document, changes) ==
    LET d[i \in 0..Len(changes)] ==
            IF i = 0 THEN document
            ELSE Replace(d[i - 1], changes[i][1], changes[i][2])
    IN  d[Len(changes)]

Values ==
    { Missing, <<"null", "">>, <<"fraction", "">>, <<"mixed", "">>, Object,
      Boolean(TRUE), Boolean(FALSE), Number(-1), Number(0), Number(1), Text(""),
      String(Padded("")), Text("viewer"), String(Padded("viewer")), Array(<<>>),
      Roled(<<"admin">>), Array(<<Text("admin"), String(Padded(""))>>),
      Array(<<Number(1)>>) }
    \cup { Placeholder(v) : v \in DOMAIN MCEnvironment }

MorePaths ==
    { <<"enableSchemaFeatures">>, <<"primaryKeys">>, AuthorizationPath,
      GatePath("audit", "read"), OverridePath("audit"),
      CrudPath \o <<"default", "read", "allow">> }

\* With authentication every value, without it those of that section.
Changed ==
    [secure |-> DOMAIN SecureDocument \cup MorePaths,
     local  |-> { p \in DOMAIN LocalDocument \cup MorePaths :
                   p # <<>> /\ p[1] = "authentication" }]

OneChange ==
    UNION { { <<base, << <<path, value>> >> >> : path \in Changed[base], value \in Values } :
            base \in DOMAIN Base }

OtherUrl ==
    { <<"local", << << <<"database", "url">>, value>> >> >> :
        value \in { Text(url) : url \in DOMAIN MCUrls } \cup { String(Padded("mysql://full")) } }

RelatedChanges ==
    { <<"local", << << <<"server", "cors", "enabled">>, Boolean(b)>>,
                    << <<"server", "cors", "origins">>, Roled(s)>> >> >> :
        b \in BOOLEAN, s \in { <<>>, <<"a">> } }
    \cup
    { <<"secure", << << <<"authentication", "enabled">>, Boolean(b)>>,
                     << <<"authentication", "issuerUrl">>, issuer>>,
                     << <<"authentication", "jwksUrl">>, jwks>>,
                     <<AuthorizationPath, authorization>> >> >> :
        b \in BOOLEAN, authorization \in {Object, Missing},
        issuer \in { Text(""), String(Padded("")), Text("https://issuer") },
        jwks \in { Text(""), Placeholder("BLANK"), Text("https://keys") } }

MCDocuments == { Change(Base[c[1]], c[2]) : c \in OneChange \cup OtherUrl \cup RelatedChanges }

MCEdits == { Replace(LocalDocument, <<"database", "url">>, Text("mssql://full")) }

MCPageArguments ==
    { Missing, <<"text", "">> } \cup { Number(n) : n \in {-1, 0, 1, 50, 51} }

(***************************************************************************)
(* Errors of every cause as pg, mysql2 and mssql throw them, those of the  *)
(* connection with codes that the filter knows and that it does not: it is *)
(* refused or reset, or the server is full.                                *)
(***************************************************************************)
Error(cause, code, errno, number) ==
    [cause |-> cause, code |-> code, errno |-> errno, number |-> number]

MCDriverErrors ==
    LET U == Undefined IN
    [postgres |->
       { Error("connectivity", code, U, U) : code \in {"ECONNREFUSED", "ECONNRESET", "53300", U} }
       \cup { Error("credentials", "28P01", U, U), Error("conflict", "23505", U, U),
              Error("constraint", "23502", U, U), Error("query", "42P01", U, U),
              Error("other", "42501", U, U) },
     mysql |->
       { Error("connectivity", "ECONNREFUSED", "-111", U),
         Error("connectivity", "PROTOCOL_CONNECTION_LOST", U, U), Error("connectivity", U, U, U),
         Error("credentials", "ER_ACCESS_DENIED_ERROR", "1045", U),
         Error("conflict", "ER_DUP_ENTRY", "1062", U),
         Error("constraint", "ER_BAD_NULL_ERROR", "1048", U),
         Error("query", "ER_NO_SUCH_TABLE", "1146", U),
         Error("other", "ER_LOCK_WAIT_TIMEOUT", "1205", U) },
     sqlserver |->
       { Error("connectivity", code, U, U) : code \in {"ESOCKET", "ECONNCLOSED", "ETIMEOUT"} }
       \cup { Error("credentials", "ELOGIN", U, U), Error("conflict", "EREQUEST", U, "2627"),
              Error("constraint", "EREQUEST", U, "515"), Error("query", "EREQUEST", U, "208"),
              Error("other", "EREQUEST", U, "1205") }]

\* A message that reads like a lost connection (a table "connections"), or not.
MCMessages == { {}, {"connectivity"} }
=============================================================================
