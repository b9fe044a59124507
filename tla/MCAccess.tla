------------------------------ MODULE MCAccess ------------------------------
(* Instances of Access for TLC. *)
EXTENDS Access

Gate(allow, deny) == [allow |-> allow, deny |-> deny]

\* The rows of "audit" are for administrators who are not temporary staff.
Policy ==
    [schema  |-> Gate({"*"}, {"temp"}),
     default |-> [o \in CrudOperations |->
                    IF o = "read" THEN Gate({"anonymous"}, {"temp"}) ELSE Gate({}, {})],
     tables  |-> [t \in {"audit"} |-> [o \in {"read", "update"} |->
                    Gate({"admin"}, {"temp"})]]]

Config(enabled, jwksUrl, schemaFeatures, policy) ==
    [enabled |-> enabled, jwksUrl |-> jwksUrl,
     enableSchemaFeatures |-> schemaFeatures, authorization |-> policy]

AllConfigs ==
    { Config(TRUE, "none", TRUE, Policy), Config(TRUE, "valid", FALSE, Policy),
      Config(TRUE, "valid", TRUE, Policy), Config(TRUE, "invalid", TRUE, Policy),
      Config(FALSE, "none", TRUE, NoPolicy), Config(FALSE, "none", TRUE, Policy) }

DiscoveryConfigs == { Config(TRUE, "none", TRUE, Policy) }

Token(roles, valid) == [subject |-> "u", roles |-> roles, valid |-> valid]

Ask(endpoint, table, header, fault) ==
    [endpoint |-> endpoint, table |-> table, address |-> "a", header |-> header,
     fault |-> fault]

(***************************************************************************)
(* One caller with and without a token, with each combination of roles and *)
(* with a token that is no good, at endpoints of every channel.            *)
(***************************************************************************)
ManyRequests ==
    { Ask("getRecord", "audit", Token({"admin"}, TRUE), "none"),
      Ask("getRecord", "audit", Token({"admin", "temp"}, TRUE), "none"),
      Ask("index", "film", NoHeader, "none"),
      Ask("index", "film", Token({}, FALSE), "none"),
      Ask("tableInfo", "film", NoHeader, "none"),
      Ask("tableInfo", "film", Token({"temp"}, TRUE), "table"),
      Ask("fetch", "film", NoHeader, "arguments"),
      Ask("createRecord", "audit", Token({"admin"}, TRUE), "tooLarge"),
      Ask("updateRecord", "audit", Token({"admin"}, TRUE), "arguments"),
      Ask("deleteRecord", "film", NotBearer, "none"),
      Ask("deleteRecord", "film", Token({"admin"}, TRUE), "table"),
      Ask("docs", "film", NoHeader, "none"),
      Ask("status", "film", NoHeader, "none") }
=============================================================================
