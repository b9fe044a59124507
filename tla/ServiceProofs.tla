--------------------------- MODULE ServiceProofs ---------------------------
(***************************************************************************)
(* Theorems about Service, for any number of concurrent requests, any      *)
(* documents and environment, any page arguments and any number of edits.  *)
(***************************************************************************)
EXTENDS Service, SequenceTheorems, TLAPS

\* The handlers of one request.
RequestStep(r) ==
    \/ ListArrives(r) \/ InsertArrives(r) \/ StatusArrives(r)
    \/ StatementSucceeds(r) \/ StatementFails(r) \/ Respond(r)

(***************************************************************************)
(* A step of a request changes nothing but that request, which arrives     *)
(* while the process listens, or was there before.                         *)
(***************************************************************************)
LEMMA RequestStepIsOwn ==
    ASSUME NEW r \in Requests, RequestStep(r)
    PROVE  /\ \E request : work' = [work EXCEPT ![r] = request]
           /\ phase = "listening" \/ work[r].pc # "idle"
           /\ UNCHANGED <<file, edits, cached, held, phase, adapter, released>>
<1>1. CASE ListArrives(r) \/ InsertArrives(r) \/ StatusArrives(r)
  <2>1. phase = "listening"
    BY <1>1 DEF ListArrives, InsertArrives, StatusArrives, MayArrive
  <2>2. \E request : Become(r, request)
    BY <1>1 DEF ListArrives, InsertArrives, StatusArrives
  <2> QED
    BY <2>1, <2>2 DEF Become
<1>2. CASE StatementSucceeds(r) \/ StatementFails(r) \/ Respond(r)
  <2>1. work[r].pc \in {"working", "answered"}
    BY <1>2 DEF StatementSucceeds, StatementFails, Respond
  <2>2. \E request : Become(r, request)
    BY <1>2 DEF StatementSucceeds, StatementFails, Respond
  <2> QED
    BY <2>1, <2>2 DEF Become
<1> QED
  BY <1>1, <1>2 DEF RequestStep

-----------------------------------------------------------------------------
(***************************************************************************)
(* One configuration.  That all readers got the same is not inductive: it  *)
(* does not say that the memo still holds what they got, which is what the *)
(* next reader gets; nor, for a start that failed, that it did not fail    *)
(* after the providers had theirs.                                         *)
(***************************************************************************)

ConfigInv ==
    /\ DOMAIN held = Readers
    /\ \A reader \in Readers : held[reader] # Undefined => held[reader] = cached
    /\ phase \notin {"started", "read"} /\ held["bootstrap"] # Undefined
         => held["providers"] = held["bootstrap"]

(***************************************************************************)
(* A reader gets what the others have, whatever the file holds by now.     *)
(***************************************************************************)
LEMMA ReadKeepsConfig ==
    ASSUME ConfigInv, NEW reader \in Readers, NEW next,
           Read(reader, GetRuntimeConfig, next)
    PROVE  /\ DOMAIN held' = Readers
           /\ held'[reader] = cached'
           /\ \A other \in Readers : held'[other] # Undefined => held'[other] = cached'
           /\ \A other \in Readers \ {reader} : held'[other] = held[other]
           /\ cached # Undefined => cached' = cached
<1>1. /\ cached' = GetRuntimeConfig
      /\ held' = [held EXCEPT ![reader] = GetRuntimeConfig]
  BY DEF Read
<1>2. cached # Undefined => GetRuntimeConfig = cached
  BY DEF GetRuntimeConfig
<1> QED
  BY <1>1, <1>2 DEF ConfigInv

(***************************************************************************)
(* No part has read the configuration at the start.                        *)
(***************************************************************************)
LEMMA ConfigInit == Init => ConfigInv
BY DEF Init, ConfigInv, Readers

\* Bootstrap, Create and ConfigureApplication read; nothing else touches either.
LEMMA ConfigStep == ConfigInv /\ [Next]_vars => ConfigInv'
<1> SUFFICES ASSUME ConfigInv, [Next]_vars PROVE ConfigInv'
  OBVIOUS
<1>1. CASE Bootstrap
  <2>1. Read("bootstrap", GetRuntimeConfig, "read")
    BY <1>1 DEF Bootstrap
  <2>2. phase' = "read" \/ held'["bootstrap"] = Undefined
    BY <2>1 DEF Read, ConfigInv, Readers
  <2> QED
    BY <2>1, <2>2, ReadKeepsConfig DEF ConfigInv, Readers
<1>2. CASE Create
  <2>1. PICK next : Read("providers", GetRuntimeConfig, next)
    BY <1>2 DEF Create
  <2>2. held'["bootstrap"] # Undefined => held'["providers"] = held'["bootstrap"]
    BY <2>1, ReadKeepsConfig DEF ConfigInv, Readers
  <2> QED
    BY <2>1, <2>2, ReadKeepsConfig DEF ConfigInv, Readers
<1>3. CASE ConfigureApplication
  <2>1. Read("application", GetRuntimeConfig, "configured") /\ phase = "created"
    BY <1>3 DEF ConfigureApplication
  <2> QED
    BY <2>1, ReadKeepsConfig DEF ConfigInv, Readers
<1>4. CASE Listen
  BY <1>4 DEF Listen, ConfigInv
<1>5. CASE EditFile
  BY <1>5 DEF EditFile, ConfigInv
<1>6. CASE \E r \in Requests : RequestStep(r)
  BY <1>6, RequestStepIsOwn DEF ConfigInv
<1>7. CASE Shutdown \/ Drained \/ OnApplicationShutdown
  BY <1>7 DEF Shutdown, Drained, OnApplicationShutdown, ConfigInv
<1>8. CASE UNCHANGED vars
  BY <1>8 DEF vars, ConfigInv
<1> QED
  BY <1>1, <1>2, <1>3, <1>4, <1>5, <1>6, <1>7, <1>8 DEF Next, Ended, RequestStep

(***************************************************************************)
(* The inductive invariant implies that one configuration serves.          *)
(***************************************************************************)
LEMMA ConfigInvImplies == ConfigInv => OneConfiguration
BY DEF ConfigInv, OneConfiguration, Readers

(***************************************************************************)
(* All parts of the process run on the configuration that its first reader *)
(* got, however often the file is changed meanwhile (runtime-config.ts's   *)
(* cachedRuntimeConfig).                                                   *)
(***************************************************************************)
THEOREM ConfigurationIsOne == Spec => []OneConfiguration
<1>1. Spec => []ConfigInv
  BY ConfigInit, ConfigStep, PTL DEF Spec
<1> QED
  BY <1>1, ConfigInvImplies, PTL

-----------------------------------------------------------------------------
(***************************************************************************)
(* Shutdown.  ReleasedIdle is not inductive: it does not say that no       *)
(* request arrives after the release, nor that those before it are done.   *)
(***************************************************************************)

ShutdownInv ==
    /\ released => phase = "stopped"
    /\ phase \in {"drained", "stopped"} => \A r \in Requests : work[r].pc = "idle"

(***************************************************************************)
(* Nothing is released at the start, and no request is under way.          *)
(***************************************************************************)
LEMMA ShutdownInit == Init => ShutdownInv
BY DEF Init, ShutdownInv

\* Only Drained ends the time in which requests may be under way.
LEMMA ShutdownStep == ShutdownInv /\ [Next]_vars => ShutdownInv'
<1> SUFFICES ASSUME ShutdownInv, [Next]_vars PROVE ShutdownInv'
  OBVIOUS
<1>1. CASE Bootstrap
  <2>1. phase = "started" /\ phase' \in {"read", "failed"}
    BY <1>1 DEF Bootstrap, Read
  <2> QED
    BY <1>1, <2>1 DEF Bootstrap, ShutdownInv
<1>2. CASE Create
  <2>1. phase = "read" /\ phase' \in {"created", "failed"}
    BY <1>2 DEF Create, Read
  <2> QED
    BY <1>2, <2>1 DEF Create, ShutdownInv
<1>3. CASE ConfigureApplication
  <2>1. phase = "created" /\ phase' \in {"configured", "failed"}
    BY <1>3 DEF ConfigureApplication, Read
  <2> QED
    BY <1>3, <2>1 DEF ConfigureApplication, ShutdownInv
<1>4. CASE Listen
  BY <1>4 DEF Listen, ShutdownInv
<1>5. CASE EditFile
  BY <1>5 DEF EditFile, ShutdownInv
<1>6. CASE \E r \in Requests : RequestStep(r)
  <2>1. PICK r \in Requests : RequestStep(r)
    BY <1>6
  <2>2. phase' = phase /\ released' = released
    BY <2>1, RequestStepIsOwn
  <2>3. phase \notin {"drained", "stopped"}
    BY <2>1, RequestStepIsOwn DEF ShutdownInv
  <2> QED
    BY <2>2, <2>3 DEF ShutdownInv
<1>7. CASE Shutdown
  BY <1>7 DEF Shutdown, ShutdownInv
<1>8. CASE Drained
  BY <1>8 DEF Drained, ShutdownInv
<1>9. CASE OnApplicationShutdown
  BY <1>9 DEF OnApplicationShutdown, ShutdownInv
<1>10. CASE UNCHANGED vars
  BY <1>10 DEF vars, ShutdownInv
<1> QED
  BY <1>1, <1>2, <1>3, <1>4, <1>5, <1>6, <1>7, <1>8, <1>9, <1>10
  DEF Next, Ended, RequestStep

(***************************************************************************)
(* Adapters are released only in a process with no request under way.      *)
(***************************************************************************)
LEMMA ShutdownInvImplies == ShutdownInv => ReleasedIdle
BY DEF ShutdownInv, ReleasedIdle

(***************************************************************************)
(* However many requests there are and whatever their statements run into, *)
(* the adapter is released after the last of them and no other arrives     *)
(* (database-lifecycle.service.ts).                                        *)
(***************************************************************************)
THEOREM ReleaseComesLast == Spec => []ReleasedIdle
<1>1. Spec => []ShutdownInv
  BY ShutdownInit, ShutdownStep, PTL DEF Spec
<1> QED
  BY <1>1, ShutdownInvImplies, PTL

-----------------------------------------------------------------------------
(***************************************************************************)
(* The configuration a reader gets. ServingConfigSound is about what       *)
(* validateRuntimeConfig returns for any document: the fields are read     *)
(* from the document after the interpolation, and what the checks say of   *)
(* the fields is what the configuration promises. Of the documents this    *)
(* needs that numbers are integers and that gates name roles, before the   *)
(* interpolation (DocumentAssumption) and so after it.                     *)
(***************************************************************************)

\* The numbers of a document are integers.
NumbersTyped(d) == \A p : At(d, p)[1] = "number" => At(d, p)[2] \in Int

\* The gates of a document name roles.
GatesTyped(d) ==
    \A p : p # <<>> /\ p[1] = "authentication" /\ IsStringArray(At(d, p))
             => ReadStringArray(At(d, p)) \subseteq RoleNames

\* Arrays that have been through the interpolation are sequences.
ArraysTyped(d) ==
    \A p : At(d, p)[1] = "array" =>
              At(d, p)[2] = [i \in DOMAIN At(d, p)[2] |-> At(d, p)[2][i]]

(***************************************************************************)
(* What is missing from a document is no section and no list of texts.     *)
(***************************************************************************)
LEMMA MissingType == Missing[1] = "missing" /\ Missing # Object /\ ~IsStringArray(Missing)
  BY DEF Missing, Object, IsStringArray

(***************************************************************************)
(* A section of a document is no list of texts.                            *)
(***************************************************************************)
LEMMA ObjectType == ASSUME NEW v, v = Object PROVE ~IsStringArray(v)
  BY DEF Object, IsStringArray

(***************************************************************************)
(* The parts of a pair.                                                    *)
(***************************************************************************)
LEMMA PairParts == ASSUME NEW one, NEW other
                   PROVE  <<one, other>>[1] = one /\ <<one, other>>[2] = other
  OBVIOUS

(***************************************************************************)
(* The interpolation of ${...} keeps numbers integers and gates lists of   *)
(* role names, and makes each list element by element (runtime-config.ts's *)
(* interpolateEnvironment); a variable that is unset is excluded by        *)
(* Interpolates.                                                           *)
(***************************************************************************)
LEMMA InterpolatedTyped ==
    ASSUME NEW d \in Documents, Interpolates(d, Environment)
    PROVE  /\ NumbersTyped(Interpolated(d, Environment))
           /\ GatesTyped(Interpolated(d, Environment))
           /\ ArraysTyped(Interpolated(d, Environment))
<1> DEFINE r == Interpolated(d, Environment)
<1>1. DOMAIN r = DOMAIN d
  BY DEF Interpolated
<1>2. ASSUME NEW p, p \notin DOMAIN d
      PROVE  At(r, p) = Missing
  BY <1>1, <1>2 DEF At
<1>3. ASSUME NEW p \in DOMAIN d
      PROVE  At(r, p) = r[p]
  BY <1>1 DEF At
<1>4. ASSUME NEW p \in DOMAIN d, d[p][1] # "array"
      PROVE  r[p] = IF d[p][1] = "placeholder" THEN <<"string", Environment[d[p][2]]>>
                    ELSE d[p]
  BY <1>4 DEF Interpolated, Resolve, String
<1>5. ASSUME NEW p \in DOMAIN d, d[p][1] = "array"
      PROVE  r[p] = <<"array", [i \in DOMAIN d[p][2] |-> Resolve(d[p][2][i], Environment)]>>
  BY <1>5 DEF Interpolated, Array
<1> HIDE DEF r
<1>a. ASSUME NEW p \in DOMAIN d, d[p][1] = "array"
      PROVE  /\ r[p][1] = "array"
             /\ r[p][2] = [i \in DOMAIN d[p][2] |-> Resolve(d[p][2][i], Environment)]
  BY <1>5, <1>a, PairParts
<1>b. ASSUME NEW p \in DOMAIN d, d[p][1] = "placeholder"
      PROVE  r[p][1] = "string"
  <2>1. r[p] = <<"string", Environment[d[p][2]]>>
    BY <1>4, <1>b
  <2> QED
    BY <2>1, PairParts
<1>c. ASSUME NEW p \in DOMAIN d, d[p][1] \notin {"array", "placeholder"}
      PROVE  r[p] = d[p]
  BY <1>4, <1>c
<1>6. NumbersTyped(r)
  <2> SUFFICES ASSUME NEW p, At(r, p)[1] = "number"
               PROVE  At(r, p)[2] \in Int
    BY DEF NumbersTyped
  <2>1. p \in DOMAIN d
    BY <1>2, MissingType
  <2>2. d[p][1] # "array"
    BY <1>3, <1>a, <2>1
  <2>3. d[p][1] # "placeholder"
    BY <1>3, <1>b, <2>1
  <2>4. At(r, p) = d[p]
    BY <1>3, <1>c, <2>1, <2>2, <2>3
  <2> QED
    BY <2>1, <2>4, DocumentAssumption
<1>7. GatesTyped(r)
  <2> SUFFICES ASSUME NEW p, p # <<>>, p[1] = "authentication", IsStringArray(At(r, p)),
                      NEW text \in ReadStringArray(At(r, p))
               PROVE  text \in RoleNames
    BY DEF GatesTyped
  <2>1. p \in DOMAIN d
    BY <1>2, MissingType
  <2>2. d[p][1] = "array"
    <3>1. r[p][1] = "array"
      BY <1>3, <2>1 DEF IsStringArray
    <3> QED
      BY <1>b, <1>c, <2>1, <3>1
  <2>3. At(r, p)[2] = [i \in DOMAIN d[p][2] |-> Resolve(d[p][2][i], Environment)]
    BY <1>3, <1>a, <2>1, <2>2
  <2>4. PICK i \in DOMAIN d[p][2] :
           /\ text = Resolve(d[p][2][i], Environment)[2].text
           /\ IsNonEmptyString(Resolve(d[p][2][i], Environment))
    <3>1. PICK i \in DOMAIN At(r, p)[2] : text = At(r, p)[2][i][2].text
      BY DEF ReadStringArray
    <3>2. IsNonEmptyString(At(r, p)[2][i])
      BY <3>1 DEF IsStringArray
    <3>3. i \in DOMAIN d[p][2] /\ At(r, p)[2][i] = Resolve(d[p][2][i], Environment)
      BY <2>3, <3>1
    <3> QED
      BY <3>1, <3>2, <3>3
  <2>5. PICK element : element = d[p][2][i]
    OBVIOUS
  <2>6. /\ element[1] = "string" => IsRoleText(element[2].text)
        /\ element[1] = "placeholder" /\ Environment[element[2]] # Undefined
             => IsRoleText(Environment[element[2]].text)
    BY <2>1, <2>2, <2>5, DocumentAssumption
  <2>7. element \in Strings(d)
    BY <2>1, <2>2, <2>5 DEF Strings
  <2>8. CASE element[1] = "placeholder"
    <3>1. Environment[element[2]] # Undefined
      BY <2>7, <2>8 DEF Interpolates, IsSet
    <3>2. Resolve(element, Environment) = <<"string", Environment[element[2]]>>
      BY <2>8 DEF Resolve, String
    <3>3. Resolve(element, Environment)[2] = Environment[element[2]]
      BY <3>2, PairParts
    <3>4. text = Environment[element[2]].text
      BY <2>4, <2>5, <3>3
    <3>5. text # ""
      BY <2>4, <2>5 DEF IsNonEmptyString, Blank
    <3>6. IsRoleText(text)
      BY <2>6, <2>8, <3>1, <3>4
    <3> QED
      BY <3>5, <3>6 DEF IsRoleText
  <2>9. CASE element[1] # "placeholder"
    <3>1. Resolve(element, Environment) = element
      BY <2>9 DEF Resolve
    <3> QED
      BY <2>4, <2>5, <2>6, <3>1 DEF IsRoleText, IsNonEmptyString, IsString, Blank
  <2> QED
    BY <2>8, <2>9
<1>8. ArraysTyped(r)
  <2> SUFFICES ASSUME NEW p, At(r, p)[1] = "array"
               PROVE  At(r, p)[2] = [i \in DOMAIN At(r, p)[2] |-> At(r, p)[2][i]]
    BY DEF ArraysTyped
  <2>1. p \in DOMAIN d
    BY <1>2, MissingType
  <2>2. d[p][1] = "array"
    BY <1>3, <1>b, <1>c, <2>1
  <2>3. At(r, p)[2] = [i \in DOMAIN d[p][2] |-> Resolve(d[p][2][i], Environment)]
    BY <1>3, <1>a, <2>1, <2>2
  <2> QED
    BY <2>3
<1> QED
  BY <1>6, <1>7, <1>8 DEF r

(***************************************************************************)
(* A gate that passed the checks is read as sets of role names.            *)
(***************************************************************************)
LEMMA GateSound ==
    ASSUME NEW d, GatesTyped(d), NEW path, IsRoleGate(d, path),
           path # <<>>, path[1] = "authentication",
           \A part \in {"allow", "deny"} :
              path \o <<part>> # <<>> /\ (path \o <<part>>)[1] = "authentication"
    PROVE  ReadRoleGate(d, path) \in RoleGate
<1>1. ASSUME NEW p, p # <<>>, p[1] = "authentication", IsStringArray(At(d, p))
      PROVE  ReadStringArray(At(d, p)) \subseteq RoleNames
  BY <1>1 DEF GatesTyped
<1>2. CASE At(d, path) # Object
  BY <1>1, <1>2 DEF IsRoleGate, ReadRoleGate, RoleGate
<1>3. CASE At(d, path) = Object
  <2>1. ~IsStringArray(At(d, path))
    BY <1>3, ObjectType
  <2>2. ReadStringArray(At(d, path \o <<"allow">>)) \subseteq RoleNames
    BY <1>1, <2>1 DEF IsRoleGate
  <2>3. At(d, path \o <<"deny">>) # Missing
          => ReadStringArray(At(d, path \o <<"deny">>)) \subseteq RoleNames
    BY <1>1, <2>1 DEF IsRoleGate
  <2> QED
    BY <1>3, <2>2, <2>3 DEF ReadRoleGate, RoleGate
<1> QED
  BY <1>2, <1>3

(***************************************************************************)
(* A section on roles that passed the checks is read as a policy: a gate   *)
(* for the schema, one for every operation by default, and gates for       *)
(* operations of known tables (runtime-config.ts's                         *)
(* readOptionalAuthorization).                                             *)
(***************************************************************************)
LEMMA PolicySound ==
    ASSUME NEW d, GatesTyped(d), IsAuthorization(d),
           ReadOptionalAuthorization(d) # Undefined
    PROVE  IsPolicy(ReadOptionalAuthorization(d))
<1>1. At(d, AuthorizationPath) # Missing
  BY DEF ReadOptionalAuthorization
<1>2. /\ IsRoleGate(d, AuthorizationPath \o <<"schema">>)
      /\ \A o \in CrudOperations : IsRoleGate(d, DefaultPath(o))
      /\ \A t \in Overridden(d) : \A o \in OverriddenOperations(d, t) :
            IsRoleGate(d, GatePath(t, o))
  BY <1>1 DEF IsAuthorization
<1> DEFINE InGates(path) ==
        /\ path # <<>> /\ path[1] = "authentication"
        /\ \A part \in {"allow", "deny"} :
              path \o <<part>> # <<>> /\ (path \o <<part>>)[1] = "authentication"
<1>3. InGates(AuthorizationPath \o <<"schema">>)
  BY DEF AuthorizationPath
<1>4. ASSUME NEW o
      PROVE  InGates(DefaultPath(o))
  BY DEF AuthorizationPath, CrudPath, DefaultPath
<1>5. ASSUME NEW t, NEW o
      PROVE  InGates(GatePath(t, o))
  BY DEF AuthorizationPath, CrudPath, OverridePath, GatePath
<1>6. ReadRoleGate(d, AuthorizationPath \o <<"schema">>) \in RoleGate
  BY <1>2, <1>3, GateSound
<1>7. ASSUME NEW o \in CrudOperations
      PROVE  ReadRoleGate(d, DefaultPath(o)) \in RoleGate
  BY <1>2, <1>4, GateSound
<1>8. ASSUME NEW t \in Overridden(d), NEW o \in OverriddenOperations(d, t)
      PROVE  ReadRoleGate(d, GatePath(t, o)) \in RoleGate
  BY <1>2, <1>5, GateSound
<1> DEFINE policy == ReadOptionalAuthorization(d)
<1>9. policy =
        [schema  |-> ReadRoleGate(d, AuthorizationPath \o <<"schema">>),
         default |-> [o \in CrudOperations |-> ReadRoleGate(d, DefaultPath(o))],
         tables  |-> [t \in Overridden(d) |->
                       [o \in OverriddenOperations(d, t) |->
                          ReadRoleGate(d, GatePath(t, o))]]]
  BY <1>1 DEF ReadOptionalAuthorization
<1>10. DOMAIN policy = {"schema", "default", "tables"}
  BY <1>9
<1>11. policy.schema \in RoleGate /\ policy.default \in [CrudOperations -> RoleGate]
  BY <1>6, <1>7, <1>9
<1>12. policy.tables = [t \in Overridden(d) |->
                       [o \in OverriddenOperations(d, t) |->
                          ReadRoleGate(d, GatePath(t, o))]]
  BY <1>9
<1>13. /\ Overridden(d) \subseteq Tables
       /\ \A t \in Overridden(d) : OverriddenOperations(d, t) \subseteq CrudOperations
  BY DEF Overridden, OverriddenOperations
<1>14. ASSUME NEW t \in Overridden(d)
       PROVE  /\ DOMAIN policy.tables[t] \subseteq CrudOperations
              /\ policy.tables[t] \in [DOMAIN policy.tables[t] -> RoleGate]
  BY <1>8, <1>12, <1>13
<1> HIDE DEF policy
<1> QED
  BY <1>10, <1>11, <1>12, <1>13, <1>14 DEF IsPolicy, policy

(***************************************************************************)
(* Limits that passed the checks are positive integers, as is the status   *)
(* endpoint's, which is derived from the general one if it is not given.   *)
(***************************************************************************)
LEMMA LimitsSound ==
    ASSUME NEW d, NumbersTyped(d), FieldsSound(d)
    PROVE  /\ DOMAIN ReadLimits(d) = Limits \cup {"statusRateLimitMax"}
           /\ \A limit \in DOMAIN ReadLimits(d) :
                 ReadLimits(d)[limit] \in Int /\ ReadLimits(d)[limit] > 0
<1>1. ASSUME NEW p, IsPositiveInteger(At(d, p))
      PROVE  At(d, p)[2] \in Int /\ At(d, p)[2] > 0
  BY <1>1 DEF IsPositiveInteger, NumbersTyped
<1>2. ASSUME NEW limit \in Limits
      PROVE  At(d, <<"limits", limit>>)[2] \in Int /\ At(d, <<"limits", limit>>)[2] > 0
  <2>1. <<"limits", limit>> \in PositiveIntegers
    BY DEF PositiveIntegers
  <2>2. IsPositiveInteger(At(d, <<"limits", limit>>))
    BY <2>1 DEF FieldsSound
  <2> QED
    BY <1>1, <2>2
<1>3. DOMAIN ReadLimits(d) = Limits \cup {"statusRateLimitMax"}
  BY DEF ReadLimits
<1>4. ASSUME NEW limit \in Limits \cup {"statusRateLimitMax"}
      PROVE  ReadLimits(d)[limit] \in Int /\ ReadLimits(d)[limit] > 0
  <2>1. CASE limit = "statusRateLimitMax" /\ StatusLimit(d)[1] \in {"missing", "null"}
    <3>1. "rateLimitMax" \in Limits
      BY DEF Limits
    <3>2. ReadLimits(d)[limit] = 5 * At(d, <<"limits", "rateLimitMax">>)[2]
      BY <2>1 DEF ReadLimits
    <3> QED
      BY <1>2, <3>1, <3>2
  <2>2. CASE limit = "statusRateLimitMax" /\ StatusLimit(d)[1] \notin {"missing", "null"}
    <3>1. IsPositiveInteger(StatusLimit(d))
      BY <2>2 DEF FieldsSound
    <3>2. ReadLimits(d)[limit] = At(d, <<"limits", limit>>)[2]
      BY <2>2 DEF ReadLimits
    <3>3. StatusLimit(d) = At(d, <<"limits", limit>>)
      BY <2>2 DEF StatusLimit
    <3> QED
      BY <1>1, <3>1, <3>2, <3>3
  <2>3. CASE limit # "statusRateLimitMax"
    <3>1. ReadLimits(d)[limit] = At(d, <<"limits", limit>>)[2]
      BY <2>3 DEF ReadLimits
    <3> QED
      BY <1>2, <2>3, <3>1
  <2> QED
    BY <2>1, <2>2, <2>3
<1> QED
  BY <1>3, <1>4

(***************************************************************************)
(* A list that is not empty has an index.                                  *)
(***************************************************************************)
LEMMA NonEmptyDomain ==
    ASSUME NEW f, f = [i \in DOMAIN f |-> f[i]], f # <<>>
    PROVE  DOMAIN f # {}
  OBVIOUS

\* Every table has key columns, and they have names.
KeysNamed(keys) ==
    \A t \in DOMAIN keys :
        /\ keys[t] # <<>>
        /\ \A i \in DOMAIN keys[t] : keys[t][i].column # ""

(***************************************************************************)
(* Primary keys that passed the checks name at least one column for every  *)
(* table they are about, and no column without a name.                     *)
(***************************************************************************)
LEMMA KeysSound ==
    ASSUME NEW d, ArraysTyped(d), FieldsSound(d), ReadOptionalPrimaryKeys(d) # Undefined
    PROVE  KeysNamed(ReadOptionalPrimaryKeys(d))
<1>1. At(d, <<"primaryKeys">>) # Missing
  BY DEF ReadOptionalPrimaryKeys
<1>2. ReadOptionalPrimaryKeys(d) =
        [t \in KeyedTables(d) |->
            [i \in DOMAIN At(d, KeysPath(t))[2] |->
               [column      |-> KeyField(d, t, i, "column")[2].text,
                isGenerated |-> KeyField(d, t, i, "isGenerated") = Boolean(TRUE)]]]
  BY <1>1 DEF ReadOptionalPrimaryKeys
<1>3. ASSUME NEW t \in KeyedTables(d)
      PROVE  /\ At(d, KeysPath(t))[2] # <<>>
             /\ \A i \in DOMAIN At(d, KeysPath(t))[2] :
                   IsNonEmptyString(KeyField(d, t, i, "column"))
  BY <1>1 DEF FieldsSound, IsPrimaryKeys
<1> SUFFICES ASSUME NEW t \in KeyedTables(d)
             PROVE  /\ ReadOptionalPrimaryKeys(d)[t] # <<>>
                    /\ \A i \in DOMAIN ReadOptionalPrimaryKeys(d)[t] :
                          ReadOptionalPrimaryKeys(d)[t][i].column # ""
  BY <1>2 DEF KeysNamed
<1>4. PICK array : array = At(d, KeysPath(t))[2]
  OBVIOUS
<1>5. array = [i \in DOMAIN array |-> array[i]] /\ array # <<>>
  <2>1. At(d, KeysPath(t))[1] = "array"
    BY <1>1 DEF FieldsSound, IsPrimaryKeys
  <2> QED
    BY <1>3, <1>4, <2>1 DEF ArraysTyped
<1>6. PICK column : column = [i \in DOMAIN array |-> KeyField(d, t, i, "column")[2].text]
  OBVIOUS
<1>7. PICK generated : generated = [i \in DOMAIN array |->
                                      KeyField(d, t, i, "isGenerated") = Boolean(TRUE)]
  OBVIOUS
<1>8. ReadOptionalPrimaryKeys(d)[t] =
        [i \in DOMAIN array |-> [column |-> column[i], isGenerated |-> generated[i]]]
  <2>1. ReadOptionalPrimaryKeys(d)[t] =
          [i \in DOMAIN array |->
             [column      |-> KeyField(d, t, i, "column")[2].text,
              isGenerated |-> KeyField(d, t, i, "isGenerated") = Boolean(TRUE)]]
    BY <1>2, <1>4
  <2>2. ASSUME NEW i \in DOMAIN array
        PROVE  [column      |-> KeyField(d, t, i, "column")[2].text,
                isGenerated |-> KeyField(d, t, i, "isGenerated") = Boolean(TRUE)]
               = [column |-> column[i], isGenerated |-> generated[i]]
    <3>1. column[i] = KeyField(d, t, i, "column")[2].text
      BY <1>6
    <3>2. generated[i] = (KeyField(d, t, i, "isGenerated") = Boolean(TRUE))
      BY <1>7
    <3> QED
      BY <3>1, <3>2
  <2> QED
    BY <2>1, <2>2
<1>9. ASSUME NEW i \in DOMAIN array
      PROVE  column[i] # ""
  <2>1. IsNonEmptyString(KeyField(d, t, i, "column"))
    BY <1>3, <1>4
  <2> QED
    BY <1>6, <2>1 DEF IsNonEmptyString, Blank
<1>10. DOMAIN array # {}
  BY <1>5, NonEmptyDomain
<1>11. DOMAIN ReadOptionalPrimaryKeys(d)[t] # {}
  BY <1>8, <1>10
<1>12. DOMAIN <<>> = {}
  OBVIOUS
<1>13. ReadOptionalPrimaryKeys(d)[t] # <<>>
  BY <1>11, <1>12
<1>14. ASSUME NEW i \in DOMAIN ReadOptionalPrimaryKeys(d)[t]
       PROVE  ReadOptionalPrimaryKeys(d)[t][i].column # ""
  <2>1. i \in DOMAIN array
    BY <1>8
  <2>2. ReadOptionalPrimaryKeys(d)[t][i] = [column |-> column[i], isGenerated |-> generated[i]]
    BY <1>8, <2>1
  <2>3. ReadOptionalPrimaryKeys(d)[t][i].column = column[i]
    BY <2>2
  <2>4. column[i] # ""
    BY <1>9, <2>1
  <2> QED
    BY <2>3, <2>4
<1> QED
  BY <1>13, <1>14

(***************************************************************************)
(* Where the parts of a configuration come from in the document.           *)
(***************************************************************************)
LEMMA ConfigFields ==
    ASSUME NEW d
    PROVE  /\ ReadConfig(d).cors.enabled = At(d, <<"server", "cors", "enabled">>)[2]
           /\ ReadConfig(d).cors.origins
                = ReadStringArray(At(d, <<"server", "cors", "origins">>))
           /\ ReadConfig(d).limits = ReadLimits(d)
           /\ ReadConfig(d).authentication.authorization = ReadOptionalAuthorization(d)
           /\ ReadConfig(d).authentication.issuerUrl = Authentication(d, "issuerUrl")[2]
           /\ ReadConfig(d).authentication.jwksUrl = Authentication(d, "jwksUrl")[2]
           /\ ReadConfig(d).primaryKeys = ReadOptionalPrimaryKeys(d)
<1>1. PICK c : c = ReadConfig(d)
  OBVIOUS
<1>2. c.cors = [enabled |-> At(d, <<"server", "cors", "enabled">>)[2],
                origins |-> ReadStringArray(At(d, <<"server", "cors", "origins">>))]
  BY <1>1 DEF ReadConfig
<1>3. c.authentication =
        [enabled       |-> Authentication(d, "enabled")[2],
         issuerUrl     |-> Authentication(d, "issuerUrl")[2],
         jwksUrl       |-> Authentication(d, "jwksUrl")[2],
         audience      |-> ReadAudience(Authentication(d, "audience")),
         authorization |-> ReadOptionalAuthorization(d)]
  BY <1>1 DEF ReadConfig
<1>4. c.limits = ReadLimits(d) /\ c.primaryKeys = ReadOptionalPrimaryKeys(d)
  BY <1>1 DEF ReadConfig
<1> QED
  BY <1>1, <1>2, <1>3, <1>4

(***************************************************************************)
(* A document that passed all checks is read as a configuration the        *)
(* service can run on.                                                     *)
(***************************************************************************)
LEMMA ConfigServable ==
    ASSUME NEW d, NumbersTyped(d), GatesTyped(d), ArraysTyped(d),
           FieldsSound(d), CrossChecks(ReadConfig(d))
    PROVE  /\ ServableConfig(ReadConfig(d))
           /\ ReadConfig(d).limits["fetchMaxPageSize"] \in Nat \ {0}
<1>1. PICK c : c = ReadConfig(d)
  OBVIOUS
<1>2. /\ IsDatabaseUrl(c.url)
      /\ c.cors.enabled => c.cors.origins # {}
      /\ c.authentication.enabled =>
           /\ ~ Blank(c.authentication.issuerUrl) \/ ~ Blank(c.authentication.jwksUrl)
           /\ c.authentication.authorization # Undefined
  BY <1>1 DEF CrossChecks
<1>3. \A limit \in DOMAIN c.limits : c.limits[limit] \in Int /\ c.limits[limit] > 0
  BY <1>1, LimitsSound, ConfigFields
<1>4. c.limits["fetchMaxPageSize"] \in Nat \ {0}
  <2>1. "fetchMaxPageSize" \in DOMAIN c.limits
    BY <1>1, LimitsSound, ConfigFields DEF Limits
  <2> QED
    BY <1>3, <2>1
<1>5. "" \notin c.cors.origins
  <2>1. IsStringArray(At(d, <<"server", "cors", "origins">>))
    BY DEF FieldsSound
  <2>2. \A text \in ReadStringArray(At(d, <<"server", "cors", "origins">>)) : text # ""
    BY <2>1 DEF IsStringArray, ReadStringArray, IsNonEmptyString, Blank
  <2> QED
    BY <1>1, <2>2, ConfigFields
<1>6. c.authentication.authorization # Undefined => IsPolicy(c.authentication.authorization)
  <2>1. IsAuthorization(d)
    BY DEF FieldsSound
  <2> QED
    BY <1>1, <2>1, PolicySound, ConfigFields
<1>7. \A part \in {"engine", "user", "password", "host", "database"} :
         Urls[c.url][part] # ""
  BY <1>2 DEF IsDatabaseUrl
<1>8. c.primaryKeys # Undefined => KeysNamed(c.primaryKeys)
  BY <1>1, KeysSound, ConfigFields
<1>9. c.authentication.enabled =>
        \E url \in {"issuerUrl", "jwksUrl"} : ~ Blank(c.authentication[url])
  BY <1>2
<1> QED
  BY <1>1, <1>2, <1>3, <1>4, <1>5, <1>6, <1>7, <1>8, <1>9 DEF ServableConfig, KeysNamed

\* A configuration that was accepted from one of the documents.
Accepted(config) ==
    \E d \in Documents : config = ValidateRuntimeConfig(d, Environment)

(***************************************************************************)
(* What validateRuntimeConfig accepts of any document, in the environment, *)
(* is a configuration the service can run on.                              *)
(***************************************************************************)
LEMMA AcceptedServable ==
    ASSUME NEW config, Accepted(config), config # Undefined
    PROVE  /\ ServableConfig(config)
           /\ config.limits["fetchMaxPageSize"] \in Nat \ {0}
<1>1. PICK d \in Documents : config = ValidateRuntimeConfig(d, Environment)
  BY DEF Accepted
<1>2. Interpolates(d, Environment)
  BY <1>1 DEF ValidateRuntimeConfig
<1>3. PICK resolved : resolved = Interpolated(d, Environment)
  OBVIOUS
<1>4. /\ FieldsSound(resolved) /\ CrossChecks(ReadConfig(resolved))
      /\ config = ReadConfig(resolved)
  BY <1>1, <1>2, <1>3 DEF ValidateRuntimeConfig
<1>5. NumbersTyped(resolved) /\ GatesTyped(resolved) /\ ArraysTyped(resolved)
  BY <1>2, <1>3, InterpolatedTyped
<1> QED
  BY <1>4, <1>5, ConfigServable

-----------------------------------------------------------------------------
(***************************************************************************)
(* The start. ServingConfigSound is not inductive: it does not say that    *)
(* what a reader holds, or will be given, was accepted from one of the     *)
(* documents, nor which phase has which readers and the adapter.           *)
(***************************************************************************)

Serving == {"listening", "closing"}

\* The phases past the creation of the providers, but for the end by an exception.
Started == {"created", "configured", "listening", "closing", "drained", "stopped"}

\* What a reader may hold.
Held(config) == config = Undefined \/ Accepted(config)

StartInv ==
    /\ file \in Files
    /\ edits \in 0..MaxEdits
    /\ phase \in Phases
    /\ adapter \in Adapters \cup {Undefined}
    /\ released \in BOOLEAN
    /\ DOMAIN held = Readers
    /\ Held(cached)
    /\ \A reader \in Readers : Held(held[reader])
    /\ phase \in Started \cup {"read"} => held["bootstrap"] # Undefined
    /\ phase \in Started =>
         /\ held["providers"] # Undefined
         /\ adapter # Undefined
         /\ adapter = ActiveDatabaseAdapter(held["providers"])
    /\ phase \in Started \ {"created"} => held["application"] # Undefined

(***************************************************************************)
(* getRuntimeConfig returns an accepted configuration or throws, from the  *)
(* memo as from the file.                                                  *)
(***************************************************************************)
LEMMA ReadAccepted ==
    ASSUME StartInv
    PROVE  Held(GetRuntimeConfig)
<1>1. Held(Load)
  <2>1. CASE file[1] = "document"
    <3>1. file[2] \in Documents
      BY <2>1 DEF StartInv, Files
    <3> QED
      BY <2>1, <3>1 DEF Load, Held, Accepted
  <2>2. CASE file[1] # "document"
    BY <2>2 DEF Load, Held
  <2> QED
    BY <2>1, <2>2
<1> QED
  BY <1>1 DEF GetRuntimeConfig, StartInv

(***************************************************************************)
(* An engine has one of the adapters or none.                              *)
(***************************************************************************)
LEMMA AdapterKnown ==
    ASSUME NEW config
    PROVE  ActiveDatabaseAdapter(config) \in Adapters \cup {Undefined}
BY DEF ActiveDatabaseAdapter, Registry, Adapters

(***************************************************************************)
(* A reader gets an accepted configuration, the others keep theirs, and    *)
(* the start goes on unless there is none.                                 *)
(***************************************************************************)
LEMMA ReadKeepsHeld ==
    ASSUME StartInv, NEW reader \in Readers, NEW next, NEW config, Held(config),
           Read(reader, config, next)
    PROVE  /\ DOMAIN held' = Readers
           /\ Held(cached')
           /\ \A other \in Readers : Held(held'[other])
           /\ held'[reader] = config
           /\ \A other \in Readers \ {reader} : held'[other] = held[other]
           /\ phase' = IF config = Undefined THEN "failed" ELSE next
<1>1. /\ cached' = config
      /\ held' = [held EXCEPT ![reader] = config]
      /\ phase' = IF config = Undefined THEN "failed" ELSE next
  BY DEF Read
<1>2. DOMAIN held = Readers /\ \A other \in Readers : Held(held[other])
  BY DEF StartInv
<1> HIDE DEF Held
<1> QED
  BY <1>1, <1>2

(***************************************************************************)
(* The part of ServiceAssumption that is about the file.                   *)
(***************************************************************************)
LEMMA EditsKnown == Edits \subseteq Documents /\ MaxEdits \in Nat
BY ServiceAssumption, Zenon DEF ServiceAssumption

(***************************************************************************)
(* At the start nobody has a configuration.                                *)
(***************************************************************************)
LEMMA StartInit == Init => StartInv
<1> SUFFICES ASSUME Init PROVE StartInv
  OBVIOUS
<1>1. edits \in 0..MaxEdits
  BY EditsKnown DEF Init
<1>2. DOMAIN held = Readers /\ \A reader \in Readers : held[reader] = Undefined
  BY DEF Init
<1> QED
  BY <1>1, <1>2 DEF Init, StartInv, Phases, Started, Held

(***************************************************************************)
(* The three readers of the start read what was accepted, one phase each,  *)
(* and the second chooses the adapter by it; nothing else touches either.  *)
(***************************************************************************)
LEMMA StartStep == StartInv /\ [Next]_vars => StartInv'
<1> SUFFICES ASSUME StartInv, [Next]_vars PROVE StartInv'
  OBVIOUS
<1>1. CASE Bootstrap
  <2>1. PICK config : config = GetRuntimeConfig
    OBVIOUS
  <2>2. Read("bootstrap", config, "read") /\ Held(config)
    BY <1>1, <2>1, ReadAccepted DEF Bootstrap
  <2>3. /\ DOMAIN held' = Readers
        /\ Held(cached')
        /\ \A other \in Readers : Held(held'[other])
        /\ held'["bootstrap"] = config
        /\ phase' = IF config = Undefined THEN "failed" ELSE "read"
    BY <2>2, ReadKeepsHeld DEF Readers
  <2>4. UNCHANGED <<file, edits, adapter, released>>
    BY <1>1 DEF Bootstrap
  <2> QED
    BY <2>3, <2>4 DEF StartInv, Phases, Started, Held
<1>2. CASE Create
  <2>1. PICK config : config = GetRuntimeConfig
    OBVIOUS
  <2>2. PICK next : next = IF adapter' = Undefined THEN "failed" ELSE "created"
    OBVIOUS
  <2>3. /\ Read("providers", config, next) /\ Held(config)
        /\ adapter' = ActiveDatabaseAdapter(config)
    BY <1>2, <2>1, <2>2, ReadAccepted DEF Create
  <2>4. /\ DOMAIN held' = Readers
        /\ Held(cached')
        /\ \A other \in Readers : Held(held'[other])
        /\ held'["providers"] = config
        /\ held'["bootstrap"] = held["bootstrap"]
        /\ phase' = IF config = Undefined THEN "failed" ELSE next
    BY <2>3, ReadKeepsHeld DEF Readers
  <2>5. UNCHANGED <<file, edits, released>> /\ phase = "read"
    BY <1>2 DEF Create
  <2>6. adapter' \in Adapters \cup {Undefined}
    BY <2>3, AdapterKnown
  <2>7. phase' \in {"failed", "created"}
    BY <2>2, <2>4
  <2>8. phase' = "created" => config # Undefined /\ adapter' # Undefined
    BY <2>2, <2>4
  <2>9. held["bootstrap"] # Undefined
    BY <2>5 DEF StartInv
  <2>10. (adapter = ActiveDatabaseAdapter(held["providers"]))'
    BY <2>3, <2>4 DEF ActiveDatabaseAdapter
  <2> HIDE DEF Held
  <2> QED
    BY <2>4, <2>5, <2>6, <2>7, <2>8, <2>9, <2>10 DEF StartInv, Phases, Started
<1>3. CASE ConfigureApplication
  <2>1. PICK config : config = GetRuntimeConfig
    OBVIOUS
  <2>2. Read("application", config, "configured") /\ Held(config)
    BY <1>3, <2>1, ReadAccepted DEF ConfigureApplication
  <2>3. /\ DOMAIN held' = Readers
        /\ Held(cached')
        /\ \A other \in Readers : Held(held'[other])
        /\ held'["application"] = config
        /\ held'["bootstrap"] = held["bootstrap"] /\ held'["providers"] = held["providers"]
        /\ phase' = IF config = Undefined THEN "failed" ELSE "configured"
    BY <2>2, ReadKeepsHeld DEF Readers
  <2>4. UNCHANGED <<file, edits, adapter, released>> /\ phase = "created"
    BY <1>3 DEF ConfigureApplication
  <2>5. (adapter = ActiveDatabaseAdapter(held["providers"]))'
    BY <2>3, <2>4 DEF StartInv, Started, ActiveDatabaseAdapter
  <2> HIDE DEF Held
  <2> QED
    BY <2>3, <2>4, <2>5 DEF StartInv, Phases, Started
<1>4. CASE EditFile
  <2>1. file' \in Files
    BY <1>4, EditsKnown DEF EditFile, Files
  <2>2. edits' \in 0..MaxEdits
    BY <1>4, EditsKnown DEF EditFile, StartInv
  <2>3. UNCHANGED <<cached, held, phase, adapter, released>>
    BY <1>4 DEF EditFile
  <2> QED
    BY <2>1, <2>2, <2>3 DEF StartInv, ActiveDatabaseAdapter
<1>5. CASE \E r \in Requests : RequestStep(r)
  <2>1. UNCHANGED <<file, edits, cached, held, phase, adapter, released>>
    BY <1>5 DEF RequestStep, ListArrives, InsertArrives, StatusArrives, StatementSucceeds,
       StatementFails, Respond, Become
  <2> QED
    BY <2>1 DEF StartInv, ActiveDatabaseAdapter
<1>6. CASE Listen \/ Shutdown \/ Drained \/ OnApplicationShutdown
  <2>1. UNCHANGED <<file, edits, cached, held, adapter>>
    BY <1>6 DEF Listen, Shutdown, Drained, OnApplicationShutdown
  <2>2. /\ phase \in Started
        /\ phase' \in (Started \ {"created"}) \cup {"failed"}
        /\ phase = "created" => phase' = "failed"
    BY <1>6 DEF Listen, Shutdown, Drained, OnApplicationShutdown, Started
  <2>3. released' \in BOOLEAN
    BY <1>6 DEF Listen, Shutdown, Drained, OnApplicationShutdown, StartInv
  <2> QED
    BY <2>1, <2>2, <2>3 DEF StartInv, Phases, Started, ActiveDatabaseAdapter
<1>7. CASE UNCHANGED vars
  BY <1>7 DEF vars, StartInv, ActiveDatabaseAdapter
<1> QED
  BY <1>1, <1>2, <1>3, <1>4, <1>5, <1>6, <1>7 DEF Next, Ended, RequestStep

-----------------------------------------------------------------------------
(***************************************************************************)
(* The faults of a statement, and what the filter makes of them.           *)
(***************************************************************************)

\* What a status other than the status endpoint's says of the fault behind it.
Blames(a, fault, status) ==
    /\ status = 409 => fault.cause = "conflict"
    /\ status = 400 => fault.cause \in {"query", "none"}
    /\ status = 404 => fault.cause = "none"
    /\ fault.cause = "driver" => status = 503
    /\ fault.cause \in {"connectivity", "credentials"} => status \in {500, 503}
    /\ status = 503 =>
         \/ fault.cause \in {"driver", "connectivity", "credentials"}
         \/ fault.exception.message # {}
    /\ a = "postgres" /\ fault.exception.message = {} =>
         /\ fault.cause = "conflict" => status = 409
         /\ fault.cause = "query" => status = 400

\* The rules of the filter, for an error that carries the code c.
StatusOfError(c, message) ==
    IF "driver" \in message \/ c \in Filter!ConnectivityCodes \/ "connectivity" \in message
    THEN 503
    ELSE IF c \in Filter!ConflictCodes THEN 409
    ELSE IF c \in Filter!QueryCodes THEN 400
    ELSE 500

(***************************************************************************)
(* The parts of a fault and the status of its error: the first of code,    *)
(* errno and number that there is decides, after the words of the message. *)
(***************************************************************************)
LEMMA ErrorStatus ==
    ASSUME NEW cause, NEW code, NEW errno, NEW number, NEW message, NEW f,
           f = Fault(cause, Filter!Failed(code, errno, number, message))
    PROVE  /\ f.cause = cause
           /\ f.exception.message = message
           /\ code # Undefined =>
                Filter!NormalizeException(f.exception) = StatusOfError(code, message)
           /\ code = Undefined /\ errno = Undefined =>
                Filter!NormalizeException(f.exception) = StatusOfError(number, message)
<1>1. PICK e : e = f.exception
  OBVIOUS
<1>2. e = [class |-> "error", code |-> code, errno |-> errno, number |-> number,
           message |-> message]
  BY <1>1 DEF Fault, Filter!Failed
<1>3. f.cause = cause
  BY DEF Fault
<1>4. e.class # "http" /\ e.code = code /\ e.errno = errno /\ e.number = number
      /\ e.message = message
  BY <1>2
<1>5. Filter!NormalizeException(e) = StatusOfError(Filter!ReadErrorCode(e), message)
  BY <1>4 DEF Filter!NormalizeException, Filter!TranslateUnknownException, StatusOfError,
     Filter!IsMissingDriverError, Filter!IsConnectivityError, Filter!IsConstraintConflict,
     Filter!IsQueryError
<1>6. /\ code # Undefined => Filter!ReadErrorCode(e) = code
      /\ code = Undefined /\ errno = Undefined => Filter!ReadErrorCode(e) = number
  BY <1>4 DEF Filter!ReadErrorCode
<1> QED
  BY <1>1, <1>3, <1>4, <1>5, <1>6

\* What the filter makes of a fault that a statement of the adapter a ends in.
FaultSound(a, f) ==
    /\ f.cause # "none"
    /\ Filter!NormalizeException(f.exception) \in {400, 409, 500, 503}
    /\ Blames(a, f, Filter!NormalizeException(f.exception))

(***************************************************************************)
(* What the filter makes of any error of any driver, with any message: the *)
(* code decides where there is one, and where there is none, the message   *)
(* alone.                                                                  *)
(***************************************************************************)
LEMMA DriverFaultSound ==
    ASSUME NEW a \in Adapters, NEW f \in DriverFaults(a)
    PROVE  FaultSound(a, f)
<1>1. PICK e \in DriverErrors[a], message \in Messages :
        f = Fault(e.cause, Filter!Failed(e.code, e.errno, e.number, message))
  BY DEF DriverFaults
<1>2. PICK cause, code, errno, number :
        cause = e.cause /\ code = e.code /\ errno = e.errno /\ number = e.number
  OBVIOUS
<1>3. /\ cause \in Causes
      /\ code \notin ErrorNumbers
      /\ code \in ReachCodes => cause \in {"connectivity", "credentials"}
      /\ a = "postgres" =>
           /\ code \in KeyViolations <=> cause = "conflict"
           /\ code \in NameErrors <=> cause = "query"
      /\ code = Undefined => errno = Undefined /\ number = Undefined
      /\ a # "postgres" => code \notin KeyViolations \cup NameErrors
  BY <1>2, ErrorsAssumption
<1>4. f = Fault(cause, Filter!Failed(code, errno, number, message))
  BY <1>1, <1>2
<1>5. f.cause = cause /\ f.exception.message = message
  BY <1>4, ErrorStatus
<1>6. Filter!NormalizeException(f.exception) = StatusOfError(code, message)
  BY <1>3, <1>4, ErrorStatus
<1>7. PICK status : status = Filter!NormalizeException(f.exception)
  OBVIOUS
<1>8. /\ code \in Filter!ConnectivityCodes => code \in ReachCodes
      /\ code \in Filter!ConflictCodes <=> code \in KeyViolations
      /\ code \in Filter!QueryCodes <=> code \in NameErrors
      /\ code \in KeyViolations \cup NameErrors => code \notin ReachCodes
      /\ code \in KeyViolations => code \notin NameErrors
  BY <1>3 DEF Filter!ConnectivityCodes, Filter!ConflictCodes, Filter!QueryCodes,
     KeyViolations, NameErrors, ErrorNumbers, ReachCodes
<1>9. /\ status \in {400, 409, 500, 503}
      /\ status = 409 => code \in KeyViolations
      /\ status = 400 => code \in NameErrors
      /\ status = 503 => code \in ReachCodes \/ message # {}
      /\ message = {} =>
           /\ code \in KeyViolations => status = 409
           /\ code \in NameErrors => status = 400
  BY <1>6, <1>7, <1>8 DEF StatusOfError
<1>10. cause \notin {"none", "driver"}
  BY <1>3 DEF Causes
<1>11. Blames(a, f, status)
  BY <1>3, <1>5, <1>9, <1>10 DEF Blames
<1> QED
  BY <1>5, <1>7, <1>9, <1>10, <1>11 DEF FaultSound

(***************************************************************************)
(* Whatever a statement ends in on any of the adapters, the status blames  *)
(* no one who is not to blame.                                             *)
(***************************************************************************)
LEMMA FaultsSound ==
    ASSUME NEW a \in Adapters, NEW f \in {MissingDriver} \cup DriverFaults(a)
    PROVE  FaultSound(a, f)
<1>1. CASE f = MissingDriver
  <2>1. /\ f.cause = "driver" /\ f.exception.message = {"driver"}
        /\ Filter!NormalizeException(f.exception) = 503
    BY <1>1, ErrorStatus DEF MissingDriver, StatusOfError
  <2> QED
    BY <2>1 DEF FaultSound, Blames
<1> QED
  BY <1>1, DriverFaultSound

-----------------------------------------------------------------------------
(***************************************************************************)
(* Requests. TypeOK, StatusMeansCause and PagesBounded are not inductive:  *)
(* they say nothing of a request that is yet to be answered, so that       *)
(* WorkInv also has what holds of one at work: it has statements to run,   *)
(* that of a status request is the check, it is not yet connected, and its *)
(* page is one the limit allows. And nobody is at work but in a process    *)
(* that serves, when the configuration and the adapter are chosen for      *)
(* good.                                                                   *)
(***************************************************************************)

Statuses == {200, 201, 400, 404, 409, 500, 503}

\* The faults that the statements of an adapter end in.
KnownFaults(a) == {MissingDriver} \cup DriverFaults(a)

Unconnected(w) == w.connected = FALSE

\* A request has statements to run until it is answered.
WellFormed(w) ==
    /\ DOMAIN w = DOMAIN Idle
    /\ w.pc \in {"idle", "working", "answered"}
    /\ w.pc = "idle" => w = Idle
    /\ w.statements # <<>> <=> w.pc = "working"
    /\ w.pc = "answered" => w.status \in Statuses
    /\ w.pc = "working" => w.status = 0 /\ Unconnected(w)
    /\ w.pc = "working" /\ w.kind = "status" => w.statements = <<"check">>

\* What the response of a request means; a is the adapter.
Explained(w, a) ==
    w.pc = "answered" =>
      IF w.kind = "status"
      THEN w.status = 200 /\ (w.connected <=> w.fault.cause = "none")
           /\ w.connected \in BOOLEAN
      ELSE Blames(a, w.fault, w.status)

\* The page of a request is one of those the limit max allows.
Paged(w, max) ==
    w.kind = "list" /\ w.page # NoPage =>
      /\ w.page.limit \in 1..max
      /\ w.page.offset >= 0 /\ w.page.offset % w.page.limit = 0
      /\ w.pageSize = Missing => w.page.limit = DefaultQueryPageSize

(***************************************************************************)
(* The fields of a request that is not there.                              *)
(***************************************************************************)
LEMMA IdleFields ==
    /\ DOMAIN Idle = {"pc", "kind", "table", "pageSize", "page", "statements", "fault",
                      "status", "connected"}
    /\ Idle.pc = "idle" /\ Idle.kind = "" /\ Idle.page = NoPage /\ Idle.statements = <<>>
    /\ Idle.status = 0 /\ Idle.connected = FALSE
BY DEF Idle

(***************************************************************************)
(* A request that ended without an error may have any of the statuses the  *)
(* handlers give by themselves.                                            *)
(***************************************************************************)
LEMMA NoFaultSound ==
    /\ NoFault.cause = "none"
    /\ \A a : \A status \in {200, 201, 400, 404} : Blames(a, NoFault, status)
<1>1. PICK f : f = NoFault
  OBVIOUS
<1>2. PICK e : e = Filter!Failed(Undefined, Undefined, Undefined, {})
  OBVIOUS
<1>3. f = [cause |-> "none", exception |-> e]
  BY <1>1, <1>2 DEF NoFault
<1>4. f.cause = "none"
  BY <1>3
<1> QED
  BY <1>1, <1>4 DEF Blames

(***************************************************************************)
(* The invariant holds of a request that is not there.                     *)
(***************************************************************************)
LEMMA IdleSound ==
    ASSUME NEW a, NEW max
    PROVE  WellFormed(Idle) /\ Explained(Idle, a) /\ Paged(Idle, max)
BY IdleFields DEF WellFormed, Explained, Paged

(***************************************************************************)
(* An answered request keeps what it was about.                            *)
(***************************************************************************)
LEMMA AnsweredFields ==
    ASSUME NEW w, DOMAIN w = DOMAIN Idle, NEW status, NEW fault,
           NEW v, v = Answered(w, status, fault)
    PROVE  /\ DOMAIN v = DOMAIN Idle
           /\ v.pc = "answered" /\ v.statements = <<>> /\ v.status = status
           /\ v.fault = fault /\ v.connected = w.connected
           /\ v.kind = w.kind /\ v.page = w.page /\ v.pageSize = w.pageSize
BY IdleFields DEF Answered

(***************************************************************************)
(* The invariant holds of a request that is answered with a status that    *)
(* fits its fault.                                                         *)
(***************************************************************************)
LEMMA AnsweredSound ==
    ASSUME NEW w, DOMAIN w = DOMAIN Idle, NEW status \in Statuses, NEW fault, NEW a, NEW max,
           Paged(w, max),
           w.kind = "status" => /\ status = 200 /\ Unconnected(w)
                                /\ fault.cause # "none",
           w.kind # "status" => Blames(a, fault, status)
    PROVE  LET v == Answered(w, status, fault)
           IN  WellFormed(v) /\ Explained(v, a) /\ Paged(v, max)
<1>1. PICK v : v = Answered(w, status, fault)
  OBVIOUS
<1>2. /\ DOMAIN v = DOMAIN Idle
      /\ v.pc = "answered" /\ v.statements = <<>> /\ v.status = status
      /\ v.fault = fault /\ v.connected = w.connected
      /\ v.kind = w.kind /\ v.page = w.page /\ v.pageSize = w.pageSize
  BY <1>1, AnsweredFields
<1>3. WellFormed(v)
  BY <1>2 DEF WellFormed
<1>4. Explained(v, a)
  BY <1>2 DEF Explained, Unconnected
<1>5. Paged(v, max)
  BY <1>2 DEF Paged
<1> QED
  BY <1>1, <1>3, <1>4, <1>5

(***************************************************************************)
(* A request whose statement fails gets a status that fits the fault; the  *)
(* status endpoint gets its 200, and is not connected.                     *)
(***************************************************************************)
LEMMA FailureSound ==
    ASSUME NEW w, NEW a \in Adapters, NEW max, NEW fault \in KnownFaults(a),
           WellFormed(w), Paged(w, max), w.pc = "working"
    PROVE  LET v == Answered(w, IF w.kind = "status" THEN 200
                                ELSE Filter!NormalizeException(fault.exception), fault)
           IN  WellFormed(v) /\ Explained(v, a) /\ Paged(v, max)
<1>1. PICK status : status = IF w.kind = "status" THEN 200
                             ELSE Filter!NormalizeException(fault.exception)
  OBVIOUS
<1>2. FaultSound(a, fault)
  BY FaultsSound DEF KnownFaults
<1>3. /\ status \in Statuses
      /\ w.kind # "status" => Blames(a, fault, status)
      /\ w.kind = "status" => status = 200 /\ fault.cause # "none"
  BY <1>1, <1>2 DEF FaultSound, Statuses
<1>4. DOMAIN w = DOMAIN Idle /\ Unconnected(w)
  BY DEF WellFormed
<1>5. PICK v : v = Answered(w, status, fault)
  OBVIOUS
<1>6. WellFormed(v) /\ Explained(v, a) /\ Paged(v, max)
  BY <1>3, <1>4, <1>5, AnsweredSound
<1> QED
  BY <1>1, <1>5, <1>6

(***************************************************************************)
(* The invariant holds of a request that goes on to its next statement.    *)
(***************************************************************************)
LEMMA NextStatement ==
    ASSUME NEW w, WellFormed(w), w.pc = "working", NEW rest, rest # <<>>,
           w.kind # "status", NEW a, NEW max, Paged(w, max)
    PROVE  LET v == [w EXCEPT !.statements = rest]
           IN  WellFormed(v) /\ Explained(v, a) /\ Paged(v, max)
<1>1. PICK v : v = [w EXCEPT !.statements = rest]
  OBVIOUS
<1>2. /\ DOMAIN v = DOMAIN Idle
      /\ v.statements = rest /\ v.pc = "working" /\ v.status = 0 /\ Unconnected(v)
      /\ v.kind = w.kind /\ v.page = w.page /\ v.pageSize = w.pageSize
  BY <1>1, IdleFields DEF WellFormed, Unconnected
<1>3. WellFormed(v)
  BY <1>2 DEF WellFormed
<1>4. Explained(v, a)
  BY <1>2 DEF Explained
<1>5. Paged(v, max)
  BY <1>2 DEF Paged
<1> QED
  BY <1>1, <1>3, <1>4, <1>5

(***************************************************************************)
(* The invariant holds of a request whose last statement succeeded.        *)
(***************************************************************************)
LEMMA LastStatement ==
    ASSUME NEW w, WellFormed(w), w.pc = "working", NEW a, NEW max, Paged(w, max)
    PROVE  LET v == [Answered(w, IF w.kind = "insert" THEN 201 ELSE 200, NoFault)
                       EXCEPT !.connected = w.kind = "status"]
           IN  WellFormed(v) /\ Explained(v, a) /\ Paged(v, max)
<1>1. PICK status : status = IF w.kind = "insert" THEN 201 ELSE 200
  OBVIOUS
<1>2. PICK answer : answer = Answered(w, status, NoFault)
  OBVIOUS
<1>3. /\ DOMAIN answer = DOMAIN Idle
      /\ answer.pc = "answered" /\ answer.statements = <<>> /\ answer.status = status
      /\ answer.fault = NoFault
      /\ answer.kind = w.kind /\ answer.page = w.page /\ answer.pageSize = w.pageSize
  BY <1>2, AnsweredFields DEF WellFormed
<1>4. PICK connected \in BOOLEAN : connected = (w.kind = "status")
  OBVIOUS
<1>5. PICK v : v = [answer EXCEPT !.connected = connected]
  OBVIOUS
<1>6. /\ DOMAIN v = DOMAIN Idle /\ v.connected = connected
      /\ v.pc = "answered" /\ v.statements = <<>> /\ v.status = status
      /\ v.fault = NoFault
      /\ v.kind = w.kind /\ v.page = w.page /\ v.pageSize = w.pageSize
  BY <1>3, <1>5, IdleFields
<1>7. WellFormed(v)
  BY <1>1, <1>6 DEF WellFormed, Statuses
<1>8. Explained(v, a)
  <2>1. CASE w.kind = "status"
    BY <1>1, <1>4, <1>6, <2>1, NoFaultSound DEF Explained
  <2>2. CASE w.kind # "status"
    BY <1>1, <1>6, <2>2, NoFaultSound DEF Explained
  <2> QED
    BY <2>1, <2>2
<1>9. Paged(v, max)
  BY <1>6 DEF Paged
<1>10. v = [Answered(w, IF w.kind = "insert" THEN 201 ELSE 200, NoFault)
              EXCEPT !.connected = w.kind = "status"]
  BY <1>1, <1>2, <1>4, <1>5
<1> QED
  BY <1>7, <1>8, <1>9, <1>10

(***************************************************************************)
(* The invariant holds of whatever follows a statement that succeeded: the *)
(* next one, the response, or a 404 or 400 of the handler.                 *)
(***************************************************************************)
LEMMA SuccessSound ==
    ASSUME NEW w, NEW a, NEW max, WellFormed(w), Paged(w, max), w.pc = "working",
           NEW v \in AfterStatement(w)
    PROVE  WellFormed(v) /\ Explained(v, a) /\ Paged(v, max)
<1> DEFINE done == Head(w.statements)
           rest == Tail(w.statements)
<1>1. Head(<<"check">>) = "check"
  OBVIOUS
<1>2. Tail(<<"check">>) = <<>>
  OBVIOUS
<1>3. w.kind = "status" => done = "check" /\ rest = <<>>
  BY <1>1, <1>2 DEF WellFormed
<1>4. \/ rest # <<>> /\ v = [w EXCEPT !.statements = rest]
      \/ rest = <<>> /\ v = [Answered(w, IF w.kind = "insert" THEN 201 ELSE 200, NoFault)
                               EXCEPT !.connected = w.kind = "status"]
      \/ done = "exists" /\ v = Answered(w, 404, NoFault)
      \/ (done = "keys" \/ w.kind = "insert") /\ v = Answered(w, 400, NoFault)
  <2> DEFINE next == IF rest # <<>> THEN [w EXCEPT !.statements = rest]
                     ELSE [Answered(w, IF w.kind = "insert" THEN 201 ELSE 200, NoFault)
                             EXCEPT !.connected = w.kind = "status"]
             missing == Answered(w, 404, NoFault)
             refused == Answered(w, 400, NoFault)
             rejects == \/ done = "keys"
                        \/ /\ w.kind = "insert" /\ done = "exists"
                           /\ PrimaryKeyOverride(w.table) # Undefined
                           /\ HasGeneratedKey(PrimaryKeyOverride(w.table))
  <2>1. v \in {next} \cup (IF done = "exists" THEN {missing} ELSE {})
                     \cup (IF rejects THEN {refused} ELSE {})
    BY DEF AfterStatement
  <2>2. rejects => done = "keys" \/ w.kind = "insert"
    OBVIOUS
  <2> HIDE DEF next, missing, refused, rejects, done
  <2>3. \/ v = next
        \/ done = "exists" /\ v = missing
        \/ (done = "keys" \/ w.kind = "insert") /\ v = refused
    BY <2>1, <2>2
  <2> QED
    BY <2>3 DEF next, missing, refused
<1> HIDE DEF done, rest
<1>5. CASE rest # <<>> /\ v = [w EXCEPT !.statements = rest]
  BY <1>3, <1>5, NextStatement
<1>6. CASE v = [Answered(w, IF w.kind = "insert" THEN 201 ELSE 200, NoFault)
                  EXCEPT !.connected = w.kind = "status"]
  BY <1>6, LastStatement
<1>7. CASE \E status \in {400, 404} : w.kind # "status" /\ v = Answered(w, status, NoFault)
  <2>1. PICK status \in {400, 404} : w.kind # "status" /\ v = Answered(w, status, NoFault)
    BY <1>7
  <2>2. status \in Statuses /\ Blames(a, NoFault, status) /\ DOMAIN w = DOMAIN Idle
    BY NoFaultSound DEF Statuses, WellFormed
  <2> QED
    BY <2>1, <2>2, AnsweredSound
<1>8. w.kind = "insert" \/ done \in {"keys", "exists"} => w.kind # "status"
  BY <1>3
<1> QED
  BY <1>4, <1>5, <1>6, <1>7, <1>8

(***************************************************************************)
(* A sequence that is not empty stays so whatever is appended.             *)
(***************************************************************************)
LEMMA Extended ==
    ASSUME NEW S, NEW first \in Seq(S), first # <<>>, NEW s \in Seq(S),
           NEW t \in Seq(S), NEW u \in Seq(S)
    PROVE  first \o s \o t \o u # <<>>
<1>1. first \o s \in Seq(S) /\ first \o s # <<>>
  BY ConcatProperties, ConcatEqualIffEmpty
<1>2. (first \o s) \o t \in Seq(S) /\ (first \o s) \o t # <<>>
  BY <1>1, ConcatProperties, ConcatEqualIffEmpty
<1> QED
  BY <1>2, ConcatEqualIffEmpty

(***************************************************************************)
(* An insert has statements to run, whichever of them it skips.            *)
(***************************************************************************)
LEMMA StatementsToRun ==
    ASSUME NEW table, NEW statements \in InsertStatements(table)
    PROVE  statements # <<>>
<1> DEFINE S == {"exists", "keys", "insert", "lastId", "column", "row"}
<1>1. PICK keys \in {<<"keys">>, <<>>},
           after \in {<<>>, <<"lastId">>, <<"lastId", "column">>,
                      <<"lastId", "column", "row">>} :
           statements = <<"exists">> \o keys \o <<"insert">> \o after
  BY DEF InsertStatements
<1>2. /\ <<"exists">> \in Seq(S) /\ <<"insert">> \in Seq(S)
      /\ <<"exists">> # <<>>
  OBVIOUS
<1>3. /\ <<>> \in Seq(S) /\ <<"keys">> \in Seq(S) /\ <<"lastId">> \in Seq(S)
      /\ <<"lastId", "column">> \in Seq(S) /\ <<"lastId", "column", "row">> \in Seq(S)
  OBVIOUS
<1> HIDE DEF S
<1>4. keys \in Seq(S) /\ after \in Seq(S)
  BY <1>1, <1>3
<1> QED
  BY <1>1, <1>2, <1>3, <1>4, Extended

(***************************************************************************)
(* The invariant holds of an insert that arrives.                          *)
(***************************************************************************)
LEMMA ArrivalSound ==
    ASSUME NEW table, NEW statements, statements # <<>>, NEW a, NEW max
    PROVE  LET v == [Idle EXCEPT !.pc = "working", !.kind = "insert", !.table = table,
                                 !.statements = statements]
           IN  WellFormed(v) /\ Explained(v, a) /\ Paged(v, max)
<1>1. PICK v : v = [Idle EXCEPT !.pc = "working", !.kind = "insert", !.table = table,
                                !.statements = statements]
  OBVIOUS
<1>2. /\ DOMAIN v = DOMAIN Idle
      /\ v.pc = "working" /\ v.kind = "insert" /\ v.statements = statements
      /\ v.status = 0 /\ Unconnected(v)
  BY <1>1, IdleFields DEF Unconnected
<1> QED
  BY <1>1, <1>2 DEF WellFormed, Explained, Paged

(***************************************************************************)
(* The invariant holds of a status request that arrives.                   *)
(***************************************************************************)
LEMMA StatusSound ==
    ASSUME NEW a, NEW max
    PROVE  LET v == [Idle EXCEPT !.pc = "working", !.kind = "status",
                                 !.statements = <<"check">>]
           IN  WellFormed(v) /\ Explained(v, a) /\ Paged(v, max)
<1>1. PICK v : v = [Idle EXCEPT !.pc = "working", !.kind = "status",
                                !.statements = <<"check">>]
  OBVIOUS
<1>2. /\ DOMAIN v = DOMAIN Idle
      /\ v.pc = "working" /\ v.kind = "status" /\ v.statements = <<"check">>
      /\ v.status = 0 /\ Unconnected(v)
  BY <1>1, IdleFields DEF Unconnected
<1>3. v.statements # <<>>
  BY <1>2
<1> QED
  BY <1>1, <1>2, <1>3 DEF WellFormed, Explained, Paged

(***************************************************************************)
(* A page argument that passed is an integer or is not given.              *)
(***************************************************************************)
LEMMA NumberOrMissing ==
    ASSUME NEW value \in PageArguments, IsIntegerQueryValue(value)
    PROVE  value = Missing \/ value[2] \in Int
<1>1. PICK text : text = <<"text", "">>
  OBVIOUS
<1>2. text[1] = "text"
  BY <1>1
<1> QED
  BY <1>1, <1>2, ServiceAssumption DEF IsIntegerQueryValue

(***************************************************************************)
(* The page of arguments that passed: of a size within the limit, and      *)
(* starting at a multiple of it (data-access.controller.ts's               *)
(* parsePageIndex and parsePageSize).                                      *)
(***************************************************************************)
LEMMA PageSound ==
    ASSUME NEW max \in Nat, NEW pageIndex \in PageArguments, NEW pageSize \in PageArguments,
           IsPageIndex(pageIndex), IsPageSize(pageSize), max = Config.limits["fetchMaxPageSize"]
    PROVE  /\ Page(pageIndex, pageSize).limit \in 1..max
           /\ Page(pageIndex, pageSize).offset >= 0
           /\ Page(pageIndex, pageSize).offset % Page(pageIndex, pageSize).limit = 0
           /\ pageSize = Missing => Page(pageIndex, pageSize).limit = DefaultQueryPageSize
<1>1. PICK limit : limit = QueryValue(pageSize, DefaultQueryPageSize)
  OBVIOUS
<1>2. PICK index : index = QueryValue(pageIndex, 0)
  OBVIOUS
<1>3. limit \in Int
  BY <1>1, NumberOrMissing DEF IsPageSize, QueryValue, DefaultQueryPageSize
<1>4. limit \in 1..max
  BY <1>1, <1>3 DEF IsPageSize
<1>5. index \in Nat
  BY <1>2, NumberOrMissing DEF IsPageIndex, QueryValue
<1>6. Page(pageIndex, pageSize) = [limit |-> limit, offset |-> index * limit]
  BY <1>1, <1>2 DEF Page
<1>7. index * limit >= 0 /\ (index * limit) % limit = 0
  BY <1>4, <1>5
<1>8. pageSize = Missing => limit = DefaultQueryPageSize
  BY <1>1 DEF QueryValue
<1> QED
  BY <1>4, <1>6, <1>7, <1>8

(***************************************************************************)
(* The invariant holds of a list request that arrives with good arguments. *)
(***************************************************************************)
LEMMA ListSound ==
    ASSUME NEW max \in Nat, NEW pageIndex \in PageArguments, NEW pageSize \in PageArguments,
           IsPageIndex(pageIndex), IsPageSize(pageSize), max = Config.limits["fetchMaxPageSize"],
           NEW a
    PROVE  LET request == [Idle EXCEPT !.pc = "working", !.kind = "list",
                                       !.pageSize = pageSize]
               v == [request EXCEPT !.page = Page(pageIndex, pageSize),
                                    !.statements = <<"exists", "select">>]
           IN  WellFormed(v) /\ Explained(v, a) /\ Paged(v, max)
<1>1. PICK request : request = [Idle EXCEPT !.pc = "working", !.kind = "list",
                                            !.pageSize = pageSize]
  OBVIOUS
<1>2. PICK page : page = Page(pageIndex, pageSize)
  OBVIOUS
<1>3. PICK v : v = [request EXCEPT !.page = page, !.statements = <<"exists", "select">>]
  OBVIOUS
<1>4. /\ DOMAIN request = DOMAIN Idle /\ request.pc = "working" /\ request.kind = "list"
      /\ request.pageSize = pageSize /\ request.status = 0 /\ Unconnected(request)
  BY <1>1, IdleFields DEF Unconnected
<1>5. /\ DOMAIN v = DOMAIN Idle /\ v.pc = "working" /\ v.kind = "list"
      /\ v.pageSize = pageSize /\ v.status = 0 /\ Unconnected(v)
      /\ v.page = page /\ v.statements = <<"exists", "select">>
  BY <1>3, <1>4, IdleFields DEF Unconnected
<1>6. v.statements # <<>>
  BY <1>5
<1>7. WellFormed(v) /\ Explained(v, a)
  BY <1>5, <1>6 DEF WellFormed, Explained
<1>8. Paged(v, max)
  BY <1>2, <1>5, PageSound DEF Paged
<1> QED
  BY <1>1, <1>2, <1>3, <1>7, <1>8

(***************************************************************************)
(* The invariant holds of a list request that is refused for its           *)
(* arguments, which has no page.                                           *)
(***************************************************************************)
LEMMA RefusedListSound ==
    ASSUME NEW max, NEW pageSize, NEW a
    PROVE  LET request == [Idle EXCEPT !.pc = "working", !.kind = "list",
                                       !.pageSize = pageSize]
               v == Answered(request, 400, NoFault)
           IN  WellFormed(v) /\ Explained(v, a) /\ Paged(v, max)
<1>1. PICK request : request = [Idle EXCEPT !.pc = "working", !.kind = "list",
                                            !.pageSize = pageSize]
  OBVIOUS
<1>2. DOMAIN request = DOMAIN Idle /\ request.kind = "list" /\ request.page = NoPage
  BY <1>1, IdleFields
<1>3. Paged(request, max)
  BY <1>2 DEF Paged
<1>4. 400 \in Statuses /\ Blames(a, NoFault, 400)
  BY NoFaultSound DEF Statuses
<1>5. PICK v : v = Answered(request, 400, NoFault)
  OBVIOUS
<1>6. request.kind # "status"
  BY <1>2
<1>7. WellFormed(v) /\ Explained(v, a) /\ Paged(v, max)
  BY <1>2, <1>3, <1>4, <1>5, <1>6, AnsweredSound
<1> QED
  BY <1>1, <1>5, <1>7

MaxPageSize == Config.limits["fetchMaxPageSize"]

WorkInv ==
    /\ DOMAIN work = Requests
    /\ \A r \in Requests :
         /\ WellFormed(work[r])
         /\ Explained(work[r], adapter)
         /\ Paged(work[r], MaxPageSize)
         /\ work[r].pc # "idle" => phase \in Serving

\* What WorkInv says of a request, where a is the adapter and max the limit.
RequestSound(w, a, max) == WellFormed(w) /\ Explained(w, a) /\ Paged(w, max)

(***************************************************************************)
(* A step of a request happens in a process that serves, changes only that *)
(* request, and leaves it as the invariant says.                           *)
(***************************************************************************)
LEMMA StepSound ==
    ASSUME StartInv, WorkInv, NEW r \in Requests, RequestStep(r)
    PROVE  /\ \E v : /\ work' = [work EXCEPT ![r] = v]
                     /\ RequestSound(v, adapter, MaxPageSize)
           /\ phase \in Serving
           /\ UNCHANGED <<file, edits, cached, held, phase, adapter, released>>
<1> USE DEF RequestSound
<1>1. PICK w : w = work[r]
  OBVIOUS
<1>2. PICK max : max = MaxPageSize
  OBVIOUS
<1>3. PICK a : a = adapter
  OBVIOUS
<1>4. WellFormed(w) /\ Explained(w, a) /\ Paged(w, max) /\ (w.pc # "idle" => phase \in Serving)
  BY <1>1, <1>2, <1>3 DEF WorkInv
<1>5. phase \in Serving
  BY <1>1, <1>4 DEF RequestStep, ListArrives, InsertArrives, StatusArrives, MayArrive,
     StatementSucceeds, StatementFails, Respond, Serving
<1>6. a \in Adapters
  BY <1>3, <1>5 DEF StartInv, Serving, Started
<1>7. max \in Nat
  <2>1. Held(Config) /\ Config # Undefined
    BY <1>5 DEF StartInv, Serving, Started, Config, Readers
  <2> QED
    BY <1>2, <2>1, AcceptedServable DEF Held, MaxPageSize
<1> SUFFICES \E v : Become(r, v) /\ RequestSound(v, a, max)
  BY <1>2, <1>3, <1>5 DEF Become
<1>8. CASE ListArrives(r)
  <2>1. PICK pageIndex \in PageArguments, pageSize \in PageArguments :
          LET request == [Idle EXCEPT !.pc = "working", !.kind = "list",
                                      !.pageSize = pageSize]
          IN  Become(r,
                IF IsPageIndex(pageIndex) /\ IsPageSize(pageSize)
                THEN [request EXCEPT !.page = Page(pageIndex, pageSize),
                                     !.statements = <<"exists", "select">>]
                ELSE Answered(request, 400, NoFault))
    BY <1>8 DEF ListArrives
  <2> DEFINE request == [Idle EXCEPT !.pc = "working", !.kind = "list",
                                     !.pageSize = pageSize]
             full == [request EXCEPT !.page = Page(pageIndex, pageSize),
                                     !.statements = <<"exists", "select">>]
             refused == Answered(request, 400, NoFault)
  <2>2. CASE IsPageIndex(pageIndex) /\ IsPageSize(pageSize)
    <3>1. Become(r, full)
      BY <2>1, <2>2
    <3>2. WellFormed(full) /\ Explained(full, a) /\ Paged(full, max)
      BY <1>2, <1>7, <2>2, ListSound DEF MaxPageSize
    <3> HIDE DEF full
    <3> QED
      BY <3>1, <3>2
  <2>3. CASE ~ (IsPageIndex(pageIndex) /\ IsPageSize(pageSize))
    <3>1. Become(r, refused)
      BY <2>1, <2>3
    <3>2. WellFormed(refused) /\ Explained(refused, a) /\ Paged(refused, max)
      BY RefusedListSound
    <3> HIDE DEF refused
    <3> QED
      BY <3>1, <3>2
  <2> QED
    BY <2>2, <2>3
<1>9. CASE InsertArrives(r)
  <2>0. PICK table \in Tables : \E statements \in InsertStatements(table) :
          Become(r, [Idle EXCEPT !.pc = "working", !.kind = "insert", !.table = table,
                                 !.statements = statements])
    BY <1>9 DEF InsertArrives
  <2>1. PICK statements \in InsertStatements(table) :
          Become(r, [Idle EXCEPT !.pc = "working", !.kind = "insert", !.table = table,
                                 !.statements = statements])
    BY <2>0
  <2> QED
    BY <2>1, StatementsToRun, ArrivalSound
<1>10. CASE StatusArrives(r)
  <2>1. Become(r, [Idle EXCEPT !.pc = "working", !.kind = "status",
                               !.statements = <<"check">>])
    BY <1>10 DEF StatusArrives
  <2> QED
    BY <2>1, StatusSound
<1>11. CASE StatementSucceeds(r)
  BY <1>1, <1>4, <1>11, SuccessSound DEF StatementSucceeds
<1>12. CASE StatementFails(r)
  <2>1. PICK fault \in FaultsOf(Head(w.statements)) :
          Become(r, Answered(w, IF w.kind = "status" THEN 200
                                ELSE Filter!NormalizeException(fault.exception), fault))
    BY <1>1, <1>12 DEF StatementFails
  <2>2. fault \in KnownFaults(a) /\ w.pc = "working"
    BY <1>1, <1>3, <1>12 DEF StatementFails, FaultsOf, KnownFaults
  <2> DEFINE v == Answered(w, IF w.kind = "status" THEN 200
                              ELSE Filter!NormalizeException(fault.exception), fault)
  <2>3. WellFormed(v) /\ Explained(v, a) /\ Paged(v, max)
    BY <1>4, <1>6, <2>2, FailureSound
  <2> HIDE DEF v
  <2>4. Become(r, v)
    BY <2>1 DEF v
  <2> QED
    BY <2>3, <2>4
<1>13. CASE Respond(r)
  <2>1. Become(r, Idle)
    BY <1>13 DEF Respond
  <2> QED
    BY <2>1, IdleSound
<1> QED
  BY <1>8, <1>9, <1>10, <1>11, <1>12, <1>13 DEF RequestStep

(***************************************************************************)
(* No request is there at the start.                                       *)
(***************************************************************************)
LEMMA WorkInit == Init => WorkInv
<1> SUFFICES ASSUME Init PROVE WorkInv
  OBVIOUS
<1>1. DOMAIN work = Requests /\ \A r \in Requests : work[r] = Idle
  BY DEF Init
<1> QED
  BY <1>1, IdleSound, IdleFields DEF WorkInv

(***************************************************************************)
(* Requests keep the invariant by StepSound; the steps of the start, which *)
(* choose the limit and the adapter, find no request, nor does the         *)
(* release.                                                                *)
(***************************************************************************)
LEMMA WorkStep == StartInv /\ WorkInv /\ [Next]_vars => WorkInv'
<1> SUFFICES ASSUME StartInv, WorkInv, [Next]_vars PROVE WorkInv'
  OBVIOUS
<1> USE DEF RequestSound
<1>1. ASSUME NEW r \in Requests, RequestStep(r)
      PROVE  WorkInv'
  <2>1. PICK v : /\ work' = [work EXCEPT ![r] = v]
                 /\ RequestSound(v, adapter, MaxPageSize)
    BY <1>1, StepSound
  <2>2. UNCHANGED <<held, phase, adapter>> /\ phase \in Serving
    BY <1>1, StepSound
  <2>3. MaxPageSize' = MaxPageSize
    BY <2>2 DEF MaxPageSize, Config
  <2>4. DOMAIN work' = Requests
    BY <2>1 DEF WorkInv
  <2>5. ASSUME NEW other \in Requests
        PROVE  work'[other] = IF other = r THEN v ELSE work[other]
    BY <2>1 DEF WorkInv
  <2>6. ASSUME NEW other \in Requests
        PROVE  RequestSound(work'[other], adapter', MaxPageSize')
    BY <2>1, <2>2, <2>3, <2>5 DEF WorkInv
  <2> QED
    BY <2>2, <2>4, <2>6 DEF WorkInv
<1>2. ASSUME work' = work, phase \notin Serving, phase' \notin Serving \/ phase' = "listening"
      PROVE  WorkInv'
  <2>1. ASSUME NEW r \in Requests
        PROVE  work'[r] = Idle
    BY <1>2 DEF WorkInv, WellFormed
  <2>2. ASSUME NEW r \in Requests
        PROVE  RequestSound(work'[r], adapter', MaxPageSize') /\ work'[r].pc = "idle"
    BY <2>1, IdleSound, IdleFields
  <2> QED
    BY <1>2, <2>2 DEF WorkInv
<1>3. ASSUME work' = work, UNCHANGED <<held, adapter>>,
             phase' \in Serving \/ \A r \in Requests : work[r].pc = "idle" \/ phase' = phase
      PROVE  WorkInv'
  <2>1. MaxPageSize' = MaxPageSize
    BY <1>3 DEF MaxPageSize, Config
  <2> QED
    BY <1>3, <2>1 DEF WorkInv
<1>4. CASE Bootstrap \/ Create \/ ConfigureApplication \/ Listen
  BY <1>2, <1>4 DEF Bootstrap, Create, ConfigureApplication, Listen, Read, Serving
<1>5. CASE EditFile
  BY <1>3, <1>5 DEF EditFile
<1>6. CASE Shutdown
  BY <1>3, <1>6 DEF Shutdown, Serving
<1>7. CASE Drained
  BY <1>3, <1>7 DEF Drained
<1>8. CASE OnApplicationShutdown
  BY <1>2, <1>8 DEF OnApplicationShutdown, Serving
<1>9. CASE UNCHANGED vars
  BY <1>3, <1>9 DEF vars
<1> QED
  BY <1>1, <1>4, <1>5, <1>6, <1>7, <1>8, <1>9 DEF Next, Ended, RequestStep

(***************************************************************************)
(* The inductive invariants imply type correctness.                        *)
(***************************************************************************)
LEMMA TypeImplied == StartInv /\ WorkInv => TypeOK
<1> SUFFICES ASSUME StartInv, WorkInv PROVE TypeOK
  OBVIOUS
<1>1. ASSUME NEW r \in Requests
      PROVE  /\ DOMAIN work[r] = DOMAIN Idle
             /\ work[r].pc \in {"idle", "working", "answered"}
             /\ (work[r].statements # <<>>) = (work[r].pc = "working")
             /\ work[r].status \in {0, 200, 201, 400, 404, 409, 500, 503}
             /\ (work[r].status # 0) = (work[r].pc = "answered")
             /\ work[r].pc # "idle" => phase \in {"listening", "closing"}
  <2>1. PICK w : w = work[r]
    OBVIOUS
  <2>2. WellFormed(w) /\ (w.pc # "idle" => phase \in Serving)
    BY <2>1 DEF WorkInv
  <2>3. DOMAIN w = DOMAIN Idle /\ w.pc \in {"idle", "working", "answered"}
    BY <2>2 DEF WellFormed
  <2>4. (w.statements # <<>>) = (w.pc = "working")
    BY <2>2 DEF WellFormed
  <2>5. /\ w.status \in {0, 200, 201, 400, 404, 409, 500, 503}
        /\ (w.status # 0) = (w.pc = "answered")
    <3>1. CASE w.pc = "idle"
      <4>1. w.status = 0
        BY <2>2, <3>1, IdleFields DEF WellFormed
      <4> QED
        BY <3>1, <4>1
    <3>2. CASE w.pc = "working"
      BY <2>2, <3>2 DEF WellFormed
    <3>3. CASE w.pc = "answered"
      <4>1. w.status \in {200, 201, 400, 404, 409, 500, 503}
        BY <2>2, <3>3 DEF WellFormed, Statuses
      <4> QED
        BY <3>3, <4>1
    <3> QED
      BY <2>3, <3>1, <3>2, <3>3
  <2> QED
    BY <2>1, <2>2, <2>3, <2>4, <2>5 DEF Serving
<1> QED
  BY <1>1 DEF TypeOK, StartInv

(***************************************************************************)
(* The inductive invariant of the start implies that what serves is sound. *)
(***************************************************************************)
LEMMA ServableImplied == StartInv => ServingConfigSound
<1> SUFFICES ASSUME StartInv PROVE ServingConfigSound
  OBVIOUS
<1>1. ASSUME NEW reader \in Readers, held[reader] # Undefined
      PROVE  ServableConfig(held[reader])
  BY <1>1, AcceptedServable DEF StartInv, Held
<1>2. ASSUME phase \in {"listening", "closing", "drained"}
      PROVE  /\ \A reader \in Readers : held[reader] # Undefined
             /\ adapter \in Adapters
             /\ Registry[Urls[Config.url].engine] = adapter
  <2>1. phase \in Started /\ phase # "created"
    BY <1>2 DEF Started
  <2>2. adapter = ActiveDatabaseAdapter(Config) /\ adapter # Undefined
    BY <2>1 DEF StartInv, Config
  <2>3. Registry[Urls[Config.url].engine] = adapter
    BY <2>2 DEF ActiveDatabaseAdapter
  <2>4. adapter \in Adapters
    BY <2>2, AdapterKnown
  <2>5. \A reader \in Readers : held[reader] # Undefined
    BY <2>1 DEF StartInv, Readers
  <2> QED
    BY <2>3, <2>4, <2>5
<1> QED
  BY <1>1, <1>2 DEF ServingConfigSound

(***************************************************************************)
(* The inductive invariant of the requests implies what statuses mean.     *)
(***************************************************************************)
LEMMA StatusImplied == WorkInv => StatusMeansCause
<1> SUFFICES ASSUME WorkInv, NEW r \in Requests, work[r].pc = "answered"
             PROVE  IF work[r].kind = "status"
                    THEN work[r].status = 200
                         /\ work[r].connected = (work[r].fault.cause = "none")
                    ELSE Blames(adapter, work[r].fault, work[r].status)
  BY DEF StatusMeansCause, Blames
<1>1. Explained(work[r], adapter)
  BY DEF WorkInv
<1> QED
  BY <1>1 DEF Explained

(***************************************************************************)
(* The page limit of the handlers is the one the process was started with. *)
(***************************************************************************)
LEMMA PagesImplied == StartInv /\ WorkInv /\ OneConfiguration => PagesBounded
<1> SUFFICES ASSUME StartInv, WorkInv, OneConfiguration,
                    NEW r \in Requests, work[r].kind = "list", work[r].page # NoPage
             PROVE  /\ work[r].page.limit \in 1..held["bootstrap"].limits["fetchMaxPageSize"]
                    /\ work[r].page.offset >= 0
                    /\ work[r].page.offset % work[r].page.limit = 0
                    /\ work[r].pageSize = Missing => work[r].page.limit = DefaultQueryPageSize
  BY DEF PagesBounded
<1>1. work[r].pc # "idle"
  BY IdleFields DEF WorkInv, WellFormed
<1>2. phase \in Serving
  BY <1>1 DEF WorkInv
<1>3. held["bootstrap"] # Undefined /\ held["providers"] # Undefined
  BY <1>2 DEF StartInv, Serving, Started
<1>4. held["bootstrap"] = held["providers"]
  BY <1>3 DEF OneConfiguration, Readers
<1> QED
  BY <1>4 DEF WorkInv, Paged, MaxPageSize, Config

(***************************************************************************)
(* Both invariants hold in every reachable state.                          *)
(***************************************************************************)
LEMMA ServiceInvariant == Spec => [](StartInv /\ WorkInv)
BY StartInit, WorkInit, StartStep, WorkStep, PTL DEF Spec

(***************************************************************************)
(* The variables have their types, and requests are under way only in a    *)
(* process that serves.                                                    *)
(***************************************************************************)
THEOREM TypeCorrect == Spec => []TypeOK
BY ServiceInvariant, TypeImplied, PTL

(***************************************************************************)
(* Whatever documents and edits there are, whatever the environment: no    *)
(* part of the process gets a configuration that the rest of the service   *)
(* cannot run on, and a process that serves has all of it, with the        *)
(* adapter of the database's engine (runtime-config.ts:527-692,            *)
(* db.conf.ts:30-106, database.providers.ts).                              *)
(***************************************************************************)
THEOREM ConfigurationServes == Spec => []ServingConfigSound
BY ServiceInvariant, ServableImplied, PTL

(***************************************************************************)
(* However many requests there are, whatever errors the drivers throw (as  *)
(* far as their codes mean what ErrorsAssumption says) and whatever their  *)
(* messages match: a 4xx never blames the request for the operator's       *)
(* fault, a lost database is a 503 or a 500, a missing driver a 503, and   *)
(* the status endpoint tells whether its statement went through            *)
(* (api-exception.filter.ts:59-254, status.service.ts:133-158).            *)
(***************************************************************************)
THEOREM StatusTellsCause == Spec => []StatusMeansCause
BY ServiceInvariant, StatusImplied, PTL

(***************************************************************************)
(* For any page arguments and any limit: no list request makes the         *)
(* database return more rows than the configured maximum, or none, or      *)
(* start anywhere but at a page (data-access.controller.ts:244-257 and     *)
(* 573-621).                                                               *)
(***************************************************************************)
THEOREM PagesWithinLimit == Spec => []PagesBounded
BY ServiceInvariant, ConfigurationIsOne, PagesImplied, PTL
=============================================================================
