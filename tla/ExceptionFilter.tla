-------------------------- MODULE ExceptionFilter --------------------------
(***************************************************************************)
(* ApiExceptionFilter (filters/api-exception.filter.ts): the HTTP status   *)
(* of a thrown value.                                                      *)
(*                                                                         *)
(* An exception of Nest or of the authentication brings its status along.  *)
(* Anything else is a driver's error, or is treated as one: it is put into *)
(* a class by its code and by the words of its message, first match wins.  *)
(* Codes are compared as text, so the model has them as strings; a message *)
(* is the set of the patterns it matches.                                  *)
(***************************************************************************)
CONSTANT Undefined  \* JavaScript's undefined

Patterns == {"driver", "connectivity"}

ConnectivityCodes == {"ECONNREFUSED", "ENOTFOUND", "ETIMEDOUT", "ESOCKET", "ELOGIN"}

ConflictCodes == {"23505", "23503", "1062", "1451", "1452", "2627", "2601", "547"}

QueryCodes == {"42601", "42P01", "42703", "1064", "1146", "1054", "102", "207", "208"}

\* A thrown value: its class, the status it brings or the fields of a driver error.
Thrown(status) == [class |-> "http", status |-> status]

Failed(code, errno, number, message) ==
    [class |-> "error", code |-> code, errno |-> errno, number |-> number,
     message |-> message]

(***************************************************************************)
(* code ?? errno ?? number ?? originalError.info.number: one field hides   *)
(* the ones after it.  The last two are one number, given in two places.   *)
(***************************************************************************)
ReadErrorCode(e) ==
    IF e.code # Undefined THEN e.code
    ELSE IF e.errno # Undefined THEN e.errno
    ELSE e.number

IsMissingDriverError(e) == "driver" \in e.message

IsConnectivityError(e) ==
    ReadErrorCode(e) \in ConnectivityCodes \/ "connectivity" \in e.message

\* Slip: the codes of a rejected statement are taken for conflicts.
IsConstraintConflictLoose(e) == ReadErrorCode(e) \in ConflictCodes \cup QueryCodes

IsConstraintConflict(e) == ReadErrorCode(e) \in ConflictCodes

IsQueryError(e) == ReadErrorCode(e) \in QueryCodes

TranslateUnknownException(e) ==
    IF IsMissingDriverError(e) \/ IsConnectivityError(e) THEN 503
    ELSE IF IsConstraintConflict(e) THEN 409
    ELSE IF IsQueryError(e) THEN 400
    ELSE 500

\* catch: what the response's status line says.
NormalizeException(e) ==
    IF e.class = "http" THEN e.status ELSE TranslateUnknownException(e)
=============================================================================
