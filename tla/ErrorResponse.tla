---------------------------- MODULE ErrorResponse ----------------------------
(***************************************************************************)
(* The error model: core/error.{hpp,cpp} and                               *)
(* adapters/http/error_response.cpp.  A message is for people and is left  *)
(* out; the code and the type are what a client branches on.               *)
(***************************************************************************)
EXTENDS Integers

ErrorCodes == {"malformed_request", "payload_too_large", "invalid_index_uid",
               "unknown_field", "index_already_exists", "route_not_found",
               "internal"}

(* One table from code to type, so that the two cannot disagree. *)
ErrorType(code) ==
    CASE code = "route_not_found" -> "not_found"
      [] code = "internal" -> "internal"
      [] OTHER -> "invalid_request"

WireStatus(code) ==
    CASE code = "payload_too_large" -> 413
      [] code = "index_already_exists" -> 409
      [] code = "route_not_found" -> 404
      [] code = "internal" -> 500
      [] OTHER -> 400

(* A response's body: nothing yet, a route's own JSON, or FR-71's object.  *)
NoBody == [kind |-> "none"]
Json(content) == [kind |-> "json", content |-> content]
ErrorBody(code) == [kind |-> "error", code |-> code, type |-> ErrorType(code)]

Response(status, body) == [status |-> status, body |-> body]
ErrorResponse(code) == Response(WireStatus(code), ErrorBody(code))

(* Mutant: the library's own 404 is not told apart. *)
CodeForAnyStatus(status) ==
    IF status >= 500 THEN "internal" ELSE "malformed_request"

(* error_for_library_status: a status cpp-httplib set on its own. *)
CodeForLibraryStatus(status) ==
    CASE status = 404 -> "route_not_found"
      [] status = 413 -> "payload_too_large"
      [] status >= 500 -> "internal"
      [] OTHER -> "malformed_request"
==============================================================================
