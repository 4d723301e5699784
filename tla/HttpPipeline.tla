---------------------------- MODULE HttpPipeline -----------------------------
(***************************************************************************)
(* One request on its way through adapters/http/httplib_server.cpp, and    *)
(* the response that the library, adapt(), the route's handler and three   *)
(* hooks write in turn.  Requests share nothing on this way (the generator *)
(* of ids is thread_local), so one at a time is every request.             *)
(*                                                                         *)
(* External: cpp-httplib reads the request and may refuse it with a status *)
(* of its own; it finds the route; it catches what a handler throws and    *)
(* calls the exception hook; it calls the error hook for a status of 400   *)
(* or more and the post-routing hook for every response.  set_header()     *)
(* adds a header line and replaces none.                                   *)
(***************************************************************************)
EXTENDS ErrorResponse, Sequences

CONSTANTS
    GoodIds,            \* values is_acceptable_request_id() accepts
    BadIds,             \* values it refuses, and no header at all
    FreshIds,           \* what generate_request_id() returns, acceptable too
    NoId,               \* the empty id: no header line
    NoRequest,          \* nothing received yet
    LibraryStatuses     \* what the library refuses a request with

ASSUME IdsAssumption ==
    /\ GoodIds \cap BadIds = {}
    /\ FreshIds # {} /\ FreshIds \subseteq GoodIds
    /\ NoId \notin GoodIds \cup BadIds

ASSUME LibraryStatusesAssumption ==
    \A status \in LibraryStatuses : status \in Nat /\ status >= 400

VARIABLES
    pc,         \* where the request is
    request,    \* the request being served
    ids,        \* the response's X-Request-Id header lines
    response,   \* the response's status and body
    given,      \* HttpRequest::request_id, once the handler was called
    handled,    \* what the handler returned
    logged      \* the ids report_handler_exception() logged

vars == <<pc, request, ids, response, given, handled, logged>>

Routes == {"health", "indexes", "documents"}

(* A refusal of 0 is a request the library accepts.                        *)
Requests == [target: Routes \cup {"unknown"}, id: GoodIds \cup BadIds,
             isJson: BOOLEAN, refusal: {0} \cup LibraryStatuses]

NoResponse == Response(0, NoBody)

(* What a route's handler can return, from system_routes.cpp,              *)
(* index_routes.cpp and document_routes.cpp.                               *)
Outcomes(route) ==
    CASE route = "health" ->
            {Response(200, Json("available")), Response(503, Json("starting"))}
      [] route = "indexes" ->
            {Response(201, Json("index"))} \cup
            {ErrorResponse(code) : code \in
                {"malformed_request", "unknown_field", "invalid_index_uid",
                 "index_already_exists"}}
      [] route = "documents" ->
            {Response(200, Json("result"))} \cup
            {ErrorResponse(code) : code \in
                {"malformed_request", "invalid_index_uid"}}

Responses ==
    {NoResponse} \cup {Response(status, NoBody) : status \in LibraryStatuses \cup {404}}
      \cup {ErrorResponse(code) : code \in ErrorCodes}
      \cup UNION {Outcomes(route) : route \in Routes}

(* Every POST takes a JSON body. *)
ExpectsJsonBody(route) == route # "health"

Goto(place) == pc' = place

Init ==
    /\ pc = "idle"
    /\ request = NoRequest
    /\ ids = <<>>
    /\ response = NoResponse
    /\ given = NoId
    /\ handled = NoResponse
    /\ logged = <<>>

(* Mutant: the inbound id is echoed whatever it holds. *)
EchoedIds == {request.id}

(* The ids resolve_request_id() can return. *)
ResolvedIds == IF request.id \in GoodIds THEN {request.id} ELSE FreshIds

SetIdHeader == \E id \in ResolvedIds : ids' = Append(ids, id)

(* cpp-httplib starts a request with a response of its own. *)
Receive ==
    /\ pc = "idle"
    /\ request' \in Requests
    /\ ids' = <<>>
    /\ response' = NoResponse
    /\ given' = NoId
    /\ handled' = NoResponse
    /\ logged' = <<>>
    /\ Goto("route")

(* A request line it cannot parse, a body or a URI over its limit, ...     *)
(* Nothing of ours has run.                                                *)
Refuse ==
    /\ pc = "route"
    /\ request.refusal # 0
    /\ response' = [response EXCEPT !.status = request.refusal]
    /\ Goto("error hook")
    /\ UNCHANGED <<request, ids, given, handled, logged>>

NoRoute ==
    /\ pc = "route"
    /\ request.refusal = 0
    /\ request.target = "unknown"
    /\ response' = [response EXCEPT !.status = 404]
    /\ Goto("error hook")
    /\ UNCHANGED <<request, ids, given, handled, logged>>

(* add_route() registered adapt(handler) for it. *)
Dispatch ==
    /\ pc = "route"
    /\ request.refusal = 0
    /\ request.target \in Routes
    /\ Goto("adapt")
    /\ UNCHANGED <<request, ids, response, given, handled, logged>>

(* The id header, before anything else. *)
SetRequestId ==
    /\ pc = "adapt"
    /\ SetIdHeader
    /\ Goto("content")
    /\ UNCHANGED <<request, response, given, handled, logged>>

(* Mutant: the handler is given an id that is resolved a second time. *)
AdaptResolvingAgain ==
    /\ pc = "content"
    /\ IF ExpectsJsonBody(request.target) /\ ~request.isJson
       THEN /\ response' = ErrorResponse("malformed_request")
            /\ Goto("error hook")
            /\ UNCHANGED given
       ELSE /\ given' \in ResolvedIds
            /\ Goto("handler")
            /\ UNCHANGED response
    /\ UNCHANGED <<request, ids, handled, logged>>

(* The rest of adapt() up to the handler: FR-70, and the neutral request.  *)
Adapt ==
    /\ pc = "content"
    /\ IF ExpectsJsonBody(request.target) /\ ~request.isJson
       THEN /\ response' = ErrorResponse("malformed_request")
            /\ Goto("error hook")
            /\ UNCHANGED given
       ELSE /\ given' = ids[1]
            /\ Goto("handler")
            /\ UNCHANGED response
    /\ UNCHANGED <<request, ids, handled, logged>>

(* write_response(response, handler(neutral)) *)
Handle ==
    /\ pc = "handler"
    /\ \E outcome \in Outcomes(request.target) :
          handled' = outcome /\ response' = outcome
    /\ Goto("error hook")
    /\ UNCHANGED <<request, ids, given, logged>>

FirstId == IF ids = <<>> THEN NoId ELSE ids[1]

(* Mutant: the hook logs the header the client sent. *)
ThrowInboundId ==
    /\ pc \in {"adapt", "content", "handler"}
    /\ logged' = <<request.id>>
    /\ response' = ErrorResponse("internal")
    /\ Goto("error hook")
    /\ UNCHANGED <<request, ids, given, handled>>

(* report_handler_exception(): the handler threw, or adapt() at any place  *)
(* before it (std::random_device and every string allocation may).  It     *)
(* logs the response's header, which is empty when there is none yet.      *)
Throw ==
    /\ pc \in {"adapt", "content", "handler"}
    /\ logged' = <<FirstId>>
    /\ response' = ErrorResponse("internal")
    /\ Goto("error hook")
    /\ UNCHANGED <<request, ids, given, handled>>

(* Mutant: every error is rewritten from its status. *)
FillEveryError ==
    /\ pc = "error hook"
    /\ response' = IF response.status >= 400
                   THEN ErrorResponse(CodeForLibraryStatus(response.status))
                   ELSE response
    /\ Goto("id hook")
    /\ UNCHANGED <<request, ids, given, handled, logged>>

(* Mutant: only a server error is given a body. *)
FillServerError ==
    /\ pc = "error hook"
    /\ response' = IF response.status >= 500 /\ response.body = NoBody
                   THEN ErrorResponse("internal")
                   ELSE response
    /\ Goto("id hook")
    /\ UNCHANGED <<request, ids, given, handled, logged>>

(* fill_library_error(), which the library calls from status 400 on. *)
FillLibraryError ==
    /\ pc = "error hook"
    /\ response' = IF response.status >= 400 /\ response.body = NoBody
                   THEN ErrorResponse(CodeForLibraryStatus(response.status))
                   ELSE response
    /\ Goto("id hook")
    /\ UNCHANGED <<request, ids, given, handled, logged>>

(* Mutant: the hook does not look whether the header is there. *)
AddRequestId ==
    /\ pc = "id hook"
    /\ SetIdHeader
    /\ Goto("sent")
    /\ UNCHANGED <<request, response, given, handled, logged>>

EnsureRequestId ==
    /\ pc = "id hook"
    /\ IF ids = <<>> THEN SetIdHeader ELSE UNCHANGED ids
    /\ Goto("sent")
    /\ UNCHANGED <<request, response, given, handled, logged>>

(* The bytes are written; the connection waits for its next request. *)
Finish ==
    /\ pc = "sent"
    /\ Goto("idle")
    /\ UNCHANGED <<request, ids, response, given, handled, logged>>

Next ==
    \/ Receive \/ Refuse \/ NoRoute \/ Dispatch \/ SetRequestId \/ Adapt \/ Handle
    \/ Throw \/ FillLibraryError \/ EnsureRequestId \/ Finish

Spec == Init /\ [][Next]_vars

-----------------------------------------------------------------------------
Places ==
    {"idle", "route", "adapt", "content", "handler", "error hook", "id hook", "sent"}
Ids == GoodIds \cup BadIds \cup FreshIds \cup {NoId}

(* Every variable has its type. *)
TypeOK ==
    /\ pc \in Places
    /\ request \in Requests \cup {NoRequest}
    /\ ids \in Seq(GoodIds \cup FreshIds)
    /\ response \in Responses
    /\ given \in Ids
    /\ handled \in Responses
    /\ logged \in Seq(Ids)

(* FR-73, httplib_server.hpp: every response carries X-Request-Id, the     *)
(* client's own where it is safe to echo, and only one, whichever of       *)
(* adapt() and the post-routing hook had to set it.                        *)
OneRequestId ==
    pc = "sent" =>
        /\ Len(ids) = 1
        /\ IF request.id \in GoodIds THEN ids[1] = request.id
                                     ELSE ids[1] \in FreshIds

(* http_server.hpp:36: the handler works under the id the client sees.     *)
HandlerKnowsTheId == pc = "sent" /\ given # NoId => given = FirstId

(* 02-api-guide.md 6: "internal (details in server log, correlated by      *)
(* X-Request-Id)": what was logged is found under the id in the response.  *)
LoggedUnderTheId == pc = "sent" => \A i \in DOMAIN logged : logged[i] = FirstId

(* The part of it that holds: what a handler throws is logged under the id *)
(* the client is sent, the one the handler itself was given.               *)
HandlersLogUnderTheId == given # NoId => LoggedUnderTheId

(* FR-71, httplib_server.hpp: an error's body carries a code and a type    *)
(* that fit its status, whoever set the status.  GET /health's 503 is the  *)
(* one other body the API has (02-api-spec.yaml, /health).                 *)
ErrorsAreExplained ==
    pc = "sent" /\ response.status >= 400 =>
        \/ \E code \in ErrorCodes : response = ErrorResponse(code)
        \/ request.target = "health" /\ response = Response(503, Json("starting"))

(* What a handler returned is what the client gets: no hook rewrites it,   *)
(* and only an exception stands in for it.                                 *)
HandlersAnswerStands ==
    pc = "sent" /\ handled # NoResponse => response = handled /\ logged = <<>>

(* A client can branch on the code: 404 exactly when no route matched, 413 *)
(* exactly when a limit was passed, 500 only when something failed inside, *)
(* 200 or 201 to a POST only when a JSON body was handled.                 *)
CodesMeanWhatTheySay ==
    pc = "sent" =>
        /\ response.status = 404 <=>
              IF request.refusal = 0 THEN request.target = "unknown"
                                     ELSE request.refusal = 404
        /\ response.status = 413 <=> request.refusal = 413
        /\ response.status = 500 => logged # <<>> \/ request.refusal >= 500
        /\ response.status \in {200, 201} =>
              ~ExpectsJsonBody(request.target) \/ request.isJson

-----------------------------------------------------------------------------
(* The inductive invariant: the id header at each place, and the ways a    *)
(* response comes about.                                                   *)

IdSet ==
    /\ Len(ids) = 1
    /\ IF request.id \in GoodIds THEN ids[1] = request.id
                                 ELSE ids[1] \in FreshIds

IdsOK ==
    \/ ids = <<>> /\ pc # "sent" /\ given = NoId
    \/ IdSet /\ (given # NoId => given = ids[1])

Routed == request.refusal = 0 /\ request.target \in Routes
JsonWhereExpected == ExpectsJsonBody(request.target) => request.isJson
Unanswered == response = NoResponse /\ handled = NoResponse /\ logged = <<>>

(* The error hook explains a status the library set on its own. *)
LibraryStatus == IF request.refusal = 0 THEN 404 ELSE request.refusal
FromLibrary ==
    /\ ~Routed
    /\ handled = NoResponse /\ logged = <<>>
    /\ response = IF pc = "error hook" THEN Response(LibraryStatus, NoBody)
                  ELSE ErrorResponse(CodeForLibraryStatus(LibraryStatus))

FromAdapt ==
    /\ Routed
    /\ handled = NoResponse /\ logged = <<>>
    /\ response = ErrorResponse("malformed_request")

FromHandler ==
    /\ Routed /\ JsonWhereExpected
    /\ handled \in Outcomes(request.target)
    /\ response = handled /\ logged = <<>>

FromException ==
    /\ Routed
    /\ handled = NoResponse /\ Len(logged) = 1
    /\ response = ErrorResponse("internal")
    /\ given # NoId => logged[1] = given

Inv ==
    /\ TypeOK /\ IdsOK
    /\ pc # "idle" => request \in Requests
    /\ pc \in {"route", "adapt", "content", "handler"} => Unanswered
    /\ pc \in {"route", "adapt"} => ids = <<>>
    /\ pc \in {"adapt", "content", "handler"} => Routed
    /\ pc \in {"content", "handler"} => ids # <<>>
    /\ pc = "handler" => JsonWhereExpected
    /\ pc \in {"error hook", "id hook", "sent"} =>
          FromLibrary \/ FromAdapt \/ FromHandler \/ FromException
==============================================================================
