------------------------- MODULE HttpPipelineProofs --------------------------
(* What every response of HttpPipeline carries, proved for all sets of ids *)
(* and of statuses the library may refuse a request with.                  *)
EXTENDS HttpPipeline, TLAPS

USE DEF Response

-----------------------------------------------------------------------------
(* Responses.                                                              *)

Explained(answer) == \E code \in ErrorCodes : answer = ErrorResponse(code)

(* Every status the library may leave behind gets a code of the model.     *)
LEMMA LibraryCodes ==
    ASSUME NEW status \in Nat
    PROVE  /\ CodeForLibraryStatus(status) \in ErrorCodes
           /\ WireStatus(CodeForLibraryStatus(status)) = 404 <=> status = 404
           /\ WireStatus(CodeForLibraryStatus(status)) = 413 <=> status = 413
           /\ WireStatus(CodeForLibraryStatus(status)) = 500 => status >= 500
    BY DEF CodeForLibraryStatus, ErrorCodes, WireStatus

(* An error's status is that of its code, and its body is there.           *)
LEMMA ErrorResponses ==
    ASSUME NEW code \in ErrorCodes
    PROVE  /\ ErrorResponse(code) \in Responses
           /\ ErrorResponse(code).status = WireStatus(code)
           /\ ErrorResponse(code).status >= 400
           /\ ErrorResponse(code).status \in Nat
           /\ ErrorResponse(code).body # NoBody
           /\ ErrorResponse(code) # NoResponse
    <1>1. ErrorResponse(code) \in Responses
      BY DEF Responses
    <1>2. /\ ErrorResponse(code).status = WireStatus(code)
          /\ ErrorResponse(code).body = ErrorBody(code)
      BY DEF ErrorResponse
    <1>3. WireStatus(code) \in Nat /\ WireStatus(code) >= 400
      BY DEF WireStatus, ErrorCodes
    <1>4. ErrorBody(code) # NoBody
      <2>1. ErrorBody(code).kind = "error" /\ NoBody.kind = "none"
        BY DEF ErrorBody, NoBody
      <2> QED BY <2>1
    <1>5. NoResponse.status = 0
      BY DEF NoResponse
    <1> QED BY <1>1, <1>2, <1>3, <1>4, <1>5

(* What a handler can return is an answer: it has a body, an error of it   *)
(* is explained, and its status is none the library or the exception hook  *)
(* uses.                                                                   *)
LEMMA HandlerOutcomes ==
    ASSUME NEW route \in Routes, NEW outcome \in Outcomes(route)
    PROVE  /\ outcome \in Responses
           /\ outcome # NoResponse
           /\ outcome.body # NoBody
           /\ outcome.status \in Nat
           /\ outcome.status \notin {404, 413, 500}
           /\ outcome.status >= 400 =>
                 Explained(outcome)
                 \/ (route = "health" /\ outcome = Response(503, Json("starting")))
    <1>1. outcome \in Responses
      BY DEF Responses
    <1>2. ASSUME NEW status \in Nat \ {0}, NEW content,
                 outcome = Response(status, Json(content))
          PROVE  /\ outcome # NoResponse /\ outcome.body # NoBody
                 /\ outcome.status = status
      <2>1. outcome.status = status /\ outcome.body = Json(content)
        BY <1>2
      <2>2. Json(content).kind = "json" /\ NoBody.kind = "none"
        BY DEF Json, NoBody
      <2>3. NoResponse.status = 0
        BY DEF NoResponse
      <2> QED BY <2>1, <2>2, <2>3
    <1>3. ASSUME NEW code \in ErrorCodes \ {"payload_too_large", "route_not_found", "internal"},
                 outcome = ErrorResponse(code)
          PROVE  /\ outcome # NoResponse /\ outcome.body # NoBody
                 /\ outcome.status \in Nat
                 /\ outcome.status \notin {404, 413, 500}
                 /\ Explained(outcome)
      BY <1>3, ErrorResponses DEF WireStatus, ErrorCodes, Explained
    <1>4. CASE route = "health"
      <2>1. outcome = Response(200, Json("available")) \/ outcome = Response(503, Json("starting"))
        BY <1>4 DEF Outcomes
      <2> QED BY <1>1, <1>2, <1>4, <2>1
    <1>5. CASE route = "indexes"
      <2>1. \/ outcome = Response(201, Json("index"))
            \/ \E code \in {"malformed_request", "unknown_field",
                            "invalid_index_uid", "index_already_exists"} :
                  outcome = ErrorResponse(code)
        BY <1>5 DEF Outcomes
      <2>2. CASE outcome = Response(201, Json("index"))
        BY <1>1, <1>2, <2>2
      <2>3. CASE outcome # Response(201, Json("index"))
        BY <1>1, <1>3, <2>1, <2>3 DEF ErrorCodes
      <2> QED BY <2>2, <2>3
    <1>6. CASE route = "documents"
      <2>1. \/ outcome = Response(200, Json("result"))
            \/ \E code \in {"malformed_request", "invalid_index_uid"} :
                  outcome = ErrorResponse(code)
        BY <1>6 DEF Outcomes
      <2>2. CASE outcome = Response(200, Json("result"))
        BY <1>1, <1>2, <2>2
      <2>3. CASE outcome # Response(200, Json("result"))
        BY <1>1, <1>3, <2>1, <2>3 DEF ErrorCodes
      <2> QED BY <2>2, <2>3
    <1> QED BY <1>4, <1>5, <1>6 DEF Routes

-----------------------------------------------------------------------------
(* The invariant.                                                          *)

(* What resolve_request_id() returns is what FR-73 asks for.               *)
LEMMA Resolved ==
    ASSUME NEW r \in Requests, NEW id \in (IF r.id \in GoodIds THEN {r.id} ELSE FreshIds)
    PROVE  /\ id \in GoodIds \cup FreshIds
           /\ IF r.id \in GoodIds THEN id = r.id ELSE id \in FreshIds
           /\ id # NoId
    BY IdsAssumption DEF Requests

LEMMA InitInv == Init => Inv
    BY DEF Init, Inv, TypeOK, IdsOK, Places, Ids, Responses

(* No handler was called for a response without a header.                  *)
LEMMA NoHeader ==
    ASSUME IdsOK, ids = <<>>
    PROVE  given = NoId
    <1>1. Len(ids) = 0
      OBVIOUS
    <1> QED BY <1>1 DEF IdsOK, IdSet

(* A header set on a response that has none is the one header.             *)
LEMMA FirstHeader ==
    ASSUME Inv, request \in Requests, ids = <<>>, SetIdHeader
    PROVE  /\ ids' \in Seq(GoodIds \cup FreshIds)
           /\ Len(ids') = 1 /\ ids' # <<>>
           /\ ids'[1] \in GoodIds \cup FreshIds
           /\ ids'[1] # NoId
           /\ IF request.id \in GoodIds THEN ids'[1] = request.id
                                        ELSE ids'[1] \in FreshIds
    <1>1. PICK id \in ResolvedIds : ids' = Append(ids, id)
      BY DEF SetIdHeader
    <1>2. /\ id \in GoodIds \cup FreshIds
          /\ id # NoId
          /\ IF request.id \in GoodIds THEN id = request.id ELSE id \in FreshIds
      BY <1>1, Resolved DEF ResolvedIds
    <1>3. ids' = <<id>>
      BY <1>1
    <1> QED BY <1>2, <1>3

LEMMA NextInv ==
    ASSUME Inv, Next
    PROVE  Inv'
    <1> USE DEF Places, Goto
    <1>1. CASE Receive
      <2>1. /\ pc' = "route" /\ request' \in Requests
            /\ ids' = <<>> /\ given' = NoId /\ Unanswered'
        BY <1>1 DEF Receive, Unanswered
      <2>2. TypeOK'
        BY <2>1 DEF TypeOK, Unanswered, Responses, Ids
      <2> QED BY <2>1, <2>2 DEF Inv, IdsOK
    <1>2. CASE Refuse \/ NoRoute
      <2>1. /\ request \in Requests /\ ids = <<>> /\ given = NoId
            /\ handled = NoResponse /\ logged = <<>> /\ response = NoResponse
        BY <1>2, NoHeader DEF Inv, Unanswered, Refuse, NoRoute
      <2>2. /\ pc' = "error hook" /\ ~Routed'
            /\ response' = Response(LibraryStatus, NoBody)'
        BY <1>2, <2>1 DEF Refuse, NoRoute, Routed, Routes, LibraryStatus, NoResponse
      <2>3. UNCHANGED <<request, ids, given, handled, logged>>
        BY <1>2 DEF Refuse, NoRoute
      <2>4. response' \in Responses
        <3>1. LibraryStatus' \in LibraryStatuses \cup {404}
          BY <2>1, <2>3 DEF LibraryStatus, Requests
        <3>2. response' = Response(LibraryStatus', NoBody)
          BY <2>2 DEF NoBody
        <3>3. response' \in {Response(status, NoBody) : status \in LibraryStatuses \cup {404}}
          BY <3>1, <3>2
        <3> QED BY <3>3 DEF Responses
      <2>5. TypeOK'
        BY <2>2, <2>3, <2>4 DEF Inv, TypeOK
      <2>6. FromLibrary'
        BY <2>1, <2>2, <2>3 DEF FromLibrary
      <2> QED BY <2>1, <2>2, <2>3, <2>5, <2>6 DEF Inv, IdsOK
    <1>3. CASE Dispatch
      BY <1>3 DEF Dispatch, Inv, TypeOK, IdsOK, IdSet, Routed, Unanswered
    <1>4. CASE SetRequestId
      <2>1. /\ request \in Requests /\ ids = <<>> /\ Routed /\ Unanswered
            /\ given = NoId
        BY <1>4, NoHeader DEF SetRequestId, Inv
      <2>2. /\ ids' \in Seq(GoodIds \cup FreshIds)
            /\ ids' # <<>>
            /\ IdSet'
        BY <1>4, <2>1, FirstHeader DEF SetRequestId, IdSet
      <2>3. pc' = "content" /\ UNCHANGED <<request, response, given, handled, logged>>
        BY <1>4 DEF SetRequestId
      <2>4. TypeOK' /\ IdsOK'
        BY <2>1, <2>2, <2>3 DEF Inv, TypeOK, IdsOK
      <2> QED BY <2>1, <2>2, <2>3, <2>4 DEF Inv, Routed, Unanswered
    <1>5. CASE Adapt
      <2>1. /\ request \in Requests /\ ids # <<>> /\ Routed /\ Unanswered
            /\ IdSet /\ (given # NoId => given = ids[1])
            /\ ids[1] \in GoodIds \cup FreshIds
        BY <1>5 DEF Adapt, Inv, IdsOK, IdSet, TypeOK
      <2>2. UNCHANGED <<request, ids, handled, logged>> /\ IdSet'
        BY <1>5, <2>1 DEF Adapt, IdSet
      <2>4. CASE ExpectsJsonBody(request.target) /\ ~request.isJson
        <3>1. /\ pc' = "error hook" /\ given' = given
              /\ response' = ErrorResponse("malformed_request")
          BY <1>5, <2>4 DEF Adapt
        <3>2. response' \in Responses
          BY <3>1, ErrorResponses DEF ErrorCodes
        <3>3. FromAdapt'
          BY <2>1, <2>2, <3>1 DEF FromAdapt, Routed, Unanswered
        <3>4. TypeOK' /\ IdsOK'
          BY <2>1, <2>2, <3>1, <3>2 DEF Inv, TypeOK, IdsOK
        <3> QED BY <2>1, <2>2, <3>1, <3>3, <3>4 DEF Inv
      <2>5. CASE ~(ExpectsJsonBody(request.target) /\ ~request.isJson)
        <3>1. /\ pc' = "handler" /\ given' = ids[1] /\ response' = response
          BY <1>5, <2>5 DEF Adapt
        <3>2. JsonWhereExpected'
          BY <2>2, <2>5 DEF JsonWhereExpected
        <3>3. Routed' /\ Unanswered'
          BY <2>1, <2>2, <3>1 DEF Routed, Unanswered
        <3>4. TypeOK' /\ IdsOK'
          BY <2>1, <2>2, <3>1 DEF Inv, TypeOK, Ids, IdsOK
        <3> QED BY <2>1, <2>2, <3>1, <3>2, <3>3, <3>4 DEF Inv
      <2> QED BY <2>4, <2>5
    <1>6. CASE Handle
      <2>1. /\ request \in Requests /\ Routed /\ Unanswered
            /\ JsonWhereExpected /\ ids # <<>>
        BY <1>6 DEF Handle, Inv
      <2>2. PICK outcome \in Outcomes(request.target) :
                handled' = outcome /\ response' = outcome
        BY <1>6 DEF Handle
      <2>3. outcome \in Responses
        BY <2>1, <2>2, HandlerOutcomes DEF Routed
      <2>4. /\ pc' = "error hook"
            /\ UNCHANGED <<request, ids, given, logged>>
        BY <1>6 DEF Handle
      <2>5. FromHandler'
        BY <2>1, <2>2, <2>4 DEF FromHandler, Routed, Unanswered, JsonWhereExpected
      <2>6. TypeOK' /\ IdsOK'
        BY <2>2, <2>3, <2>4 DEF Inv, TypeOK, IdsOK, IdSet
      <2> QED BY <2>1, <2>4, <2>5, <2>6 DEF Inv
    <1>7. CASE Throw
      <2>1. /\ request \in Requests /\ Routed /\ Unanswered
            /\ given # NoId => FirstId = given
        <3>1. request \in Requests /\ Routed /\ Unanswered
          BY <1>7 DEF Throw, Inv
        <3>2. given # NoId => FirstId = given
          <4>1. IdsOK /\ ids \in Seq(GoodIds \cup FreshIds)
            BY DEF Inv, TypeOK
          <4> QED BY <4>1 DEF IdsOK, IdSet, FirstId
        <3> QED BY <3>1, <3>2
      <2>2. /\ pc' = "error hook"
            /\ logged' = <<FirstId>>
            /\ response' = ErrorResponse("internal")
            /\ UNCHANGED <<request, ids, given, handled>>
        BY <1>7 DEF Throw
      <2>3. FirstId \in Ids
        BY DEF FirstId, Inv, TypeOK, IdsOK, IdSet, Ids
      <2>4. response' \in Responses
        BY <2>2, ErrorResponses DEF ErrorCodes
      <2>5. FromException'
        BY <2>1, <2>2 DEF FromException, Routed, Unanswered
      <2>6. TypeOK' /\ IdsOK'
        <3>1. ASSUME NEW id \in Ids
              PROVE  <<id>> \in Seq(Ids)
          OBVIOUS
        <3>2. logged' \in Seq(Ids)
          BY <2>2, <2>3, <3>1
        <3> QED BY <2>2, <2>4, <3>2 DEF Inv, TypeOK, IdsOK, IdSet
      <2> QED BY <2>1, <2>2, <2>5, <2>6 DEF Inv
    <1>8. CASE FillLibraryError
      <2>1. /\ request \in Requests /\ pc = "error hook"
            /\ FromLibrary \/ FromAdapt \/ FromHandler \/ FromException
        BY <1>8 DEF FillLibraryError, Inv
      <2>2. /\ pc' = "id hook"
            /\ UNCHANGED <<request, ids, given, handled, logged>>
        BY <1>8 DEF FillLibraryError
      <2>3. IdsOK'
        BY <2>2 DEF Inv, IdsOK, IdSet
      <2>4. CASE FromLibrary
        <3>1. LibraryStatus \in Nat /\ LibraryStatus >= 400
          <4>1. request.refusal \in {0} \cup LibraryStatuses
            BY <2>1 DEF Requests
          <4> QED BY <4>1, LibraryStatusesAssumption DEF LibraryStatus
        <3>2. response' = ErrorResponse(CodeForLibraryStatus(LibraryStatus))
          BY <1>8, <2>1, <2>4, <3>1 DEF FillLibraryError, FromLibrary
        <3>3. response' \in Responses
          BY <3>1, <3>2, LibraryCodes, ErrorResponses
        <3>4. FromLibrary'
          BY <2>2, <2>4, <3>2 DEF FromLibrary, Routed, LibraryStatus
        <3> QED BY <2>1, <2>2, <2>3, <3>3, <3>4 DEF Inv, TypeOK
      <2>5. CASE ~FromLibrary
        <3>1. response.body # NoBody
          <4>1. CASE FromHandler
            BY <4>1, HandlerOutcomes DEF FromHandler, Routed
          <4>2. CASE FromAdapt \/ FromException
            BY <4>2, ErrorResponses DEF FromAdapt, FromException, ErrorCodes
          <4> QED BY <2>1, <2>5, <4>1, <4>2
        <3>2. response' = response
          BY <1>8, <3>1 DEF FillLibraryError
        <3>3. FromAdapt' \/ FromHandler' \/ FromException'
          BY <2>1, <2>2, <2>5, <3>2
             DEF FromAdapt, FromHandler, FromException, Routed, JsonWhereExpected
        <3> QED BY <2>1, <2>2, <2>3, <3>2, <3>3 DEF Inv, TypeOK
      <2> QED BY <2>4, <2>5
    <1>9. CASE EnsureRequestId
      <2>1. /\ request \in Requests /\ pc = "id hook"
            /\ FromLibrary \/ FromAdapt \/ FromHandler \/ FromException
        BY <1>9 DEF EnsureRequestId, Inv
      <2>2. /\ pc' = "sent"
            /\ UNCHANGED <<request, response, given, handled, logged>>
        BY <1>9 DEF EnsureRequestId
      <2>3. ids' \in Seq(GoodIds \cup FreshIds) /\ IdsOK'
        <3>1. CASE ids = <<>>
          <4>1. /\ ids' \in Seq(GoodIds \cup FreshIds)
                /\ IdSet'
            BY <1>9, <2>1, <2>2, <3>1, FirstHeader DEF EnsureRequestId, IdSet
          <4>2. given' = NoId
            BY <2>2, <3>1, NoHeader DEF Inv
          <4> QED BY <4>1, <4>2 DEF IdsOK
        <3>2. CASE ids # <<>>
          BY <1>9, <2>2, <3>2 DEF EnsureRequestId, Inv, TypeOK, IdsOK, IdSet
        <3> QED BY <3>1, <3>2
      <2>4. (FromLibrary \/ FromAdapt \/ FromHandler \/ FromException)'
        <3>1. CASE FromLibrary
          BY <2>1, <2>2, <3>1 DEF FromLibrary, Routed, LibraryStatus
        <3>2. CASE FromAdapt \/ FromHandler
          BY <2>2, <3>2 DEF FromAdapt, FromHandler, Routed, JsonWhereExpected
        <3>3. CASE FromException
          BY <1>9, <2>2, <3>3 DEF FromException, Routed, EnsureRequestId
        <3> QED BY <2>1, <3>1, <3>2, <3>3
      <2> QED BY <2>1, <2>2, <2>3, <2>4 DEF Inv, TypeOK
    <1>10. CASE Finish
      BY <1>10 DEF Finish, Inv, TypeOK, IdsOK, IdSet
    <1> QED BY <1>1, <1>2, <1>3, <1>4, <1>5, <1>6, <1>7, <1>8, <1>9, <1>10
        DEF Next

(* Inv is inductive: what the response holds at each place, for every      *)
(* order of library, adapt(), handler, exception and hooks.                *)
THEOREM PipelineInv == Spec => []Inv
    <1>1. Inv /\ [Next]_vars => Inv'
      <2>1. ASSUME Inv, UNCHANGED vars
            PROVE  Inv'
        BY <2>1 DEF vars, Inv, TypeOK, IdsOK, IdSet, Unanswered, Routed,
                    JsonWhereExpected, FromLibrary, FromAdapt, FromHandler,
                    FromException, LibraryStatus
      <2> QED BY <2>1, NextInv
    <1> QED BY <1>1, InitInv, PTL DEF Spec

-----------------------------------------------------------------------------
(* What a client may rely on.                                              *)

LEMMA SentResponses ==
    ASSUME Inv, pc = "sent"
    PROVE  /\ request \in Requests /\ IdSet
           /\ given # NoId => given = ids[1]
           /\ FromLibrary \/ FromAdapt \/ FromHandler \/ FromException
    BY DEF Inv, IdsOK

(* FR-73: every response carries one id, the client's own when it is safe  *)
(* to echo; adapt() and ensure_request_id() between them set it once.      *)
THEOREM EveryResponseHasOneId == Spec => []OneRequestId
    <1>1. Inv => OneRequestId
      BY SentResponses DEF OneRequestId, IdSet
    <1> QED BY <1>1, PipelineInv, PTL

(* The id a handler works under is the one in the response's header.       *)
THEOREM HandlersKnowTheId == Spec => []HandlerKnowsTheId
    <1>1. Inv => HandlerKnowsTheId
      <2> SUFFICES ASSUME Inv, pc = "sent", given # NoId
                   PROVE  given = FirstId
        BY DEF HandlerKnowsTheId
      <2>1. ids # <<>>
        BY NoHeader DEF Inv
      <2> QED BY <2>1, SentResponses DEF FirstId
    <1> QED BY <1>1, PipelineInv, PTL

(* What a response of each origin is.                                      *)
LEMMA LibraryAnswers ==
    ASSUME request \in Requests, pc = "sent", FromLibrary
    PROVE  /\ Explained(response)
           /\ response.status \in Nat /\ response.status >= 400
           /\ response.status = 404 <=> LibraryStatus = 404
           /\ response.status = 413 <=> LibraryStatus = 413
           /\ response.status = 500 => LibraryStatus >= 500
    <1>1. LibraryStatus \in Nat
      <2>1. request.refusal \in {0} \cup LibraryStatuses
        BY DEF Requests
      <2> QED BY <2>1, LibraryStatusesAssumption DEF LibraryStatus
    <1>2. response = ErrorResponse(CodeForLibraryStatus(LibraryStatus))
      BY DEF FromLibrary
    <1> QED BY <1>1, <1>2, LibraryCodes, ErrorResponses DEF Explained

LEMMA OurErrors ==
    ASSUME FromAdapt \/ FromException
    PROVE  /\ Explained(response)
           /\ FromAdapt => response.status = 400
           /\ FromException => response.status = 500
    <1>1. CASE FromAdapt
      BY <1>1, ErrorResponses DEF FromAdapt, FromException, ErrorCodes, WireStatus, Explained
    <1>2. CASE FromException
      BY <1>2, ErrorResponses DEF FromAdapt, FromException, ErrorCodes, WireStatus, Explained
    <1> QED BY <1>1, <1>2

(* FR-71: the body of an error carries the code and the type that fit its  *)
(* status, whoever wrote it, the library included.                         *)
THEOREM EveryErrorIsExplained == Spec => []ErrorsAreExplained
    <1>1. ASSUME Inv
          PROVE  ErrorsAreExplained
      <2> SUFFICES ASSUME pc = "sent", response.status >= 400
                   PROVE  \/ Explained(response)
                          \/ /\ request.target = "health"
                             /\ response = Response(503, Json("starting"))
        BY DEF ErrorsAreExplained, Explained
      <2>1. CASE FromLibrary
        BY <1>1, <2>1, SentResponses, LibraryAnswers
      <2>2. CASE FromAdapt \/ FromException
        BY <2>2, OurErrors
      <2>3. CASE FromHandler
        BY <2>3, HandlerOutcomes DEF FromHandler, Routed
      <2> QED BY <1>1, <2>1, <2>2, <2>3, SentResponses
    <1> QED BY <1>1, PipelineInv, PTL

(* No hook rewrites what a handler returned, whatever its status.          *)
THEOREM HandlersAnswersStand == Spec => []HandlersAnswerStands
    <1>1. Inv => HandlersAnswerStands
      BY SentResponses
         DEF HandlersAnswerStands, FromLibrary, FromAdapt, FromHandler, FromException
    <1> QED BY <1>1, PipelineInv, PTL

(* The codes of an answer tell a client what happened to its request.      *)
THEOREM CodesMeanTheirCause == Spec => []CodesMeanWhatTheySay
    <1>1. ASSUME Inv
          PROVE  CodesMeanWhatTheySay
      <2> SUFFICES ASSUME pc = "sent"
                   PROVE  CodesMeanWhatTheySay
        BY DEF CodesMeanWhatTheySay
      <2>1. request \in Requests
        BY <1>1, SentResponses
      <2>2. CASE FromLibrary
        <3>1. request.refusal = 0 => request.target = "unknown"
          BY <2>1, <2>2 DEF FromLibrary, Routed, Requests
        <3> QED BY <2>1, <2>2, <3>1, LibraryAnswers DEF CodesMeanWhatTheySay, LibraryStatus
      <2>3. Routed => request.refusal = 0 /\ request.target # "unknown"
        BY DEF Routed, Routes
      <2>4. CASE FromAdapt
        BY <2>3, <2>4, OurErrors DEF CodesMeanWhatTheySay, FromAdapt
      <2>5. CASE FromException
        <3>1. logged # <<>> /\ Routed
          BY <2>5 DEF FromException
        <3>2. response.status = 500
          BY <2>5, OurErrors
        <3> QED BY <2>3, <3>1, <3>2 DEF CodesMeanWhatTheySay
      <2>6. CASE FromHandler
        BY <2>3, <2>6, HandlerOutcomes
           DEF CodesMeanWhatTheySay, FromHandler, Routed, JsonWhereExpected
      <2> QED BY <1>1, <2>2, <2>4, <2>5, <2>6, SentResponses
    <1> QED BY <1>1, PipelineInv, PTL

(* What a handler throws is logged under the id in the response's header.  *)
THEOREM HandlersLogged == Spec => []HandlersLogUnderTheId
    <1>1. ASSUME Inv
          PROVE  HandlersLogUnderTheId
      <2> SUFFICES ASSUME given # NoId, pc = "sent", NEW i \in DOMAIN logged
                   PROVE  logged[i] = FirstId
        BY DEF HandlersLogUnderTheId, LoggedUnderTheId
      <2>1. FromException
        BY <1>1, SentResponses DEF FromLibrary, FromAdapt, FromHandler
      <2>2. logged \in Seq(Ids)
        BY <1>1 DEF Inv, TypeOK
      <2>3. i = 1
        BY <2>1, <2>2 DEF FromException
      <2>4. given = FirstId
        BY <1>1 DEF Inv, IdsOK, IdSet, FirstId
      <2> QED BY <2>1, <2>3, <2>4 DEF FromException
    <1> QED BY <1>1, PipelineInv, PTL
==============================================================================
