----------------------------- MODULE Conversions -----------------------------
(***************************************************************************)
(* The pure functions on characters, each called with any input of an      *)
(* instance and its output compared with what it stands for.  Nothing is   *)
(* shared between calls, so one call is every call.                        *)
(***************************************************************************)
EXTENDS WhitespaceTokenizer, ContentType, RequestId, JsonString, JsonTimestamp,
        Routing, DocumentSource

CONSTANTS
    SplitTexts,     \* texts of documents
    Headers,        \* values of Content-Type
    Words,          \* what the engine of request ids yields
    QuotedTexts,    \* texts quoted in a body
    Instants,       \* readings of the clock
    Paths,          \* paths of requests
    RawObjects      \* slices of a body that raw_json() yields

(* No text is longer than its positions can count: npos is none of them. *)
IsText(text) ==
    /\ text \in Seq({text[i] : i \in DOMAIN text})
    /\ Len(text) <= Npos

ASSUME InputsAssumption ==
    /\ \A text \in SplitTexts \cup Headers \cup RawObjects : IsText(text)
    /\ Words \subseteq 0 .. PowerOf16[HexDigitsPerWord] - 1
    /\ QuotedTexts \subseteq Seq(-128 .. 127)
    /\ Instants \subseteq WritableInstants
    /\ Paths \subseteq Seq(Int)

VARIABLES call, output
vars == <<call, output>>

None == <<>>
Called(function) == call.function = function /\ output = None

Init ==
    /\ output = None
    /\ \/ call \in [function: {"split_on_whitespace"}, text: SplitTexts]
       \/ call \in [function: {"is_json_content_type"}, text: Headers]
       \/ call \in [function: {"generate_request_id"}, high: Words, low: Words]
       \/ call \in [function: {"append_json_string"}, text: QuotedTexts]
       \/ call \in [function: {"append_json_timestamp"}, instant: Instants]
       \/ call \in [function: {"add_documents_response"}, path: Paths]
       \/ call \in [function: {"without_trailing_whitespace"}, text: RawObjects]

Split ==
    /\ Called("split_on_whitespace")
    /\ output' = <<SplitOnWhitespace(call.text)>>
    /\ UNCHANGED call

DecideContentType ==
    /\ Called("is_json_content_type")
    /\ output' = <<IsJsonContentType(call.text)>>
    /\ UNCHANGED call

(* generate_request_id(): two draws, and the id of them. *)
GenerateRequestId ==
    /\ Called("generate_request_id")
    /\ output' = <<FormatRequestId(call.high, call.low)>>
    /\ UNCHANGED call

QuoteText ==
    /\ Called("append_json_string")
    /\ output' = <<AppendJsonString(call.text)>>
    /\ UNCHANGED call

WriteInstant ==
    /\ Called("append_json_timestamp")
    /\ output' = <<AppendJsonTimestamp(call.instant)>>
    /\ UNCHANGED call

(* A request's path, through the library, to the uid its handler reads. *)
FindHandler ==
    /\ Called("add_documents_response")
    /\ output' = <<HandlersOf(call.path)>>
    /\ UNCHANGED call

TrimSource ==
    /\ Called("without_trailing_whitespace")
    /\ output' = <<WithoutTrailingWhitespace(call.text)>>
    /\ UNCHANGED call

Next ==
    \/ Split \/ DecideContentType \/ GenerateRequestId \/ QuoteText \/ WriteInstant
    \/ FindHandler \/ TrimSource

Spec == Init /\ [][Next]_vars

-----------------------------------------------------------------------------
Returned(function) == call.function = function /\ output # None
Result == output[1]

(* whitespace_tokenizer.hpp: the words are the runs between whitespace, in *)
(* order, none of them empty and none missing, wherever the text ends.     *)
WordsAreTheRuns == Returned("split_on_whitespace") => AreTheRuns(Result, call.text)

(* FR-70, content_type.hpp: what is accepted is exactly the media type,    *)
(* whatever its case, whitespace and parameters, wherever the value ends.  *)
AcceptsExactlyJson ==
    Returned("is_json_content_type") => (Result <=> NamesJson(call.text))

(* request_id.hpp: 32 hex digits, high first.  Two draws give one id only  *)
(* if they are the same two words, whatever zeros they begin with, and     *)
(* the server would itself echo the id (FR-73), so that a proxy that hands *)
(* it back with the next request keeps it.                                 *)
IdTellsTheWords ==
    Returned("generate_request_id") =>
        /\ IsAcceptableRequestId(Result)
        /\ Len(Result) = 2 * HexDigitsPerWord
        /\ WordOf(SubSeq(Result, 1, HexDigitsPerWord)) = call.high
        /\ WordOf(SubSeq(Result, HexDigitsPerWord + 1, Len(Result))) = call.low

(* json_string.hpp: whatever text a body quotes, a field's name that the   *)
(* client chose included, it reads back as itself, and ends where the      *)
(* server ended it.                                                        *)
QuotedTextReadsBack ==
    Returned("append_json_string") =>
        ReadString(Result) = [end |-> Len(Result), characters |-> call.text]

(* json_timestamp.hpp: the text is an RFC 3339 instant, and the one that   *)
(* was written: before 1970 too, at either end of a day, a month, a leap   *)
(* year and the range of years, with every field in its full width.        *)
InstantReadsBack ==
    Returned("append_json_timestamp") => IsInstant(Result, call.instant)

(* http_server.hpp:82, FR-01: a path is matched exactly but for its one    *)
(* {uid} segment.  So every uid that POST /indexes accepts has one path    *)
(* for its documents and comes out of it as itself, whatever other text    *)
(* stands there is refused by the handler, and no path has two handlers.   *)
PathsNameTheirIndex ==
    Returned("add_documents_response") =>
        LET documents == RoutePaths["documents"]
            before == SubSeq(documents, 1, SelectInSeq(documents, LAMBDA ch : ch = OpenBrace) - 1)
            behind == SubSeq(documents, SelectInSeq(documents, LAMBDA ch : ch = CloseBrace) + 1,
                             Len(documents))
            named == {text \in SubSeqs(call.path) :
                        /\ Slash \notin Range(text)
                        /\ call.path = before \o text \o behind}
        IN  Result = {[route |-> route, uid |-> {}] : route \in
                         {route \in DOMAIN RoutePaths \ {"documents"} :
                            RoutePaths[route] = call.path}}
                     \cup {[route |-> "documents", uid |-> {uid \in {text} : IsUid(uid)}] :
                             text \in named}

(* ADR-004, document_routes.hpp: the source of a document is the object as *)
(* it was sent: all that is cut off is whitespace, and all of that is.     *)
SourceIsTheObject ==
    Returned("without_trailing_whitespace") =>
        /\ \E n \in 0 .. Len(call.text) :
              /\ Result = SubSeq(call.text, 1, n)
              /\ \A i \in n + 1 .. Len(call.text) : call.text[i] \in JsonWhitespace
        /\ Result # <<>> => Result[Len(Result)] \notin JsonWhitespace
==============================================================================
