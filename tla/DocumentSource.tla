---------------------------- MODULE DocumentSource ----------------------------
(* What document_routes.cpp keeps of a document's bytes.  External:        *)
(* raw_json() yields the object and the whitespace behind it.              *)
EXTENDS StringView

CONSTANT JsonWhitespace     \* space, tab, line feed and carriage return

(* Mutant: last is taken for a length. *)
UpToLast(json, last) == Substr(json, 0, last)

ThroughLast(json, last) == Substr(json, 0, Advance(last))

WithoutTrailingWhitespace(json) ==
    LET last == FindLastNotOf(json, JsonWhitespace) IN
    IF last = Npos THEN <<>> ELSE ThroughLast(json, last)
==============================================================================
