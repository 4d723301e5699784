----------------------------- MODULE ContentType -----------------------------
(* adapters/http/content_type.cpp: is_json_content_type().  UpperOf gives  *)
(* the upper-case letter of each lower-case one.                           *)
EXTENDS StringView

CONSTANTS
    JsonMediaType,      \* application/json, a sequence without upper-case letters
    UpperOf,
    OptionalWhitespace, \* space and tab
    Semicolon

UpperCase == {UpperOf[letter] : letter \in DOMAIN UpperOf}

(* A character in its two cases, which are one unless it is a letter. *)
CasesOf(character) == {character} \cup {UpperOf[letter] : letter \in DOMAIN UpperOf \cap {character}}

ASSUME LettersAssumption ==
    /\ UpperCase \cap DOMAIN UpperOf = {}
    /\ \A left, right \in DOMAIN UpperOf : UpperOf[left] = UpperOf[right] => left = right

ASSUME MediaTypeAssumption ==
    /\ JsonMediaType # <<>>
    /\ JsonMediaType \in Seq({JsonMediaType[i] : i \in DOMAIN JsonMediaType})
    /\ \A i \in DOMAIN JsonMediaType :
          /\ JsonMediaType[i] \notin UpperCase
          /\ CasesOf(JsonMediaType[i]) \cap (OptionalWhitespace \cup {Semicolon}) = {}
    /\ Semicolon \notin OptionalWhitespace

(* Mutant: only what stands before the media type is trimmed.              *)
TrimLeft(text) ==
    LET first == FindFirstNotOf(text, OptionalWhitespace, 0) IN
    IF first = Npos THEN <<>> ELSE Substr(text, first, Npos)

TrimWhitespace(text) ==
    LET first == FindFirstNotOf(text, OptionalWhitespace, 0)
        last == FindLastNotOf(text, OptionalWhitespace) IN
    IF first = Npos THEN <<>> ELSE Substr(text, first, last - first + 1)

ToAsciiLower(character) ==
    LET lower == {letter \in DOMAIN UpperOf : UpperOf[letter] = character} IN
    IF lower = {} THEN character ELSE CHOOSE letter \in lower : TRUE

EqualsIgnoringAsciiCase(left, right) ==
    /\ Len(left) = Len(right)
    /\ \A i \in DOMAIN left : ToAsciiLower(left[i]) = ToAsciiLower(right[i])

(* find(';') is npos where there is none, and substr then the whole value. *)
IsJsonContentType(header) ==
    EqualsIgnoringAsciiCase(
        TrimWhitespace(Substr(header, 0, FindFirstOf(header, {Semicolon}, 0))),
        JsonMediaType)

-----------------------------------------------------------------------------
(* A value by RFC 9110's grammar: whitespace, the media type in letters of *)
(* either case, whitespace, and nothing more or parameters.                *)
NamesJson(header) ==
    \E before \in 0 .. Len(header) :
        LET after == before + Len(JsonMediaType)
            blank(first, last) ==
                \A i \in first .. last : header[i] \in OptionalWhitespace
        IN  /\ after <= Len(header)
            /\ blank(1, before)
            /\ \A i \in DOMAIN JsonMediaType :
                  header[before + i] \in CasesOf(JsonMediaType[i])
            /\ \E end \in after .. Len(header) :
                  /\ blank(after + 1, end)
                  /\ end < Len(header) => header[end + 1] = Semicolon
==============================================================================
