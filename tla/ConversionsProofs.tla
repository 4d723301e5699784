-------------------------- MODULE ConversionsProofs ---------------------------
(* Proofs about the conversions, for texts of any length over any          *)
(* characters: searches and cuts, words of digits, loops over a text, the  *)
(* way of a path through its pattern to the uid, and the instants of the   *)
(* years 0 to 9999, to the calendar and back.                              *)
EXTENDS Conversions, InductionTheorems, SequenceTheorems, FiniteSetTheorems

-----------------------------------------------------------------------------
(* Searches of a text.                                                     *)

(* Min of positions is one of them, and none is before it.                 *)
LEMMA MinIsLeast ==
    ASSUME NEW T, T \subseteq Nat, T # {}
    PROVE  Min(T) \in T /\ \A y \in T : Min(T) <= y
<1>1. PICK x \in T : \A y \in T : x <= y
  BY LeastExists
<1> QED
  BY <1>1 DEF Min

(* Max of positions is one of them, and none is behind it.                 *)
LEMMA MaxIsGreatest ==
    ASSUME NEW n \in Nat, NEW T, T \subseteq 0 .. n, T # {}
    PROVE  Max(T) \in T /\ \A y \in T : y <= Max(T)
<1> DEFINE U == {n - x : x \in T}
<1>0. \A x \in T : n - x \in Nat /\ n - x \in U
  OBVIOUS
<1>1. U \subseteq Nat /\ U # {}
  BY <1>0
<1>2. PICK u \in U : \A v \in U : u <= v
  BY <1>1, LeastExists
<1>3. PICK x \in T : u = n - x
  BY <1>2
<1>4. \A y \in T : n - x <= n - y
  BY <1>2, <1>3
<1>5. \A y \in T : x >= y
  BY <1>4
<1>6. \A y \in T : Max(T) >= y
  BY <1>5 DEF Max
<1>7. Max(T) \in T
  BY <1>5 DEF Max
<1> QED
  BY <1>6, <1>7

(* find_first_of(): npos when no character from there on is of S, and      *)
(* otherwise the position of the first that is.                            *)
LEMMA FirstOf ==
    ASSUME NEW C, NEW text \in Seq(C), Len(text) <= Npos, NEW S, NEW from \in Nat
    PROVE  \/ /\ FindFirstOf(text, S, from) = Npos
              /\ \A i \in from + 1 .. Len(text) : text[i] \notin S
           \/ /\ FindFirstOf(text, S, from) \in from .. Len(text) - 1
              /\ FindFirstOf(text, S, from) # Npos
              /\ text[FindFirstOf(text, S, from) + 1] \in S
              /\ \A i \in from + 1 .. FindFirstOf(text, S, from) : text[i] \notin S
<1> DEFINE found == PositionsOf(text, S, from)
           first == FindFirstOf(text, S, from)
<1>0. Len(text) \in Nat /\ Npos \in Nat
  BY NposAssumption
<1>1. CASE found = {}
  <2>1. first = Npos
    BY <1>1 DEF FindFirstOf
  <2>2. ASSUME NEW i \in from + 1 .. Len(text) PROVE text[i] \notin S
    <3>1. i - 1 \in from .. Len(text) - 1 /\ (i - 1) + 1 = i
      BY <1>0
    <3> QED
      BY <1>1, <3>1 DEF PositionsOf
  <2> QED
    BY <2>1, <2>2
<1>2. CASE found # {}
  <2>1. found \subseteq Nat
    BY <1>0 DEF PositionsOf
  <2>2. first \in found /\ \A y \in found : first <= y
    BY <1>2, <2>1, MinIsLeast DEF FindFirstOf
  <2>3. first \in from .. Len(text) - 1 /\ text[first + 1] \in S
    BY <2>2 DEF PositionsOf
  <2>4. ASSUME NEW i \in from + 1 .. first PROVE text[i] \notin S
    <3>1. i - 1 \in from .. Len(text) - 1 /\ (i - 1) + 1 = i /\ ~(first <= i - 1)
      BY <1>0, <2>3
    <3> QED
      BY <2>2, <3>1 DEF PositionsOf
  <2> QED
    BY <1>0, <2>3, <2>4
<1> QED
  BY <1>1, <1>2

(* find_first_not_of(), in the same way.                                   *)
LEMMA FirstNotOf ==
    ASSUME NEW C, NEW text \in Seq(C), Len(text) <= Npos, NEW S, NEW from \in Nat
    PROVE  \/ /\ FindFirstNotOf(text, S, from) = Npos
              /\ \A i \in from + 1 .. Len(text) : text[i] \in S
           \/ /\ FindFirstNotOf(text, S, from) \in from .. Len(text) - 1
              /\ FindFirstNotOf(text, S, from) # Npos
              /\ text[FindFirstNotOf(text, S, from) + 1] \notin S
              /\ \A i \in from + 1 .. FindFirstNotOf(text, S, from) : text[i] \in S
<1> DEFINE found == (from .. Len(text) - 1) \ PositionsOf(text, S, from)
           first == FindFirstNotOf(text, S, from)
<1>0. Len(text) \in Nat /\ Npos \in Nat
  BY NposAssumption
<1>1. CASE found = {}
  <2>1. first = Npos
    BY <1>1 DEF FindFirstNotOf
  <2>2. ASSUME NEW i \in from + 1 .. Len(text) PROVE text[i] \in S
    <3>1. i - 1 \in from .. Len(text) - 1 /\ (i - 1) + 1 = i
      BY <1>0
    <3> QED
      BY <1>1, <3>1 DEF PositionsOf
  <2> QED
    BY <2>1, <2>2
<1>2. CASE found # {}
  <2>1. found \subseteq Nat
    BY <1>0
  <2>2. first \in found /\ \A y \in found : first <= y
    BY <1>2, <2>1, MinIsLeast DEF FindFirstNotOf
  <2>3. first \in from .. Len(text) - 1 /\ text[first + 1] \notin S
    BY <2>2 DEF PositionsOf
  <2>4. ASSUME NEW i \in from + 1 .. first PROVE text[i] \in S
    <3>1. i - 1 \in from .. Len(text) - 1 /\ (i - 1) + 1 = i /\ ~(first <= i - 1)
      BY <1>0, <2>3
    <3> QED
      BY <2>2, <3>1 DEF PositionsOf
  <2> QED
    BY <1>0, <2>3, <2>4
<1> QED
  BY <1>1, <1>2

(* find_last_not_of(): npos when every character is of S, and otherwise    *)
(* the position of the last that is not.                                   *)
LEMMA LastNotOf ==
    ASSUME NEW C, NEW text \in Seq(C), Len(text) <= Npos, NEW S
    PROVE  \/ /\ FindLastNotOf(text, S) = Npos
              /\ \A i \in 1 .. Len(text) : text[i] \in S
           \/ /\ FindLastNotOf(text, S) \in 0 .. Len(text) - 1
              /\ FindLastNotOf(text, S) # Npos
              /\ text[FindLastNotOf(text, S) + 1] \notin S
              /\ \A i \in FindLastNotOf(text, S) + 2 .. Len(text) : text[i] \in S
<1> DEFINE found == (0 .. Len(text) - 1) \ PositionsOf(text, S, 0)
           last == FindLastNotOf(text, S)
<1>0. Len(text) \in Nat /\ Npos \in Nat
  BY NposAssumption
<1>1. CASE found = {}
  <2>1. last = Npos
    BY <1>1 DEF FindLastNotOf
  <2>2. ASSUME NEW i \in 1 .. Len(text) PROVE text[i] \in S
    <3>1. i - 1 \in 0 .. Len(text) - 1 /\ (i - 1) + 1 = i
      BY <1>0
    <3> QED
      BY <1>1, <3>1 DEF PositionsOf
  <2> QED
    BY <2>1, <2>2
<1>2. CASE found # {}
  <2>1. found \subseteq 0 .. Len(text)
    BY <1>0
  <2>2. last \in found /\ \A y \in found : y <= last
    BY <1>0, <1>2, <2>1, MaxIsGreatest DEF FindLastNotOf
  <2>3. last \in 0 .. Len(text) - 1 /\ text[last + 1] \notin S
    BY <2>2 DEF PositionsOf
  <2>4. ASSUME NEW i \in last + 2 .. Len(text) PROVE text[i] \in S
    <3>1. i - 1 \in 0 .. Len(text) - 1 /\ (i - 1) + 1 = i /\ ~(i - 1 <= last)
      BY <1>0, <2>3
    <3> QED
      BY <2>2, <3>1 DEF PositionsOf
  <2> QED
    BY <1>0, <2>3, <2>4
<1> QED
  BY <1>1, <1>2

(* substr() never leaves the text.                                         *)
LEMMA Cut ==
    ASSUME NEW C, NEW text \in Seq(C), NEW from \in 0 .. Len(text), NEW count \in Nat
    PROVE  Substr(text, from, count) =
             IF count <= Len(text) - from THEN SubSeq(text, from + 1, from + count)
             ELSE SubSeq(text, from + 1, Len(text))
<1>1. from + (Len(text) - from) = Len(text)
  OBVIOUS
<1> QED
  BY <1>1 DEF Substr

(* Part of a text, character for character.                                *)
LEMMA PartOf ==
    ASSUME NEW C, NEW text \in Seq(C),
           NEW p \in 0 .. Len(text), NEW q \in p .. Len(text)
    PROVE  /\ SubSeq(text, p + 1, q) \in Seq(C)
           /\ Len(SubSeq(text, p + 1, q)) = q - p
           /\ \A i \in 1 .. q - p : SubSeq(text, p + 1, q)[i] = text[p + i]
<1>1. SubSeq(text, p + 1, q) = [i \in 1 .. q - p |-> text[p + i]]
  BY DEF SubSeq
<1>2. \A i \in 1 .. q - p : text[p + i] \in C
  OBVIOUS
<1>3. SubSeq(text, p + 1, q) \in Seq(C)
  BY <1>1, <1>2
<1>4. Len(SubSeq(text, p + 1, q)) = q - p
  BY <1>1, <1>3
<1> QED
  BY <1>1, <1>3, <1>4

-----------------------------------------------------------------------------
(* A call is one of the instance's, and returns what its function makes of *)
(* its arguments.                                                          *)
Answers(function, arguments, value) ==
    call.function = function => arguments /\ (output # None => output = <<value>>)

Answered ==
    /\ Answers("without_trailing_whitespace",
               call.text \in RawObjects, WithoutTrailingWhitespace(call.text))
    /\ Answers("is_json_content_type", call.text \in Headers, IsJsonContentType(call.text))
    /\ Answers("generate_request_id", call.high \in Words /\ call.low \in Words,
               FormatRequestId(call.high, call.low))
    /\ Answers("split_on_whitespace", call.text \in SplitTexts, SplitOnWhitespace(call.text))
    /\ Answers("append_json_string", call.text \in QuotedTexts, AppendJsonString(call.text))
    /\ Answers("append_json_timestamp",
               call.instant \in Instants, AppendJsonTimestamp(call.instant))
    /\ Answers("add_documents_response", call.path \in Paths, HandlersOf(call.path))

LEMMA InitAnswered == Init => Answered
  BY DEF Init, Answered, Answers, None

LEMMA NextAnswered == Answered /\ [Next]_vars => Answered'
<1> SUFFICES ASSUME Answered, [Next]_vars PROVE Answered'
  OBVIOUS
<1>1. CASE DecideContentType
  BY <1>1 DEF DecideContentType, Answered, Answers, Called, None
<1>2. CASE TrimSource
  BY <1>2 DEF TrimSource, Answered, Answers, Called, None
<1>3. CASE GenerateRequestId
  BY <1>3 DEF GenerateRequestId, Answered, Answers, Called, None
<1>4. CASE Split
  BY <1>4 DEF Split, Answered, Answers, Called, None
<1>5. CASE QuoteText
  BY <1>5 DEF QuoteText, Answered, Answers, Called, None
<1>6. CASE WriteInstant
  BY <1>6 DEF WriteInstant, Answered, Answers, Called, None
<1>7. CASE FindHandler
  BY <1>7 DEF FindHandler, Answered, Answers, Called, None
<1>8. CASE UNCHANGED vars
  BY <1>8 DEF vars, Answered, Answers, None
<1> QED
  BY <1>1, <1>2, <1>3, <1>4, <1>5, <1>6, <1>7, <1>8 DEF Next

LEMMA AlwaysAnswered == Spec => []Answered
  BY InitAnswered, NextAnswered, PTL DEF Spec

-----------------------------------------------------------------------------
LEMMA TrimCorrect ==
    ASSUME NEW text, IsText(text)
    PROVE  LET result == WithoutTrailingWhitespace(text) IN
           /\ \E n \in 0 .. Len(text) :
                 /\ result = SubSeq(text, 1, n)
                 /\ \A i \in n + 1 .. Len(text) : text[i] \in JsonWhitespace
           /\ result # <<>> => result[Len(result)] \notin JsonWhitespace
<1> DEFINE C == {text[i] : i \in DOMAIN text}
           last == FindLastNotOf(text, JsonWhitespace)
           result == WithoutTrailingWhitespace(text)
<1>0. text \in Seq(C) /\ Len(text) \in Nat /\ Len(text) <= Npos /\ Npos \in Nat
  BY NposAssumption DEF IsText
<1>1. CASE /\ last = Npos
           /\ \A i \in 1 .. Len(text) : text[i] \in JsonWhitespace
  <2>1. result = <<>> /\ SubSeq(text, 1, 0) = <<>>
    BY <1>0, <1>1 DEF WithoutTrailingWhitespace
  <2> QED
    BY <1>0, <1>1, <2>1
<1>2. CASE /\ last \in 0 .. Len(text) - 1
           /\ last # Npos
           /\ text[last + 1] \notin JsonWhitespace
           /\ \A i \in last + 2 .. Len(text) : text[i] \in JsonWhitespace
  <2>1. result = SubSeq(text, 1, last + 1)
    <3>0. 0 \in 0 .. Len(text) /\ last + 1 \in Nat /\ last + 1 <= Len(text) - 0
      BY <1>0, <1>2
    <3>1. Substr(text, 0, last + 1) = SubSeq(text, 0 + 1, 0 + (last + 1))
      BY <1>0, <3>0, Cut
    <3>2. 0 + 1 = 1 /\ 0 + (last + 1) = last + 1
      BY <1>2
    <3>3. Advance(last) = last + 1
      BY <1>2 DEF Advance
    <3> QED
      BY <1>2, <3>1, <3>2, <3>3 DEF WithoutTrailingWhitespace, ThroughLast
  <2>2. Len(result) = last + 1 /\ result[last + 1] = text[last + 1]
    BY <1>0, <1>2, <2>1
  <2>3. last + 1 \in 0 .. Len(text) /\ (last + 1) + 1 = last + 2
    BY <1>0, <1>2
  <2> QED
    BY <1>2, <2>1, <2>2, <2>3
<1> QED
  BY <1>0, <1>1, <1>2, LastNotOf

(* document_routes.cpp: whatever slice raw_json() yields, of whatever      *)
(* length, the source kept of it is the slice without its trailing         *)
(* whitespace, and nothing else is cut off.                                *)
THEOREM SourcesAreTheObjects == Spec => []SourceIsTheObject
<1>1. Answered => SourceIsTheObject
  <2> SUFFICES ASSUME Answered, Returned("without_trailing_whitespace")
               PROVE  /\ \E n \in 0 .. Len(call.text) :
                            /\ Result = SubSeq(call.text, 1, n)
                            /\ \A i \in n + 1 .. Len(call.text) :
                                  call.text[i] \in JsonWhitespace
                      /\ Result # <<>> => Result[Len(Result)] \notin JsonWhitespace
    BY DEF SourceIsTheObject
  <2>1. IsText(call.text)
    BY InputsAssumption DEF Answered, Answers, Returned
  <2>2. Result = WithoutTrailingWhitespace(call.text)
    BY DEF Answered, Answers, Returned, Result
  <2> QED
    BY <2>1, <2>2, TrimCorrect
<1> QED
  BY <1>1, AlwaysAnswered, PTL

-----------------------------------------------------------------------------
(* trim_whitespace() leaves nothing of a blank text, and otherwise the     *)
(* part from its first to its last character that is not blank.            *)
LEMMA Trimmed ==
    ASSUME NEW C, NEW text \in Seq(C), Len(text) <= Npos
    PROVE  \/ /\ TrimWhitespace(text) = <<>>
              /\ \A i \in 1 .. Len(text) : text[i] \in OptionalWhitespace
           \/ \E p \in 0 .. Len(text) : \E q \in p + 1 .. Len(text) :
                /\ TrimWhitespace(text) = SubSeq(text, p + 1, q)
                /\ text[p + 1] \notin OptionalWhitespace
                /\ text[q] \notin OptionalWhitespace
                /\ \A i \in 1 .. p : text[i] \in OptionalWhitespace
                /\ \A i \in q + 1 .. Len(text) : text[i] \in OptionalWhitespace
<1> DEFINE W == OptionalWhitespace
           first == FindFirstNotOf(text, W, 0)
           last == FindLastNotOf(text, W)
<1>0. Len(text) \in Nat /\ Npos \in Nat
  BY NposAssumption
<1>1. CASE first = Npos /\ \A i \in 1 .. Len(text) : text[i] \in W
  BY <1>1 DEF TrimWhitespace
<1>2. CASE /\ first \in 0 .. Len(text) - 1
           /\ first # Npos
           /\ text[first + 1] \notin W
           /\ \A i \in 1 .. first : text[i] \in W
  <2>1. first + 1 \in 1 .. Len(text)
    BY <1>0, <1>2
  <2>2. /\ last \in 0 .. Len(text) - 1
        /\ text[last + 1] \notin W
        /\ \A i \in last + 2 .. Len(text) : text[i] \in W
    BY <1>2, <2>1, LastNotOf
  <2>3. first <= last
    <3>1. ~(first + 1 \in last + 2 .. Len(text))
      BY <1>2, <2>2
    <3> QED
      BY <1>0, <1>2, <2>2, <3>1
  <2>4. /\ first \in 0 .. Len(text)
        /\ last - first + 1 \in Nat
        /\ last - first + 1 <= Len(text) - first
        /\ first + (last - first + 1) = last + 1
        /\ last + 1 \in first + 1 .. Len(text)
        /\ (last + 1) + 1 = last + 2
    BY <1>0, <1>2, <2>2, <2>3
  <2>5. TrimWhitespace(text) = Substr(text, first, last - first + 1)
    BY <1>2 DEF TrimWhitespace
  <2>6. TrimWhitespace(text) = SubSeq(text, first + 1, last + 1)
    BY <2>4, <2>5, Cut
  <2>7. /\ TrimWhitespace(text) = SubSeq(text, first + 1, last + 1)
        /\ text[first + 1] \notin OptionalWhitespace
        /\ text[last + 1] \notin OptionalWhitespace
        /\ \A i \in 1 .. first : text[i] \in OptionalWhitespace
        /\ \A i \in (last + 1) + 1 .. Len(text) : text[i] \in OptionalWhitespace
    BY <1>2, <2>2, <2>4, <2>6
  <2> HIDE DEF first, last, W
  <2> QED
    BY <2>4, <2>7
<1>3. \/ /\ first = Npos
         /\ \A i \in 0 + 1 .. Len(text) : text[i] \in W
      \/ /\ first \in 0 .. Len(text) - 1 /\ first # Npos
         /\ text[first + 1] \notin W
         /\ \A i \in 0 + 1 .. first : text[i] \in W
  <2> HIDE DEF W
  <2> QED
    BY FirstNotOf, 0 \in Nat
<1>4. 0 + 1 = 1
  OBVIOUS
<1> HIDE DEF first, W
<1> QED
  BY <1>1, <1>2, <1>3, <1>4

(* to_ascii_lower() takes a character of the media type, in either case    *)
(* and no other character, to the one of lower case.                       *)
LEMMA LowerOf ==
    ASSUME NEW i \in DOMAIN JsonMediaType, NEW character
    PROVE  /\ ToAsciiLower(JsonMediaType[i]) = JsonMediaType[i]
           /\ (ToAsciiLower(character) = JsonMediaType[i])
                <=> (character \in CasesOf(JsonMediaType[i]))
<1> DEFINE m == JsonMediaType[i]
           lower(ch) == {letter \in DOMAIN UpperOf : UpperOf[letter] = ch}
<1>0. m \notin UpperCase
  BY MediaTypeAssumption
<1>1. lower(m) = {}
  BY <1>0 DEF UpperCase
<1>2. ToAsciiLower(m) = m
  BY <1>1 DEF ToAsciiLower
<1>3. CASE lower(character) = {}
  <2>1. ToAsciiLower(character) = character
    BY <1>3 DEF ToAsciiLower
  <2>2. character \in CasesOf(m) => character = m
    BY <1>3 DEF CasesOf
  <2>3. m \in CasesOf(m)
    BY DEF CasesOf
  <2> QED
    BY <1>2, <2>1, <2>2, <2>3
<1>4. CASE lower(character) # {}
  <2>1. PICK letter \in DOMAIN UpperOf : UpperOf[letter] = character
    BY <1>4
  <2>2. lower(character) = {letter}
    BY <2>1, LettersAssumption
  <2>3. ToAsciiLower(character) = letter
    BY <1>4, <2>2 DEF ToAsciiLower
  <2>4. character # m
    BY <1>0, <2>1 DEF UpperCase
  <2>5. character \in CasesOf(m) <=> \E l \in DOMAIN UpperOf : l = m /\ UpperOf[l] = character
    BY <2>4 DEF CasesOf
  <2>6. character \in CasesOf(m) <=> letter = m
    BY <2>1, <2>2, <2>5
  <2> QED
    BY <1>2, <2>3, <2>6
<1> QED
  BY <1>3, <1>4

(* substr(0, find(';')): what stands before the first semicolon, or the    *)
(* whole value when npos says that there is none.                          *)
LEMMA BeforeSemicolon ==
    ASSUME NEW C, NEW header \in Seq(C), Len(header) <= Npos
    PROVE  \E e \in 0 .. Len(header) :
             /\ Substr(header, 0, FindFirstOf(header, {Semicolon}, 0)) = SubSeq(header, 1, e)
             /\ \A i \in 1 .. e : header[i] # Semicolon
             /\ e < Len(header) => header[e + 1] = Semicolon
<1> DEFINE found == FindFirstOf(header, {Semicolon}, 0)
<1>0. /\ Len(header) \in Nat /\ Npos \in Nat /\ Len(header) <= Npos
      /\ 0 \in 0 .. Len(header) /\ Len(header) - 0 = Len(header) /\ 0 + 1 = 1
  BY NposAssumption
<1>1. CASE /\ found = Npos
           /\ \A i \in 1 .. Len(header) : header[i] \notin {Semicolon}
  <2>1. Substr(header, 0, found) = SubSeq(header, 1, Len(header))
    <3>0. \A x, y \in Nat : x <= y /\ y <= x => 0 + x = y
      OBVIOUS
    <3>1. Npos <= Len(header) => 0 + Npos = Len(header)
      BY <1>0, <3>0
    <3> QED
      BY <1>0, <1>1, <3>1, Cut
  <2>2. Len(header) \in 0 .. Len(header) /\ ~(Len(header) < Len(header))
    BY <1>0
  <2> QED
    BY <1>1, <2>1, <2>2
<1>2. CASE /\ found \in 0 .. Len(header) - 1
           /\ header[found + 1] \in {Semicolon}
           /\ \A i \in 1 .. found : header[i] \notin {Semicolon}
  <2>1. /\ found \in Nat /\ found <= Len(header) - 0 /\ 0 + found = found
        /\ found \in 0 .. Len(header)
    BY <1>0, <1>2
  <2>2. Substr(header, 0, found) = SubSeq(header, 1, found)
    BY <1>0, <2>1, Cut
  <2>3. header[found + 1] = Semicolon /\ \A i \in 1 .. found : header[i] # Semicolon
    BY <1>2
  <2> HIDE DEF found
  <2> QED
    BY <2>1, <2>2, <2>3 DEF found
<1>3. \/ /\ found = Npos
         /\ \A i \in 0 + 1 .. Len(header) : header[i] \notin {Semicolon}
      \/ /\ found \in 0 .. Len(header) - 1
         /\ header[found + 1] \in {Semicolon}
         /\ \A i \in 0 + 1 .. found : header[i] \notin {Semicolon}
  BY FirstOf, 0 \in Nat
<1> HIDE DEF found
<1> QED
  BY <1>0, <1>1, <1>2, <1>3

(* A text is the media type in either case when its characters are.        *)
LEMMA SameIgnoringCase ==
    ASSUME NEW C, NEW text \in Seq(C)
    PROVE  EqualsIgnoringAsciiCase(text, JsonMediaType) <=>
             /\ Len(text) = Len(JsonMediaType)
             /\ \A i \in 1 .. Len(text) : text[i] \in CasesOf(JsonMediaType[i])
<1>1. DOMAIN text = 1 .. Len(text) /\ DOMAIN JsonMediaType = 1 .. Len(JsonMediaType)
  BY MediaTypeAssumption
<1>2. ASSUME Len(text) = Len(JsonMediaType), NEW i \in 1 .. Len(text)
      PROVE  ToAsciiLower(text[i]) = ToAsciiLower(JsonMediaType[i])
               <=> text[i] \in CasesOf(JsonMediaType[i])
  <2>1. i \in DOMAIN JsonMediaType
    BY <1>1, <1>2
  <2> QED
    BY <2>1, LowerOf
<1> QED
  BY <1>1, <1>2 DEF EqualsIgnoringAsciiCase

(* What is accepted begins where the trimmed text does.                    *)
LEMMA AcceptedNamesJson ==
    ASSUME NEW header, IsText(header), IsJsonContentType(header)
    PROVE  NamesJson(header)
<1> DEFINE C == {header[i] : i \in DOMAIN header}
           n == Len(JsonMediaType)
<1>0. /\ header \in Seq(C) /\ Len(header) \in Nat /\ Len(header) <= Npos
      /\ Npos \in Nat
  BY NposAssumption DEF IsText
<1>1. n \in Nat /\ n > 0 /\ DOMAIN JsonMediaType = 1 .. n
  BY MediaTypeAssumption
<1>2. PICK e \in 0 .. Len(header) :
         /\ Substr(header, 0, FindFirstOf(header, {Semicolon}, 0)) = SubSeq(header, 1, e)
         /\ \A i \in 1 .. e : header[i] # Semicolon
         /\ e < Len(header) => header[e + 1] = Semicolon
  BY <1>0, BeforeSemicolon
<1> DEFINE head == SubSeq(header, 1, e)
<1>3. /\ head \in Seq(C) /\ Len(head) = e /\ Len(head) <= Npos
      /\ \A i \in 1 .. e : head[i] = header[i]
  BY <1>0, <1>2
<1>4. EqualsIgnoringAsciiCase(TrimWhitespace(head), JsonMediaType)
  BY <1>2 DEF IsJsonContentType
<1> HIDE DEF head, C
<1>5. TrimWhitespace(head) # <<>>
  BY <1>1, <1>4 DEF EqualsIgnoringAsciiCase
<1>6a. PICK p \in 0 .. Len(head) : \E q \in p + 1 .. Len(head) :
         /\ TrimWhitespace(head) = SubSeq(head, p + 1, q)
         /\ \A i \in 1 .. p : head[i] \in OptionalWhitespace
         /\ \A i \in q + 1 .. Len(head) : head[i] \in OptionalWhitespace
  BY <1>3, <1>5, Trimmed
<1>6. PICK q \in p + 1 .. Len(head) :
         /\ TrimWhitespace(head) = SubSeq(head, p + 1, q)
         /\ \A i \in 1 .. p : head[i] \in OptionalWhitespace
         /\ \A i \in q + 1 .. Len(head) : head[i] \in OptionalWhitespace
  BY <1>6a
<1>7. p \in 0 .. e /\ q \in p .. e /\ q \in p + 1 .. e
  BY <1>2, <1>3, <1>6
<1> DEFINE trimmed == SubSeq(head, p + 1, q)
<1>8. /\ trimmed \in Seq(C) /\ Len(trimmed) = q - p
      /\ \A i \in 1 .. q - p : trimmed[i] = head[p + i]
  BY <1>3, <1>7, PartOf
<1> HIDE DEF trimmed
<1>9. n = q - p /\ \A i \in 1 .. n : trimmed[i] \in CasesOf(JsonMediaType[i])
  BY <1>4, <1>6, <1>8, SameIgnoringCase DEF trimmed
<1>10. ASSUME NEW i \in 1 .. n PROVE header[p + i] \in CasesOf(JsonMediaType[i])
  <2>1. p + i \in 1 .. e
    BY <1>2, <1>7, <1>9
  <2> QED
    BY <1>3, <1>8, <1>9, <2>1
<1>11. ASSUME NEW i \in 1 .. p PROVE header[i] \in OptionalWhitespace
  <2>1. i \in 1 .. e
    BY <1>2, <1>7
  <2> QED
    BY <1>3, <1>6, <2>1
<1>12. ASSUME NEW i \in (p + n) + 1 .. e PROVE header[i] \in OptionalWhitespace
  <2>1. i \in q + 1 .. Len(head) /\ i \in 1 .. e
    BY <1>1, <1>2, <1>3, <1>7, <1>9
  <2> QED
    BY <1>3, <1>6, <2>1
<1>13. /\ p \in 0 .. Len(header) /\ p + n <= Len(header)
       /\ e \in p + n .. Len(header)
  BY <1>0, <1>1, <1>2, <1>7, <1>9
<1> QED
  BY <1>1, <1>2, <1>10, <1>11, <1>12, <1>13 DEF NamesJson

(* A value of the grammar has no semicolon before the one that ends it,    *)
(* and no blank at either end of its media type.                           *)
LEMMA NamedIsAccepted ==
    ASSUME NEW header, IsText(header), NamesJson(header)
    PROVE  IsJsonContentType(header)
<1> DEFINE C == {header[i] : i \in DOMAIN header}
           n == Len(JsonMediaType)
<1>0. /\ header \in Seq(C) /\ Len(header) \in Nat /\ Len(header) <= Npos
      /\ Npos \in Nat
  BY NposAssumption DEF IsText
<1>1. n \in Nat /\ n > 0 /\ DOMAIN JsonMediaType = 1 .. n
  BY MediaTypeAssumption
<1>2. PICK before \in 0 .. Len(header) :
         /\ before + n <= Len(header)
         /\ \A i \in 1 .. before : header[i] \in OptionalWhitespace
         /\ \A i \in 1 .. n : header[before + i] \in CasesOf(JsonMediaType[i])
         /\ \E end \in before + n .. Len(header) :
               /\ \A i \in (before + n) + 1 .. end : header[i] \in OptionalWhitespace
               /\ end < Len(header) => header[end + 1] = Semicolon
  BY <1>1 DEF NamesJson
<1>3. PICK end \in before + n .. Len(header) :
         /\ \A i \in (before + n) + 1 .. end : header[i] \in OptionalWhitespace
         /\ end < Len(header) => header[end + 1] = Semicolon
  BY <1>2
<1>4. \A i \in 1 .. n : /\ header[before + i] \notin OptionalWhitespace
                        /\ header[before + i] # Semicolon
  BY <1>1, <1>2, MediaTypeAssumption
<1>5. ASSUME NEW i \in 1 .. end PROVE header[i] # Semicolon
  <2>1. CASE i <= before
    BY <1>2, <2>1, MediaTypeAssumption
  <2>2. CASE i > before /\ i <= before + n
    <3>1. i - before \in 1 .. n /\ before + (i - before) = i
      BY <1>1, <1>2, <1>3, <2>2
    <3> QED
      BY <1>4, <3>1
  <2>3. CASE i > before + n
    <3>1. i \in (before + n) + 1 .. end
      BY <1>1, <1>2, <1>3, <2>3
    <3> QED
      BY <1>3, <3>1, MediaTypeAssumption
  <2> QED
    BY <1>1, <1>2, <1>3, <2>1, <2>2, <2>3
<1>6. PICK e \in 0 .. Len(header) :
         /\ Substr(header, 0, FindFirstOf(header, {Semicolon}, 0)) = SubSeq(header, 1, e)
         /\ \A i \in 1 .. e : header[i] # Semicolon
         /\ e < Len(header) => header[e + 1] = Semicolon
  BY <1>0, BeforeSemicolon
<1>7. e = end
  <2>1. end \in 0 .. Len(header)
    BY <1>1, <1>2, <1>3
  <2>2. ~(e < end)
    <3> SUFFICES ASSUME e < end PROVE FALSE
      OBVIOUS
    <3>1. e + 1 \in 1 .. end /\ e < Len(header)
      BY <1>0, <1>6, <2>1
    <3> QED
      BY <1>5, <1>6, <3>1
  <2>3. ~(end < e)
    <3> SUFFICES ASSUME end < e PROVE FALSE
      OBVIOUS
    <3>1. end + 1 \in 1 .. e /\ end < Len(header)
      BY <1>0, <1>6, <2>1
    <3> QED
      BY <1>3, <1>6, <3>1
  <2> QED
    BY <1>6, <2>1, <2>2, <2>3
<1> DEFINE head == SubSeq(header, 1, e)
<1>8. /\ head \in Seq(C) /\ Len(head) = e /\ Len(head) <= Npos
      /\ \A i \in 1 .. e : head[i] = header[i]
  BY <1>0, <1>6
<1> HIDE DEF head, C
<1>9. /\ before \in Nat /\ e \in Nat /\ before + 1 \in 1 .. e /\ before + n \in 1 .. e
      /\ 1 \in 1 .. n /\ n \in 1 .. n
  BY <1>1, <1>2, <1>3, <1>7
<1>10. head[before + 1] \notin OptionalWhitespace /\ head[before + n] \notin OptionalWhitespace
  BY <1>4, <1>8, <1>9
<1>11a. PICK p \in 0 .. Len(head) : \E q \in p + 1 .. Len(head) :
         /\ TrimWhitespace(head) = SubSeq(head, p + 1, q)
         /\ head[p + 1] \notin OptionalWhitespace
         /\ head[q] \notin OptionalWhitespace
         /\ \A i \in 1 .. p : head[i] \in OptionalWhitespace
         /\ \A i \in q + 1 .. Len(head) : head[i] \in OptionalWhitespace
  BY <1>8, <1>9, <1>10, Trimmed
<1>11. PICK q \in p + 1 .. Len(head) :
         /\ TrimWhitespace(head) = SubSeq(head, p + 1, q)
         /\ head[p + 1] \notin OptionalWhitespace
         /\ head[q] \notin OptionalWhitespace
         /\ \A i \in 1 .. p : head[i] \in OptionalWhitespace
         /\ \A i \in q + 1 .. Len(head) : head[i] \in OptionalWhitespace
  BY <1>11a
<1>12. p = before
  <2>1. ~(before + 1 \in 1 .. p)
    BY <1>10, <1>11
  <2>2. ~(p + 1 \in 1 .. before)
    <3> SUFFICES ASSUME p + 1 \in 1 .. before PROVE FALSE
      OBVIOUS
    <3>1. p + 1 \in 1 .. e
      BY <1>8, <1>9, <1>11
    <3> QED
      BY <1>2, <1>8, <1>11, <3>1
  <2> QED
    BY <1>8, <1>9, <1>11, <2>1, <2>2
<1>13. q = before + n
  <2>1. ~(before + n \in q + 1 .. Len(head))
    BY <1>10, <1>11
  <2>2. ~(q \in (before + n) + 1 .. end)
    <3> SUFFICES ASSUME q \in (before + n) + 1 .. end PROVE FALSE
      OBVIOUS
    <3>1. q \in 1 .. e
      BY <1>8, <1>11
    <3> QED
      BY <1>3, <1>8, <1>11, <3>1
  <2> QED
    BY <1>1, <1>7, <1>8, <1>9, <1>11, <2>1, <2>2
<1> DEFINE trimmed == SubSeq(head, p + 1, q)
<1>14. p \in 0 .. Len(head) /\ q \in p .. Len(head) /\ q - p = n
  BY <1>1, <1>8, <1>9, <1>11, <1>12, <1>13
<1>15. /\ trimmed \in Seq(C) /\ Len(trimmed) = n
       /\ \A i \in 1 .. n : trimmed[i] = head[before + i]
  <2>1. /\ trimmed \in Seq(C) /\ Len(trimmed) = q - p
        /\ \A i \in 1 .. q - p : trimmed[i] = head[p + i]
    BY <1>8, <1>14, PartOf
  <2> QED
    BY <1>12, <1>14, <2>1
<1> HIDE DEF trimmed
<1>16. ASSUME NEW i \in 1 .. n PROVE trimmed[i] \in CasesOf(JsonMediaType[i])
  <2>1. before + i \in 1 .. e
    BY <1>1, <1>2, <1>3, <1>7
  <2> QED
    BY <1>2, <1>8, <1>15, <2>1
<1>17. EqualsIgnoringAsciiCase(trimmed, JsonMediaType)
  BY <1>15, <1>16, SameIgnoringCase
<1> QED
  BY <1>6, <1>11, <1>17 DEF IsJsonContentType, trimmed, head

(* content_type.cpp: for a Content-Type of any length, over any characters,*)
(* and any media type, what is_json_content_type() accepts is exactly the  *)
(* media type by RFC 9110's grammar (FR-70).                               *)
THEOREM ExactlyJsonIsAccepted == Spec => []AcceptsExactlyJson
<1>1. Answered => AcceptsExactlyJson
  <2> SUFFICES ASSUME Answered, Returned("is_json_content_type")
               PROVE  Result <=> NamesJson(call.text)
    BY DEF AcceptsExactlyJson
  <2>1. IsText(call.text)
    BY InputsAssumption DEF Answered, Answers, Returned
  <2>2. Result = IsJsonContentType(call.text)
    BY DEF Answered, Answers, Returned, Result
  <2>3. IsJsonContentType(call.text) <=> NamesJson(call.text)
    BY <2>1, AcceptedNamesJson, NamedIsAccepted
  <2> QED
    BY <2>2, <2>3
<1> QED
  BY <1>1, AlwaysAnswered, PTL

-----------------------------------------------------------------------------
(* Request ids.                                                            *)

LEMMA PowerIs ==
    /\ PowerOf16 \in [Nat -> Nat \ {0}]
    /\ PowerOf16[0] = 1
    /\ \A n \in Nat : PowerOf16[n + 1] = 16 * PowerOf16[n]
<1> DEFINE X == Nat \ {0}
           Step == [n \in Nat |-> [power \in X |-> 16 * power]]
           Is(p) == p = [n \in Nat |-> IF n = 0 THEN 1 ELSE 16 * p[n - 1]]
<1>1. 1 \in X /\ Step \in [Nat -> [X -> X]]
  OBVIOUS
<1>2. PICK f : IsIteration(f, X, 1, Step)
  <2> HIDE DEF X, Step
  <2> QED
    BY <1>1, Iteration
<1>3. f \in [Nat -> X] /\ f[0] = 1 /\ \A n \in Nat : f[n + 1] = 16 * f[n]
  BY <1>2 DEF IsIteration
<1>4. ASSUME NEW n \in Nat PROVE f[n] = IF n = 0 THEN 1 ELSE 16 * f[n - 1]
  <2>1. n # 0 => n - 1 \in Nat /\ (n - 1) + 1 = n
    OBVIOUS
  <2> QED
    BY <1>3, <2>1
<1>5. Is(f)
  BY <1>3, <1>4
<1>6. Is(PowerOf16)
  BY <1>5 DEF PowerOf16
<1> HIDE DEF Is
<1>7. /\ DOMAIN PowerOf16 = Nat /\ PowerOf16[0] = 1
      /\ \A n \in Nat : n # 0 => PowerOf16[n] = 16 * PowerOf16[n - 1]
  BY <1>6 DEF Is
<1>8. \A n \in Nat : PowerOf16[n + 1] = 16 * PowerOf16[n]
  <2>1. \A n \in Nat : n + 1 \in Nat /\ n + 1 # 0 /\ (n + 1) - 1 = n
    OBVIOUS
  <2> QED
    BY <1>7, <2>1
<1> DEFINE T == {n \in Nat : PowerOf16[n] \in X}
<1>9. Nat \subseteq T
  <2>1. 0 \in T
    BY <1>7
  <2>2. \A n \in Nat : n \in T => n + 1 \in T
    BY <1>8
  <2> HIDE DEF T
  <2> QED
    BY <2>1, <2>2, Induction
<1>10. PowerOf16 = [n \in Nat |-> PowerOf16[n]]
  BY <1>6 DEF Is
<1> QED
  BY <1>7, <1>8, <1>9, <1>10

(* The value of a digit. *)
DigitValue(digit) == IF digit < 58 THEN digit - 48 ELSE digit - 87

LEMMA DigitReadsBack ==
    ASSUME NEW digit \in 0 .. 15
    PROVE  /\ IdDigit(digit) \in (48 .. 57) \cup (97 .. 102)
           /\ DigitValue(IdDigit(digit)) = digit
  BY DEF IdDigit, DigitValue

(* Digits stand for the number that Horner's rule makes of them.           *)
LEMMA WordOfIs ==
    ASSUME NEW digits \in Seq(Int)
    PROVE  \E upTo \in [0 .. Len(digits) -> Int] :
             /\ upTo[0] = 0
             /\ \A n \in 1 .. Len(digits) :
                   upTo[n] = 16 * upTo[n - 1] + DigitValue(digits[n])
             /\ WordOf(digits) = upTo[Len(digits)]
<1> DEFINE N == Len(digits)
           value(digit) == IF digit < 58 THEN digit - 48 ELSE digit - 87
           Step == [n \in Nat |-> [number \in Int |->
                      IF n + 1 <= N THEN 16 * number + value(digits[n + 1]) ELSE 0]]
           Is(w) == w = [n \in 0 .. N |-> IF n = 0 THEN 0
                                          ELSE 16 * w[n - 1] + value(digits[n])]
           upTo == CHOOSE w : Is(w)
<1>0. N \in Nat
  OBVIOUS
<1>1. Step \in [Nat -> [Int -> Int]] /\ 0 \in Int
  <2>1. ASSUME NEW n \in Nat, n + 1 <= N PROVE digits[n + 1] \in Int
    BY <1>0, <2>1
  <2>2. ASSUME NEW n \in Nat, n + 1 <= N PROVE value(digits[n + 1]) \in Int
    BY <2>1, <2>2
  <2> QED
    BY <2>2
<1>2. PICK f : IsIteration(f, Int, 0, Step)
  <2> HIDE DEF Step
  <2> QED
    BY <1>1, Iteration
<1>3. /\ f \in [Nat -> Int] /\ f[0] = 0
      /\ \A n \in Nat : n + 1 <= N => f[n + 1] = 16 * f[n] + value(digits[n + 1])
  BY <1>2 DEF IsIteration
<1> DEFINE g == [n \in 0 .. N |-> f[n]]
<1>4. ASSUME NEW n \in 0 .. N
      PROVE  g[n] = IF n = 0 THEN 0 ELSE 16 * g[n - 1] + value(digits[n])
  <2>1. n # 0 => n - 1 \in Nat /\ (n - 1) + 1 = n /\ n <= N /\ n - 1 \in 0 .. N
    BY <1>0
  <2> HIDE DEF value
  <2> QED
    BY <1>3, <2>1
<1>5. Is(g)
  <2>1. g = [n \in 0 .. N |-> g[n]]
    OBVIOUS
  <2> HIDE DEF g, value
  <2> QED
    BY <1>4, <2>1
<1>6. Is(upTo)
  <2> HIDE DEF g
  <2> QED
    BY <1>5
<1>7. WordOf(digits) = upTo[N]
  BY DEF WordOf
<1> HIDE DEF upTo
<1>8. /\ upTo[0] = 0
      /\ \A n \in 1 .. N : upTo[n] = 16 * upTo[n - 1] + value(digits[n])
  <2>1. 0 \in 0 .. N /\ \A n \in 1 .. N : n \in 0 .. N /\ n # 0
    BY <1>0
  <2>2. \A n \in 0 .. N : upTo[n] = IF n = 0 THEN 0
                                    ELSE 16 * upTo[n - 1] + value(digits[n])
    <3> HIDE DEF N, value
    <3> QED
      BY <1>6
  <2> HIDE DEF value
  <2> QED
    BY <2>1, <2>2
<1> DEFINE T == {n \in Nat : n <= N => upTo[n] \in Int}
<1>9. Nat \subseteq T
  <2>1. 0 \in T
    BY <1>8
  <2>2. ASSUME NEW n \in Nat, n \in T PROVE n + 1 \in T
    <3> SUFFICES ASSUME n + 1 <= N PROVE upTo[n + 1] \in Int
      OBVIOUS
    <3>1. n <= N /\ n + 1 \in 1 .. N /\ (n + 1) - 1 = n
      BY <1>0
    <3>2. upTo[n] \in Int /\ digits[n + 1] \in Int
      BY <2>2, <3>1
    <3>3. value(digits[n + 1]) \in Int
      BY <3>2
    <3> HIDE DEF value
    <3>4. upTo[n + 1] = 16 * upTo[n] + value(digits[n + 1])
      BY <1>8, <3>1
    <3> QED
      BY <3>2, <3>3, <3>4
  <2> HIDE DEF T
  <2> QED
    BY <2>1, <2>2, Induction
<1>10. upTo \in [0 .. N -> Int]
  <2>1. upTo = [n \in 0 .. N |-> upTo[n]]
    <3> HIDE DEF N, value
    <3> QED
      BY <1>6
  <2>2. \A n \in 0 .. N : upTo[n] \in Int
    BY <1>0, <1>9
  <2> HIDE DEF N
  <2> QED
    BY <2>1, <2>2
<1>11. \A digit : value(digit) = DigitValue(digit)
  BY DEF DigitValue
<1> HIDE DEF value
<1> QED
  BY <1>7, <1>8, <1>10, <1>11

(* The digits of a word: hexadecimal, and as many as it has. *)
LEMMA HexWordIs ==
    ASSUME NEW word \in Nat
    PROVE  /\ HexWord(word) \in Seq(Int) /\ Len(HexWord(word)) = HexDigitsPerWord
           /\ \A i \in 1 .. HexDigitsPerWord :
                 /\ HexWord(word)[i] \in (48 .. 57) \cup (97 .. 102)
                 /\ DigitValue(HexWord(word)[i]) =
                      (word \div PowerOf16[HexDigitsPerWord - i]) % 16
<1> DEFINE H == HexDigitsPerWord
<1>0. H \in Nat
  BY RequestIdAssumption
<1>1. ASSUME NEW i \in 1 .. H
      PROVE  /\ HexWord(word)[i] = IdDigit((word \div PowerOf16[H - i]) % 16)
             /\ (word \div PowerOf16[H - i]) % 16 \in 0 .. 15
  <2>1. Shift(i - 1) = H - i /\ H - i \in Nat
    BY <1>0 DEF Shift
  <2>2. PowerOf16[H - i] \in Nat \ {0}
    BY <2>1, PowerIs
  <2>3. word \div PowerOf16[H - i] \in Nat
    BY <2>2
  <2> QED
    BY <2>1, <2>3 DEF HexWord
<1>2. \A i \in 1 .. H : HexWord(word)[i] \in Int
  BY <1>1, DigitReadsBack
<1>3. HexWord(word) = [i \in 1 .. H |-> HexWord(word)[i]]
  BY DEF HexWord
<1>4. HexWord(word) \in [1 .. H -> Int]
  BY <1>2, <1>3
<1>5. HexWord(word) \in Seq(Int) /\ Len(HexWord(word)) = H
  BY <1>0, <1>4
<1> QED
  BY <1>1, <1>5, DigitReadsBack

LEMMA ShiftedOnce ==
    ASSUME NEW w \in Nat, NEW p \in Nat \ {0}
    PROVE  w \div p \in Nat /\ w \div (16 * p) = (w \div p) \div 16
  OBVIOUS

LEMMA LastDigit ==
    ASSUME NEW w \in Nat
    PROVE  w = 16 * (w \div 16) + (w % 16)
  OBVIOUS

(* The leading digits are the word shifted right by the digits behind.     *)
LEMMA WordReadsBack ==
    ASSUME NEW word \in 0 .. PowerOf16[HexDigitsPerWord] - 1
    PROVE  WordOf(HexWord(word)) = word
<1> DEFINE H == HexDigitsPerWord
           digits == HexWord(word)
<1>0. H \in Nat /\ word \in Nat /\ PowerOf16[H] \in Nat \ {0} /\ word < PowerOf16[H]
  BY RequestIdAssumption, PowerIs
<1>1. /\ digits \in Seq(Int) /\ Len(digits) = H
      /\ \A i \in 1 .. H : DigitValue(digits[i]) = (word \div PowerOf16[H - i]) % 16
  BY <1>0, HexWordIs
<1> HIDE DEF digits
<1>2. PICK upTo \in [0 .. H -> Int] :
         /\ upTo[0] = 0
         /\ \A n \in 1 .. H : upTo[n] = 16 * upTo[n - 1] + DigitValue(digits[n])
         /\ WordOf(digits) = upTo[H]
  BY <1>1, WordOfIs
<1> DEFINE T == {n \in Nat : n <= H => upTo[n] = word \div PowerOf16[H - n]}
<1>3. 0 \in T
  <2>1. word \div PowerOf16[H] = 0
    BY <1>0
  <2>2. H - 0 = H
    BY <1>0
  <2> QED
    BY <1>2, <2>1, <2>2
<1>4. ASSUME NEW n \in Nat, n \in T PROVE n + 1 \in T
  <2> SUFFICES ASSUME n + 1 <= H PROVE upTo[n + 1] = word \div PowerOf16[H - (n + 1)]
    OBVIOUS
  <2> DEFINE p == PowerOf16[H - (n + 1)]
  <2>1. /\ n <= H /\ n + 1 \in 1 .. H /\ (n + 1) - 1 = n /\ H - (n + 1) \in Nat
        /\ (H - (n + 1)) + 1 = H - n
    BY <1>0
  <2>2. p \in Nat \ {0} /\ PowerOf16[H - n] = 16 * p
    BY <2>1, PowerIs
  <2>3. upTo[n] = word \div (16 * p)
    BY <1>4, <2>1, <2>2
  <2>4. upTo[n + 1] = 16 * upTo[n] + ((word \div p) % 16)
    <3>1. upTo[n + 1] = 16 * upTo[n] + DigitValue(digits[n + 1])
      BY <1>2, <2>1
    <3>2. DigitValue(digits[n + 1]) = (word \div p) % 16
      BY <1>1, <2>1
    <3> QED
      BY <3>1, <3>2
  <2> HIDE DEF p
  <2>5. word \div (16 * p) = (word \div p) \div 16 /\ word \div p \in Nat
    BY <1>0, <2>2, ShiftedOnce
  <2>6. word \div p = 16 * ((word \div p) \div 16) + ((word \div p) % 16)
    BY <2>5, LastDigit
  <2>7. upTo[n + 1] = word \div p
    BY <2>3, <2>4, <2>5, <2>6, Zenon
  <2> QED
    BY <2>7 DEF p
<1>5. Nat \subseteq T
  <2> HIDE DEF T
  <2> QED
    BY <1>3, <1>4, Induction
<1>6. upTo[H] = word \div PowerOf16[0]
  <2>1. H \in T /\ H <= H /\ H - H = 0
    BY <1>0, <1>5
  <2> QED
    BY <2>1
<1>7. word \div PowerOf16[0] = word
  BY <1>0, PowerIs
<1> QED
  BY <1>2, <1>6, <1>7 DEF digits

LEMMA SameSequence ==
    ASSUME NEW S, NEW s \in Seq(S), NEW t \in Seq(S), Len(s) = Len(t),
           \A i \in 1 .. Len(s) : s[i] = t[i]
    PROVE  s = t
  OBVIOUS

(* The two halves of an id. *)
LEMMA Halves ==
    ASSUME NEW s \in Seq(Int), NEW t \in Seq(Int)
    PROVE  /\ SubSeq(s \o t, 1, Len(s)) = s
           /\ SubSeq(s \o t, Len(s) + 1, Len(s \o t)) = t
           /\ Len(s \o t) = Len(s) + Len(t)
           /\ \A i \in DOMAIN (s \o t) : \/ i \in 1 .. Len(s) /\ (s \o t)[i] = s[i]
                                         \/ /\ i - Len(s) \in 1 .. Len(t)
                                            /\ (s \o t)[i] = t[i - Len(s)]
<1>0. Len(s) \in Nat /\ Len(t) \in Nat
  OBVIOUS
<1>1. /\ s \o t \in Seq(Int) /\ Len(s \o t) = Len(s) + Len(t)
      /\ \A i \in 1 .. Len(s) + Len(t) :
            (s \o t)[i] = IF i <= Len(s) THEN s[i] ELSE t[i - Len(s)]
  OBVIOUS
<1>2. SubSeq(s \o t, 1, Len(s)) = s
  <2>1. /\ SubSeq(s \o t, 1, Len(s)) \in Seq(Int)
        /\ Len(SubSeq(s \o t, 1, Len(s))) = Len(s)
        /\ \A i \in 1 .. Len(s) : SubSeq(s \o t, 1, Len(s))[i] = s[i]
    BY <1>0, <1>1
  <2> QED
    BY <2>1
<1>3. SubSeq(s \o t, Len(s) + 1, Len(s \o t)) = t
  <2> DEFINE both == s \o t
             p == Len(s)
             q == Len(both)
             r == SubSeq(both, p + 1, q)
  <2>1. both \in Seq(Int) /\ p \in 0 .. q /\ q \in p .. q /\ q - p = Len(t)
    BY <1>0, <1>1
  <2>2. /\ r \in Seq(Int) /\ Len(r) = Len(t)
        /\ \A i \in 1 .. Len(t) : r[i] = both[p + i]
    <3>1. p \in 0 .. Len(both) /\ q \in p .. Len(both)
      BY <2>1
    <3> HIDE DEF both, p, q
    <3>2. /\ SubSeq(both, p + 1, q) \in Seq(Int)
          /\ Len(SubSeq(both, p + 1, q)) = q - p
          /\ \A i \in 1 .. q - p : SubSeq(both, p + 1, q)[i] = both[p + i]
      BY <2>1, <3>1, PartOf
    <3> QED
      BY <2>1, <3>2
  <2>3. ASSUME NEW i \in 1 .. Len(t) PROVE r[i] = t[i]
    <3>1. /\ Len(s) + i \in 1 .. Len(s) + Len(t) /\ ~(Len(s) + i <= Len(s))
          /\ (Len(s) + i) - Len(s) = i
      BY <1>0
    <3> QED
      BY <1>1, <2>2, <3>1
  <2> HIDE DEF r
  <2>4. r = t
    BY <2>2, <2>3, SameSequence
  <2> QED
    BY <2>4 DEF r
<1>4. ASSUME NEW i \in DOMAIN (s \o t)
      PROVE  \/ i \in 1 .. Len(s) /\ (s \o t)[i] = s[i]
             \/ i - Len(s) \in 1 .. Len(t) /\ (s \o t)[i] = t[i - Len(s)]
  <2>1. i \in 1 .. Len(s) + Len(t)
    BY <1>1
  <2> QED
    BY <1>0, <1>1, <2>1
<1> QED
  BY <1>1, <1>2, <1>3, <1>4

(* request_id.cpp: for words of any width, an id is 2 * HexDigitsPerWord   *)
(* digits that the server would itself accept, and gives back the words it *)
(* was generated from.                                                     *)
THEOREM IdsTellTheWords == Spec => []IdTellsTheWords
<1>1. Answered => IdTellsTheWords
  <2> DEFINE H == HexDigitsPerWord
             s == HexWord(call.high)
             t == HexWord(call.low)
  <2> SUFFICES ASSUME Answered, Returned("generate_request_id")
               PROVE  /\ IsAcceptableRequestId(Result)
                      /\ Len(Result) = 2 * H
                      /\ WordOf(SubSeq(Result, 1, H)) = call.high
                      /\ WordOf(SubSeq(Result, H + 1, Len(Result))) = call.low
    BY DEF IdTellsTheWords
  <2>1. Result = s \o t
    BY DEF Answered, Answers, Returned, Result, FormatRequestId
  <2>2. /\ call.high \in 0 .. PowerOf16[H] - 1 /\ call.low \in 0 .. PowerOf16[H] - 1
        /\ H \in Nat \ {0} /\ 2 * H <= MaxRequestIdLength
    BY InputsAssumption, RequestIdAssumption DEF Answered, Answers, Returned
  <2>3. call.high \in Nat /\ call.low \in Nat
    BY <2>2
  <2>4. /\ s \in Seq(Int) /\ Len(s) = H /\ \A i \in 1 .. H : s[i] \in (48 .. 57) \cup (97 .. 102)
        /\ t \in Seq(Int) /\ Len(t) = H /\ \A i \in 1 .. H : t[i] \in (48 .. 57) \cup (97 .. 102)
    BY <2>3, HexWordIs
  <2>5. WordOf(s) = call.high /\ WordOf(t) = call.low
    BY <2>2, WordReadsBack
  <2> HIDE DEF s, t
  <2>6. /\ SubSeq(Result, 1, H) = s /\ SubSeq(Result, H + 1, Len(Result)) = t
        /\ Len(Result) = H + H
    <3>1. /\ SubSeq(s \o t, 1, Len(s)) = s
          /\ SubSeq(s \o t, Len(s) + 1, Len(s \o t)) = t
          /\ Len(s \o t) = Len(s) + Len(t)
      BY <2>4, Halves
    <3>2. Len(s) = H /\ Len(t) = H
      BY <2>4
    <3> QED
      BY <2>1, <3>1, <3>2, Zenon
  <2>7. \A i \in DOMAIN Result : Result[i] \in (48 .. 57) \cup (97 .. 102)
    <3> SUFFICES ASSUME NEW i \in DOMAIN (s \o t)
                 PROVE  (s \o t)[i] \in (48 .. 57) \cup (97 .. 102)
      BY <2>1
    <3>1. \/ i \in 1 .. Len(s) /\ (s \o t)[i] = s[i]
          \/ i - Len(s) \in 1 .. Len(t) /\ (s \o t)[i] = t[i - Len(s)]
      BY <2>4, Halves
    <3>2. Len(s) = H /\ Len(t) = H
      BY <2>4
    <3>3. (s \o t)[i] = s[i] /\ i \in 1 .. H => (s \o t)[i] \in (48 .. 57) \cup (97 .. 102)
      BY <2>4
    <3>4. (s \o t)[i] = t[i - H] /\ i - H \in 1 .. H
            => (s \o t)[i] \in (48 .. 57) \cup (97 .. 102)
      BY <2>4, Zenon
    <3> QED
      BY <3>1, <3>2, <3>3, <3>4, Zenon
  <2>8. \A character \in (48 .. 57) \cup (97 .. 102) : IsRequestIdCharacter(character)
    BY DEF IsRequestIdCharacter
  <2>9. H + H = 2 * H /\ Result # <<>>
    BY <2>2, <2>6
  <2>10. IsAcceptableRequestId(Result)
    BY <2>2, <2>6, <2>7, <2>8, <2>9 DEF IsAcceptableRequestId
  <2> QED
    BY <2>5, <2>6, <2>9, <2>10
<1> QED
  BY <1>1, AlwaysAnswered, PTL

-----------------------------------------------------------------------------
(* Words.                                                                  *)

(* The words are the runs that begin within the first characters, in       *)
(* their order.                                                            *)
RunsWithin(words, text, limit) ==
    \E at \in [1 .. Len(words) -> 1 .. limit] :
        /\ \A j, k \in 1 .. Len(words) : j < k => at[j] < at[k]
        /\ \A i \in 1 .. limit :
              BeginsAt(text, i) <=> \E k \in 1 .. Len(words) : at[k] = i
        /\ \A k \in 1 .. Len(words) : words[k] = RunFrom(text, at[k])

(* What the loop has left behind when it is at start. *)
Behind(text, start) == IF start = Npos THEN Len(text) ELSE start

(* The word at start ends at stop, which is where the search for a space   *)
(* ended.                                                                  *)
EndsAt(text, start, end, stop) ==
    /\ stop = IF end = Npos THEN Len(text) ELSE end
    /\ end \in Nat
    /\ end # Npos => stop < Len(text) /\ text[stop + 1] \in Space
    /\ \A i \in start + 1 .. stop : text[i] \notin Space
    /\ Substr(text, start, end - start) = SubSeq(text, start + 1, stop)

LEMMA WordEnd ==
    ASSUME NEW C, NEW text \in Seq(C), Len(text) <= Npos,
           NEW start \in 0 .. Len(text) - 1, text[start + 1] \notin Space,
           NEW end, end = FindFirstOf(text, Space, start)
    PROVE  \E stop \in start + 1 .. Len(text) : EndsAt(text, start, end, stop)
<1>0. Len(text) \in Nat /\ Npos \in Nat /\ start \in Nat /\ start \in 0 .. Len(text)
      /\ start < Npos
  BY NposAssumption
<1>1. CASE end = Npos /\ \A i \in start + 1 .. Len(text) : text[i] \notin Space
  <2>1. /\ Npos - start \in Nat /\ Len(text) \in start + 1 .. Len(text)
        /\ Npos - start <= Len(text) - start => start + (Npos - start) = Len(text)
    BY <1>0
  <2>2. Substr(text, start, end - start) = SubSeq(text, start + 1, Len(text))
    BY <1>0, <1>1, <2>1, Cut
  <2>3. EndsAt(text, start, end, Len(text))
    BY <1>0, <1>1, <2>2 DEF EndsAt
  <2> QED
    BY <2>1, <2>3
<1>2. CASE /\ end \in start .. Len(text) - 1
           /\ end # Npos
           /\ text[end + 1] \in Space
           /\ \A i \in start + 1 .. end : text[i] \notin Space
  <2>1. end # start
    BY <1>2
  <2>2. /\ end \in Nat /\ end \in start + 1 .. Len(text) /\ end < Len(text)
        /\ end - start \in Nat /\ end - start <= Len(text) - start
        /\ start + (end - start) = end
    BY <1>0, <1>2, <2>1
  <2>3. Substr(text, start, end - start) = SubSeq(text, start + 1, end)
    BY <1>0, <2>2, Cut
  <2>4. EndsAt(text, start, end, end)
    BY <1>2, <2>2, <2>3 DEF EndsAt
  <2> QED
    BY <2>2, <2>4
<1> QED
  BY <1>0, <1>1, <1>2, FirstOf

(* A turn of the loop takes the run at start, and the next one it finds is *)
(* the next there is.                                                      *)
LEMMA OneTurn ==
    ASSUME NEW C, NEW text \in Seq(C), Len(text) <= Npos,
           NEW start \in 0 .. Len(text) - 1, BeginsAt(text, start + 1),
           NEW end, end = FindFirstOf(text, Space, start),
           NEW next, next = NextStart(text, end)
    PROVE  /\ Substr(text, start, end - start) = RunFrom(text, start + 1)
           /\ \/ next = Npos
              \/ next \in start + 1 .. Len(text) - 1 /\ BeginsAt(text, next + 1)
           /\ \A i \in start + 2 .. Behind(text, next) : ~BeginsAt(text, i)
           /\ Behind(text, next) \in start + 1 .. Len(text)
<1>0. /\ Len(text) \in Nat /\ Npos \in Nat /\ start \in Nat
      /\ DOMAIN text = 1 .. Len(text)
  BY NposAssumption
<1>1. text[start + 1] \notin Space
  BY DEF BeginsAt, IsSpaceAt
<1>a. PICK stop \in start + 1 .. Len(text) : EndsAt(text, start, end, stop)
  BY <1>1, WordEnd
<1>2. /\ stop = IF end = Npos THEN Len(text) ELSE end
      /\ end \in Nat
      /\ end # Npos => stop < Len(text) /\ text[stop + 1] \in Space
      /\ \A i \in start + 1 .. stop : text[i] \notin Space
      /\ Substr(text, start, end - start) = SubSeq(text, start + 1, stop)
  BY <1>a, Zenon DEF EndsAt
<1>3. IsSpaceAt(text, stop + 1)
  <2>1. CASE end = Npos
    <3>1. stop + 1 \notin 1 .. Len(text)
      BY <1>0, <1>2, <2>1
    <3> QED
      BY <1>0, <3>1 DEF IsSpaceAt
  <2>2. CASE end # Npos
    BY <1>2, <2>2 DEF IsSpaceAt
  <2> QED
    BY <2>1, <2>2
<1>4. ASSUME NEW i \in start + 1 .. stop PROVE ~IsSpaceAt(text, i)
  <2>1. i \in 1 .. Len(text)
    BY <1>0
  <2> QED
    BY <1>0, <1>2, <2>1 DEF IsSpaceAt
<1> DEFINE ends == {j \in start + 1 .. Len(text) : IsSpaceAt(text, j + 1)}
<1>5. Min(ends) = stop
  <2>1. stop \in ends /\ ends \subseteq Nat
    BY <1>0, <1>3
  <2>2. Min(ends) \in ends /\ Min(ends) <= stop
    BY <2>1, MinIsLeast
  <2>3. ~(Min(ends) < stop)
    <3> SUFFICES ASSUME Min(ends) < stop PROVE FALSE
      OBVIOUS
    <3>1. Min(ends) \in start + 1 .. Len(text) /\ IsSpaceAt(text, Min(ends) + 1)
      BY <2>2
    <3>2. Min(ends) + 1 \in start + 1 .. stop
      BY <1>0, <3>1
    <3> QED
      BY <1>4, <3>1, <3>2
  <2>4. Min(ends) \in Int /\ stop \in Int
    BY <1>0, <2>2
  <2> QED
    BY <2>2, <2>3, <2>4
<1>6. Substr(text, start, end - start) = RunFrom(text, start + 1)
  BY <1>2, <1>5 DEF RunFrom
<1>7. ASSUME NEW i \in start + 2 .. stop PROVE ~BeginsAt(text, i)
  <2>1. i - 1 \in start + 1 .. stop
    BY <1>0
  <2> QED
    BY <1>4, <2>1 DEF BeginsAt
<1>8. \/ /\ next = Npos
         /\ \A i \in end + 1 .. Len(text) : text[i] \in Space
      \/ /\ next \in end .. Len(text) - 1
         /\ next # Npos
         /\ text[next + 1] \notin Space
         /\ \A i \in end + 1 .. next : text[i] \in Space
  BY <1>2, FirstNotOf DEF NextStart
<1>9. CASE end = Npos
  <2>1. next = Npos
    BY <1>0, <1>8, <1>9
  <2>2. Behind(text, next) = stop
    BY <1>2, <1>9, <2>1 DEF Behind
  <2> QED
    BY <1>2, <1>6, <1>7, <2>1, <2>2
<1>10. CASE end # Npos /\ next = Npos
  <2>1. Behind(text, next) = Len(text) /\ stop = end
    BY <1>2, <1>10 DEF Behind
  <2>2. ASSUME NEW i \in start + 2 .. Len(text) PROVE ~BeginsAt(text, i)
    <3>1. CASE i \in start + 2 .. stop
      BY <1>7, <3>1
    <3>2. CASE i \in end + 1 .. Len(text)
      <4>1. text[i] \in Space
        BY <1>0, <1>2, <1>8, <1>10, <3>2
      <4> QED
        BY <4>1 DEF BeginsAt, IsSpaceAt
    <3> QED
      BY <1>0, <1>2, <2>1, <3>1, <3>2
  <2>3. Len(text) \in start + 1 .. Len(text)
    BY <1>0
  <2> QED
    BY <1>6, <1>10, <2>1, <2>2, <2>3
<1>11. CASE end # Npos /\ next # Npos
  <2>1. /\ next \in end .. Len(text) - 1
        /\ text[next + 1] \notin Space
        /\ \A i \in end + 1 .. next : text[i] \in Space
        /\ stop = end /\ text[end + 1] \in Space
    BY <1>2, <1>8, <1>11
  <2>2. next # end
    BY <2>1
  <2>3. /\ next \in end + 1 .. next /\ next \in start + 1 .. Len(text) - 1
        /\ next + 1 \in 1 .. Len(text) /\ (next + 1) - 1 = next
        /\ next \in start + 1 .. Len(text)
    BY <1>0, <1>2, <2>1, <2>2
  <2>4. BeginsAt(text, next + 1)
    BY <1>0, <2>1, <2>3 DEF BeginsAt, IsSpaceAt
  <2>5. Behind(text, next) = next
    BY <1>11 DEF Behind
  <2>6. ASSUME NEW i \in start + 2 .. next PROVE ~BeginsAt(text, i)
    <3>1. CASE i \in start + 2 .. stop
      BY <1>7, <3>1
    <3>2. CASE i \in end + 1 .. next
      BY <2>1, <3>2 DEF BeginsAt, IsSpaceAt
    <3>3. stop = end /\ next \in Int
      BY <1>0, <2>1, <2>3
    <3>4. i \in start + 2 .. stop \/ i \in stop + 1 .. next
      BY <1>0, <3>3
    <3> QED
      BY <3>1, <3>2, <3>3, <3>4, Zenon
  <2> QED
    BY <1>6, <2>3, <2>4, <2>5, <2>6
<1> QED
  BY <1>9, <1>10, <1>11

(* A run more. *)
LEMMA RunAdded ==
    ASSUME NEW C, NEW text \in Seq(C), NEW D, NEW words \in Seq(D),
           NEW start \in 0 .. Len(text) - 1, RunsWithin(words, text, start),
           BeginsAt(text, start + 1), NEW run \in D, run = RunFrom(text, start + 1),
           NEW limit \in start + 1 .. Len(text),
           \A i \in start + 2 .. limit : ~BeginsAt(text, i)
    PROVE  RunsWithin(Append(words, run), text, limit)
<1> DEFINE m == Len(words)
           more == Append(words, run)
<1>0. m \in Nat /\ start \in Nat /\ Len(text) \in Nat
  OBVIOUS
<1>1. PICK at \in [1 .. m -> 1 .. start] :
         /\ \A j, k \in 1 .. m : j < k => at[j] < at[k]
         /\ \A i \in 1 .. start : BeginsAt(text, i) <=> \E k \in 1 .. m : at[k] = i
         /\ \A k \in 1 .. m : words[k] = RunFrom(text, at[k])
  BY DEF RunsWithin
<1>2. /\ Len(more) = m + 1 /\ more[m + 1] = run
      /\ \A k \in 1 .. m : more[k] = words[k]
  OBVIOUS
<1> DEFINE to == [k \in 1 .. m + 1 |-> IF k = m + 1 THEN start + 1 ELSE at[k]]
<1>3. /\ to[m + 1] = start + 1
      /\ \A k \in 1 .. m : to[k] = at[k] /\ at[k] \in 1 .. start
      /\ \A k \in 1 .. m + 1 : k \in 1 .. m \/ k = m + 1
      /\ m + 1 \in 1 .. m + 1
      /\ \A k \in 1 .. m : k \in 1 .. m + 1
  <2> HIDE DEF m
  <2>1. /\ \A k \in 1 .. m + 1 : k \in 1 .. m \/ k = m + 1
        /\ m + 1 \in 1 .. m + 1
        /\ \A k \in 1 .. m : k \in 1 .. m + 1 /\ k # m + 1
    BY <1>0
  <2>2. \A k \in 1 .. m : at[k] \in 1 .. start
    BY DEF m
  <2> QED
    BY <2>1, <2>2
<1>4. to \in [1 .. m + 1 -> 1 .. limit]
  <2>1. start + 1 \in 1 .. limit /\ 1 .. start \subseteq 1 .. limit
    BY <1>0
  <2> HIDE DEF m
  <2>2. ASSUME NEW k \in 1 .. m + 1
        PROVE  (IF k = m + 1 THEN start + 1 ELSE at[k]) \in 1 .. limit
    BY <1>3, <2>1
  <2> QED
    BY <2>2
<1> HIDE DEF to, more, m
<1>5. ASSUME NEW j \in 1 .. m + 1, NEW k \in 1 .. m + 1, j < k PROVE to[j] < to[k]
  <2>1. j \in 1 .. m
    BY <1>0, <1>5
  <2>2. CASE k = m + 1
    BY <1>0, <1>3, <2>1, <2>2
  <2>3. CASE k \in 1 .. m
    BY <1>1, <1>3, <1>5, <2>1, <2>3
  <2> QED
    BY <1>3, <2>2, <2>3
<1>6. ASSUME NEW i \in 1 .. limit
      PROVE  BeginsAt(text, i) <=> \E k \in 1 .. m + 1 : to[k] = i
  <2>1. CASE i = start + 1
    BY <1>3, <2>1
  <2>2. CASE i \in 1 .. start
    <3>1. i # start + 1
      BY <1>0, <2>2
    <3>2. (\E k \in 1 .. m + 1 : to[k] = i) <=> \E k \in 1 .. m : at[k] = i
      BY <1>3, <3>1
    <3> QED
      BY <1>1, <2>2, <3>2
  <2>3. CASE i \in start + 2 .. limit
    <3>1. i # start + 1 /\ i \notin 1 .. start
      BY <1>0, <2>3
    <3> QED
      BY <1>3, <2>3, <3>1
  <2> QED
    BY <1>0, <2>1, <2>2, <2>3
<1>7. ASSUME NEW k \in 1 .. m + 1 PROVE more[k] = RunFrom(text, to[k])
  <2>1. CASE k = m + 1
    BY <1>2, <1>3, <2>1
  <2>2. CASE k \in 1 .. m
    BY <1>1, <1>2, <1>3, <2>2
  <2> QED
    BY <1>3, <2>1, <2>2
<1>8. RunsWithin(more, text, limit)
  <2>1. 1 .. Len(more) = 1 .. m + 1
    BY <1>2
  <2>2. /\ to \in [1 .. Len(more) -> 1 .. limit]
        /\ \A j, k \in 1 .. Len(more) : j < k => to[j] < to[k]
        /\ \A i \in 1 .. limit :
              BeginsAt(text, i) <=> \E k \in 1 .. Len(more) : to[k] = i
        /\ \A k \in 1 .. Len(more) : more[k] = RunFrom(text, to[k])
    BY <1>4, <1>5, <1>6, <1>7, <2>1, Zenon
  <2> QED
    BY <2>2, Zenon DEF RunsWithin
<1> QED
  BY <1>8 DEF more

(* The states of the loop, and a turn of it.                               *)
Loops(C, text) ==
    [start : {Npos} \cup 0 .. Len(text) - 1, words : Seq(Seq(C))]

Turn(text, loop) ==
    LET end == FindFirstOf(text, Space, loop.start) IN
    IF loop.start = Npos THEN loop
    ELSE [start |-> NextStart(text, end),
          words |-> Append(loop.words, Substr(text, loop.start, end - loop.start))]

LEMMA NextStartIs ==
    ASSUME NEW C, NEW text \in Seq(C), Len(text) <= Npos, NEW end \in Nat
    PROVE  NextStart(text, end) \in {Npos} \cup 0 .. Len(text) - 1
<1>0. Len(text) \in Nat /\ Npos \in Nat
  BY NposAssumption
<1>1. \/ NextStart(text, end) = Npos
      \/ NextStart(text, end) \in end .. Len(text) - 1
  BY FirstNotOf DEF NextStart
<1>2. end .. Len(text) - 1 \subseteq 0 .. Len(text) - 1
  BY <1>0
<1> QED
  BY <1>1, <1>2

LEMMA WordIsText ==
    ASSUME NEW C, NEW text \in Seq(C), Len(text) <= Npos,
           NEW start \in 0 .. Len(text) - 1,
           NEW end, end = FindFirstOf(text, Space, start)
    PROVE  end \in Nat /\ Substr(text, start, end - start) \in Seq(C)
<1>0. Len(text) \in Nat /\ Npos \in Nat
  BY NposAssumption
<1>1. start \in Nat /\ start \in 0 .. Len(text) /\ start <= Npos
  BY <1>0
<1>2. end = Npos \/ end \in start .. Len(text) - 1
  BY <1>1, FirstOf
<1>3. end \in Nat /\ end - start \in Nat
  BY <1>0, <1>1, <1>2
<1> DEFINE stop == IF end - start <= Len(text) - start THEN end ELSE Len(text)
<1>4. Substr(text, start, end - start) = SubSeq(text, start + 1, stop)
  <2>1. start + (end - start) = end
    BY <1>1, <1>3
  <2> QED
    BY <1>1, <1>3, <2>1, Cut
<1>5. stop \in start .. Len(text)
  BY <1>0, <1>1, <1>2, <1>3
<1>6. SubSeq(text, start + 1, stop) \in Seq(C)
  <2> HIDE DEF stop
  <2> QED
    BY <1>1, <1>5, PartOf
<1> QED
  BY <1>3, <1>4, <1>6

LEMMA TurnIsLoop ==
    ASSUME NEW C, NEW text \in Seq(C), Len(text) <= Npos, NEW loop \in Loops(C, text)
    PROVE  Turn(text, loop) \in Loops(C, text)
<1> DEFINE start == loop.start
           end == FindFirstOf(text, Space, start)
           word == Substr(text, start, end - start)
<1>1. CASE start = Npos
  BY <1>1 DEF Turn
<1>2. CASE start # Npos
  <2>1. start \in 0 .. Len(text) - 1 /\ loop.words \in Seq(Seq(C))
    BY <1>2 DEF Loops
  <2>2. end \in Nat /\ word \in Seq(C)
    BY <2>1, WordIsText
  <2>3. Turn(text, loop) =
           [start |-> NextStart(text, end), words |-> Append(loop.words, word)]
    BY <1>2 DEF Turn
  <2> HIDE DEF word, end
  <2>4. Append(loop.words, word) \in Seq(Seq(C))
    BY <2>1, <2>2
  <2>5. NextStart(text, end) \in {Npos} \cup 0 .. Len(text) - 1
    BY <2>2, NextStartIs
  <2> QED
    BY <2>3, <2>4, <2>5 DEF Loops
<1> QED
  BY <1>1, <1>2

(* What the loop has when it has taken n words, or ended before.           *)
SoFar(C, text, n, loop) ==
    /\ loop \in Loops(C, text)
    /\ RunsWithin(loop.words, text, Behind(text, loop.start))
    /\ loop.start # Npos => loop.start >= n /\ BeginsAt(text, loop.start + 1)

LEMMA FirstWord ==
    ASSUME NEW C, NEW text \in Seq(C), Len(text) <= Npos,
           NEW start, start = FindFirstNotOf(text, Space, 0)
    PROVE  SoFar(C, text, 0, [start |-> start, words |-> <<>>])
<1> DEFINE loop == [start |-> start, words |-> <<>>]
<1>0. Len(text) \in Nat /\ Npos \in Nat /\ DOMAIN text = 1 .. Len(text) /\ 0 + 1 = 1
  BY NposAssumption
<1>1. \/ /\ start = Npos
         /\ \A i \in 1 .. Len(text) : text[i] \in Space
      \/ /\ start \in 0 .. Len(text) - 1
         /\ start # Npos
         /\ text[start + 1] \notin Space
         /\ \A i \in 1 .. start : text[i] \in Space
  BY <1>0, FirstNotOf, 0 \in Nat
<1>2. loop \in Loops(C, text)
  <2>1. <<>> \in Seq(Seq(C))
    OBVIOUS
  <2> QED
    BY <1>1, <2>1 DEF Loops
<1>3. \A i \in 1 .. Behind(text, start) : text[i] \in Space
  BY <1>1 DEF Behind
<1>4. RunsWithin(<<>>, text, Behind(text, start))
  <2> DEFINE limit == Behind(text, start)
  <2>1. 1 .. Len(<<>>) = {}
    OBVIOUS
  <2>2. [k \in {} |-> 0] \in [{} -> 1 .. limit]
    OBVIOUS
  <2>3. \A i \in 1 .. limit : ~BeginsAt(text, i)
    BY <1>3 DEF BeginsAt, IsSpaceAt
  <2> HIDE DEF limit
  <2>4. RunsWithin(<<>>, text, limit)
    BY <2>1, <2>2, <2>3, Zenon DEF RunsWithin
  <2> QED
    BY <2>4 DEF limit
<1>5. ASSUME start # Npos PROVE start >= 0 /\ BeginsAt(text, start + 1)
  <2>1. /\ start \in 0 .. Len(text) - 1 /\ text[start + 1] \notin Space
        /\ \A i \in 1 .. start : text[i] \in Space
    BY <1>1, <1>5
  <2>2. /\ start >= 0 /\ start + 1 \in 1 .. Len(text) /\ (start + 1) - 1 = start
        /\ start \notin 1 .. Len(text) \/ start \in 1 .. start
    BY <1>0, <2>1
  <2>3. IsSpaceAt(text, start)
    BY <1>0, <2>1, <2>2 DEF IsSpaceAt
  <2>4. ~IsSpaceAt(text, start + 1)
    BY <1>0, <2>1, <2>2 DEF IsSpaceAt
  <2> QED
    BY <2>2, <2>3, <2>4 DEF BeginsAt
<1>6. loop.start = start /\ loop.words = <<>>
  OBVIOUS
<1> HIDE DEF loop
<1>7. SoFar(C, text, 0, loop)
  BY <1>2, <1>4, <1>5, <1>6 DEF SoFar
<1> QED
  BY <1>7 DEF loop

LEMMA NextWord ==
    ASSUME NEW C, NEW text \in Seq(C), Len(text) <= Npos, NEW n \in Nat, NEW loop,
           SoFar(C, text, n, loop)
    PROVE  SoFar(C, text, n + 1, Turn(text, loop))
<1> DEFINE start == loop.start
           end == FindFirstOf(text, Space, start)
           next == NextStart(text, end)
           word == Substr(text, start, end - start)
<1>0. Len(text) \in Nat /\ Npos \in Nat
  BY NposAssumption
<1>1. CASE start = Npos
  <2>1. Turn(text, loop) = loop
    BY <1>1 DEF Turn
  <2> QED
    BY <1>1, <2>1 DEF SoFar
<1>2. CASE start # Npos
  <2>1. /\ start \in 0 .. Len(text) - 1 /\ loop.words \in Seq(Seq(C))
        /\ start >= n /\ BeginsAt(text, start + 1)
        /\ RunsWithin(loop.words, text, start)
    BY <1>2 DEF SoFar, Loops, Behind
  <2>2. word \in Seq(C)
    BY <2>1, WordIsText
  <2>3. /\ word = RunFrom(text, start + 1)
        /\ \/ next = Npos
           \/ next \in start + 1 .. Len(text) - 1 /\ BeginsAt(text, next + 1)
        /\ \A i \in start + 2 .. Behind(text, next) : ~BeginsAt(text, i)
        /\ Behind(text, next) \in start + 1 .. Len(text)
    <3> HIDE DEF start
    <3> QED
      BY <2>1, OneTurn
  <2>4. Turn(text, loop) = [start |-> next, words |-> Append(loop.words, word)]
    BY <1>2 DEF Turn
  <2>5. Turn(text, loop) \in Loops(C, text)
    BY TurnIsLoop DEF SoFar
  <2> HIDE DEF start, end, next, word
  <2>6. RunsWithin(Append(loop.words, word), text, Behind(text, next))
    BY <2>1, <2>2, <2>3, RunAdded
  <2>7. next # Npos => next >= n + 1 /\ BeginsAt(text, next + 1)
    <3> SUFFICES ASSUME next # Npos PROVE next >= n + 1 /\ BeginsAt(text, next + 1)
      OBVIOUS
    <3>1. next \in start + 1 .. Len(text) - 1 /\ BeginsAt(text, next + 1)
      BY <2>3
    <3> QED
      BY <1>0, <2>1, <3>1
  <2> QED
    BY <2>4, <2>5, <2>6, <2>7 DEF SoFar
<1> QED
  BY <1>1, <1>2

(* split_on_whitespace() finds the runs, all of them and in their order.   *)
LEMMA SplitIsRuns ==
    ASSUME NEW C, NEW text \in Seq(C), Len(text) <= Npos
    PROVE  AreTheRuns(SplitOnWhitespace(text), text)
<1> DEFINE N == Len(text)
           X == Loops(C, text)
           base == [start |-> FindFirstNotOf(text, Space, 0), words |-> <<>>]
           Step == [n \in Nat |-> [loop \in X |-> Turn(text, loop)]]
           Is(w) == w = [turns \in Nat |-> IF turns = 0 THEN base
                                           ELSE Turn(text, w[turns - 1])]
           after == CHOOSE w : Is(w)
<1>0. N \in Nat /\ Npos \in Nat /\ DOMAIN text = 1 .. N
  BY NposAssumption
<1>1. SoFar(C, text, 0, base)
  BY FirstWord
<1>2. base \in X
  BY <1>1 DEF SoFar
<1>3. Step \in [Nat -> [X -> X]]
  <2>1. \A loop \in X : Turn(text, loop) \in X
    BY TurnIsLoop
  <2> HIDE DEF X
  <2> QED
    BY <2>1
<1>4. PICK f : IsIteration(f, X, base, Step)
  <2> HIDE DEF Step, X, base
  <2> QED
    BY <1>2, <1>3, Iteration
<1>5. /\ f \in [Nat -> X] /\ f[0] = base
      /\ \A n \in Nat : f[n + 1] = Turn(text, f[n])
  <2> HIDE DEF X, base
  <2> QED
    BY <1>4 DEF IsIteration
<1>6. Is(f)
  <2>1. ASSUME NEW n \in Nat, n # 0 PROVE f[n] = Turn(text, f[n - 1])
    <3>1. n - 1 \in Nat /\ (n - 1) + 1 = n
      BY <2>1
    <3> QED
      BY <1>5, <3>1
  <2> HIDE DEF base, X
  <2>2. \A n \in Nat : f[n] = IF n = 0 THEN base ELSE Turn(text, f[n - 1])
    BY <1>5, <2>1
  <2>3. f = [n \in Nat |-> f[n]]
    BY <1>5
  <2> QED
    BY <2>2, <2>3
<1>7. Is(after)
  <2> HIDE DEF base
  <2> QED
    BY <1>6
<1>8. SplitOnWhitespace(text) = after[N].words
  BY DEF SplitOnWhitespace, Turn
<1> HIDE DEF after, base
<1>9. after[0] = base /\ \A n \in Nat : after[n + 1] = Turn(text, after[n])
  <2>1. \A n \in Nat : after[n] = IF n = 0 THEN base ELSE Turn(text, after[n - 1])
    BY <1>7
  <2>2. \A n \in Nat : n + 1 \in Nat /\ n + 1 # 0 /\ (n + 1) - 1 = n
    OBVIOUS
  <2> QED
    BY <2>1, <2>2
<1> DEFINE T == {n \in Nat : SoFar(C, text, n, after[n])}
<1>10. 0 \in T
  BY <1>1, <1>9
<1>11. ASSUME NEW n \in Nat, n \in T PROVE n + 1 \in T
  BY <1>9, <1>11, NextWord
<1>12. Nat \subseteq T
  <2> HIDE DEF T
  <2> QED
    BY <1>10, <1>11, Induction
<1> DEFINE loop == after[N]
           words == loop.words
<1>13. SoFar(C, text, N, loop)
  BY <1>0, <1>12
<1> HIDE DEF loop
<1>14. loop.start = Npos
  <2>1. loop.start = Npos \/ loop.start \in 0 .. N - 1
    BY <1>13 DEF SoFar, Loops
  <2>2. loop.start # Npos => loop.start >= N
    BY <1>13 DEF SoFar
  <2> QED
    BY <1>0, <2>1, <2>2
<1>15. RunsWithin(words, text, N) /\ words \in Seq(Seq(C))
  BY <1>13, <1>14 DEF SoFar, Behind, Loops
<1> HIDE DEF words
<1>16. DOMAIN words = 1 .. Len(words)
  BY <1>15
<1>17. AreTheRuns(words, text)
  <2> HIDE DEF N
  <2> QED
    BY <1>0, <1>15, <1>16, Zenon DEF RunsWithin, AreTheRuns
<1> QED
  BY <1>8, <1>17 DEF words, loop

(* split_on_whitespace(): the words of a document's text are the maximal   *)
(* runs of other characters, none missing, none empty, in their order.     *)
THEOREM WordsAreRuns == Spec => []WordsAreTheRuns
<1>1. Answered => WordsAreTheRuns
  <2> SUFFICES ASSUME Answered, Returned("split_on_whitespace")
               PROVE  AreTheRuns(Result, call.text)
    BY DEF WordsAreTheRuns
  <2>1. IsText(call.text)
    BY InputsAssumption DEF Answered, Answers, Returned
  <2>2. Result = SplitOnWhitespace(call.text)
    BY DEF Answered, Answers, Returned, Result
  <2>3. AreTheRuns(SplitOnWhitespace(call.text), call.text)
    BY <2>1, SplitIsRuns DEF IsText
  <2> QED
    BY <2>2, <2>3
<1> QED
  BY <1>1, AlwaysAnswered, PTL

-----------------------------------------------------------------------------
(* Quoted texts.                                                           *)

Chars == -128 .. 127

LEMMA ShortEscapesDiffer ==
    /\ \A e \in ShortEscapes : e[1] \in Chars /\ e[2] \in Chars /\ e[2] # LetterU
    /\ \A e, f \in ShortEscapes : e[1] = f[1] => e = f
    /\ \A e, f \in ShortEscapes : e[2] = f[2] => e = f
  BY DEF ShortEscapes, Chars, Quote, Backslash, LetterU

LEMMA TheOnlyOne ==
    ASSUME NEW S, NEW e \in S, \A f \in S : f = e
    PROVE  S # {} /\ (CHOOSE f \in S : TRUE) = e
  OBVIOUS

(* What a character is written as.                                         *)
LEMMA EscapedIs ==
    ASSUME NEW c \in Chars
    PROVE  \/ \E e \in ShortEscapes : e[1] = c /\ Escaped(c) = <<Backslash, e[2]>>
           \/ c \in 0 .. 31 /\ Escaped(c) = UnicodeEscape(c)
           \/ c \notin 0 .. 31 \cup {Quote, Backslash} /\ Escaped(c) = <<c>>
<1> DEFINE short == {escape \in ShortEscapes : escape[1] = c}
<1>1. CASE \E e \in ShortEscapes : e[1] = c
  <2>1. PICK e \in ShortEscapes : e[1] = c
    BY <1>1
  <2>2. e \in short /\ \A f \in short : f = e
    BY <2>1, ShortEscapesDiffer
  <2>3. short # {} /\ (CHOOSE f \in short : TRUE) = e
    <3> HIDE DEF short
    <3> QED
      BY <2>2, TheOnlyOne
  <2>4. Escaped(c) = <<Backslash, e[2]>>
    BY <2>3 DEF Escaped
  <2> QED
    BY <2>1, <2>4
<1>2. CASE ~\E e \in ShortEscapes : e[1] = c
  <2>1. short = {} /\ c # Quote /\ c # Backslash
    BY <1>2 DEF ShortEscapes
  <2>2. CASE c \in 0 .. 31
    <3>1. c % 256 = c /\ c % 256 < FirstUnescapedByte
      BY <2>2 DEF FirstUnescapedByte
    <3> QED
      BY <2>1, <2>2, <3>1 DEF Escaped, IsControl
  <2>3. CASE c \notin 0 .. 31
    <3>1. ~(c % 256 < FirstUnescapedByte)
      BY <2>3 DEF FirstUnescapedByte, Chars
    <3> QED
      BY <2>1, <2>3, <3>1 DEF Escaped, IsControl
  <2> QED
    BY <2>2, <2>3
<1> QED
  BY <1>1, <1>2

(* A short escape read.                                                    *)
LEMMA ShortReadsBack ==
    ASSUME NEW e \in ShortEscapes,
           NEW text \in Seq(Chars), NEW i \in 1 .. Len(text), i + 1 <= Len(text),
           text[i] = Backslash, text[i + 1] = e[2]
    PROVE  CharacterAt(text, i) = [length |-> 2, character |-> e[1]]
<1> DEFINE short == {escape \in ShortEscapes : i < Len(text) /\ escape[2] = text[i + 1]}
<1>1. i < Len(text)
  OBVIOUS
<1>2. e \in short /\ \A f \in short : f = e
  BY <1>1, ShortEscapesDiffer
<1>3. short # {} /\ (CHOOSE f \in short : TRUE) = e
  <2> HIDE DEF short
  <2> QED
    BY <1>2, TheOnlyOne
<1>4. EscapeAt(text, i) = [length |-> 2, character |-> e[1]]
  BY <1>3 DEF EscapeAt
<1>5. CharacterAt(text, i) = EscapeAt(text, i)
  BY DEF CharacterAt, Quote, Backslash
<1> QED
  BY <1>4, <1>5

LEMMA HexReadsBack ==
    ASSUME NEW d \in 0 .. 15
    PROVE  HexDigit(d) \in Chars /\ HexValue(HexDigit(d)) = d
  BY DEF HexDigit, HexValue, Zero, Chars

(* A unicode escape read.                                                  *)
LEMMA ControlReadsBack ==
    ASSUME NEW c \in 0 .. 31,
           NEW text \in Seq(Chars), NEW i \in 1 .. Len(text), i + 5 <= Len(text),
           text[i] = Backslash, text[i + 1] = LetterU,
           text[i + 2] = Zero, text[i + 3] = Zero,
           text[i + 4] = HexDigit(c \div 16), text[i + 5] = HexDigit(c % 16)
    PROVE  CharacterAt(text, i) = [length |-> 6, character |-> c]
<1>1. EscapeAt(text, i) = [length |-> 6, character |-> c]
  <2> DEFINE short == {escape \in ShortEscapes : i < Len(text) /\ escape[2] = text[i + 1]}
             digits == [k \in 2 .. 5 |-> HexValue(text[i + k])]
  <2>1. short = {}
    BY ShortEscapesDiffer
  <2>2. /\ c \div 16 \in 0 .. 1 /\ c \div 16 \in 0 .. 15 /\ c % 16 \in 0 .. 15
        /\ c = 16 * (c \div 16) + (c % 16)
    <3>1. c = 16 * (c \div 16) + (c % 16)
      OBVIOUS
    <3>2. c % 16 \in 0 .. 15
      OBVIOUS
    <3>3. c \div 16 \in 0 .. 1
      OBVIOUS
    <3> QED
      BY <3>1, <3>2, <3>3
  <2>3. HexValue(Zero) = 0
    BY DEF HexValue, Zero
  <2>4. HexValue(HexDigit(c \div 16)) = c \div 16 /\ HexValue(HexDigit(c % 16)) = c % 16
    BY <2>2, HexReadsBack
  <2>5. /\ digits[2] = 0 /\ digits[3] = 0
        /\ digits[4] = c \div 16 /\ digits[5] = c % 16
    BY <2>3, <2>4
  <2>6. \A k \in 2 .. 5 : k = 2 \/ k = 3 \/ k = 4 \/ k = 5
    OBVIOUS
  <2>7. \A k \in 2 .. 5 : digits[k] >= 0
    <3> HIDE DEF digits
    <3> QED
      BY <2>2, <2>5, <2>6
  <2>8. digits[4] <= 7 /\ 16 * digits[4] + digits[5] = c
    <3> HIDE DEF digits
    <3> QED
      BY <2>2, <2>5
  <2>9. EscapeAt(text, i) = [length |-> 6, character |-> 16 * digits[4] + digits[5]]
    BY <2>1, <2>5, <2>7, <2>8, Zenon DEF EscapeAt
  <2> QED
    BY <2>8, <2>9
<1>2. CharacterAt(text, i) = EscapeAt(text, i)
  BY DEF CharacterAt, Quote, Backslash
<1> QED
  BY <1>1, <1>2

(* Whatever stands for a character, it reads back as that character.       *)
LEMMA CharacterReadsBack ==
    ASSUME NEW c \in Chars
    PROVE  /\ Escaped(c) \in Seq(Chars) /\ Len(Escaped(c)) \in Nat \ {0}
           /\ \A text \in Seq(Chars) : \A i \in 1 .. Len(text) :
                 /\ i + Len(Escaped(c)) <= Len(text) + 1
                 /\ \A j \in 1 .. Len(Escaped(c)) : text[i + j - 1] = Escaped(c)[j]
                 => CharacterAt(text, i) = [length |-> Len(Escaped(c)), character |-> c]
<1> DEFINE n == Len(Escaped(c))
<1>1. CASE \E e \in ShortEscapes : e[1] = c /\ Escaped(c) = <<Backslash, e[2]>>
  <2>1. PICK e \in ShortEscapes : e[1] = c /\ Escaped(c) = <<Backslash, e[2]>>
    BY <1>1
  <2>2. /\ Escaped(c) \in Seq(Chars) /\ n = 2
        /\ Escaped(c)[1] = Backslash /\ Escaped(c)[2] = e[2]
    BY <2>1, ShortEscapesDiffer DEF Backslash, Chars
  <2> HIDE DEF n
  <2>3. ASSUME NEW text \in Seq(Chars), NEW i \in 1 .. Len(text),
               i + n <= Len(text) + 1, \A j \in 1 .. n : text[i + j - 1] = Escaped(c)[j]
        PROVE  CharacterAt(text, i) = [length |-> n, character |-> c]
    <3>1. 1 \in 1 .. n /\ 2 \in 1 .. n /\ i + 1 - 1 = i /\ i + 2 - 1 = i + 1 /\ i + 1 <= Len(text)
      BY <2>2, <2>3
    <3>2. text[i] = Backslash /\ text[i + 1] = e[2]
      BY <2>2, <2>3, <3>1
    <3> QED
      BY <2>1, <2>2, <3>1, <3>2, ShortReadsBack
  <2> QED
    BY <2>2, <2>3 DEF n
<1>2. CASE c \in 0 .. 31 /\ Escaped(c) = UnicodeEscape(c)
  <2>1. /\ c \div 16 \in 0 .. 15 /\ c % 16 \in 0 .. 15
    BY <1>2
  <2>2. HexDigit(c \div 16) \in Chars /\ HexDigit(c % 16) \in Chars
    BY <2>1, HexReadsBack
  <2>3. /\ Escaped(c) \in Seq(Chars) /\ n = 6
        /\ Escaped(c)[1] = Backslash /\ Escaped(c)[2] = LetterU
        /\ Escaped(c)[3] = Zero /\ Escaped(c)[4] = Zero
        /\ Escaped(c)[5] = HexDigit(c \div 16) /\ Escaped(c)[6] = HexDigit(c % 16)
    BY <1>2, <2>2 DEF Backslash, Chars, LetterU, Zero, UnicodeEscape
  <2> HIDE DEF n
  <2>4. ASSUME NEW text \in Seq(Chars), NEW i \in 1 .. Len(text),
               i + n <= Len(text) + 1, \A j \in 1 .. n : text[i + j - 1] = Escaped(c)[j]
        PROVE  CharacterAt(text, i) = [length |-> n, character |-> c]
    <3>1. /\ \A j \in 1 .. 6 : j \in 1 .. n
          /\ i + 1 - 1 = i /\ i + 2 - 1 = i + 1 /\ i + 3 - 1 = i + 2 /\ i + 4 - 1 = i + 3
          /\ i + 5 - 1 = i + 4 /\ i + 6 - 1 = i + 5 /\ i + 5 <= Len(text)
      BY <2>3, <2>4
    <3>2. /\ 1 \in 1 .. n /\ 2 \in 1 .. n /\ 3 \in 1 .. n
          /\ 4 \in 1 .. n /\ 5 \in 1 .. n /\ 6 \in 1 .. n
      BY <3>1
    <3>3. /\ text[i] = Backslash /\ text[i + 1] = LetterU
          /\ text[i + 2] = Zero /\ text[i + 3] = Zero
          /\ text[i + 4] = HexDigit(c \div 16) /\ text[i + 5] = HexDigit(c % 16)
      BY <2>3, <2>4, <3>1, <3>2, Zenon
    <3> QED
      BY <1>2, <2>3, <3>1, <3>3, ControlReadsBack
  <2>5. n \in Nat \ {0}
    BY <2>3
  <2> QED
    BY <2>3, <2>4, <2>5, Zenon DEF n
<1>3. CASE c \notin 0 .. 31 \cup {Quote, Backslash} /\ Escaped(c) = <<c>>
  <2>1. Escaped(c) \in Seq(Chars) /\ n = 1 /\ Escaped(c)[1] = c
    BY <1>3
  <2> HIDE DEF n
  <2>2. ASSUME NEW text \in Seq(Chars), NEW i \in 1 .. Len(text),
               i + n <= Len(text) + 1, \A j \in 1 .. n : text[i + j - 1] = Escaped(c)[j]
        PROVE  CharacterAt(text, i) = [length |-> n, character |-> c]
    <3>1. 1 \in 1 .. n /\ i + 1 - 1 = i /\ ~(i > Len(text))
      BY <2>1
    <3>2. text[i] = c
      BY <2>1, <2>2, <3>1
    <3> QED
      BY <1>3, <2>1, <3>1, <3>2 DEF CharacterAt
  <2> QED
    BY <2>1, <2>2 DEF n
<1> QED
  BY <1>1, <1>2, <1>3, EscapedIs

(* out, character by character.                                            *)
IsOut(out, value) ==
    /\ out \in [0 .. Len(value) -> Seq(Chars)]
    /\ out[0] = <<Quote>>
    /\ \A n \in 0 .. Len(value) - 1 : out[n + 1] = out[n] \o Escaped(value[n + 1])

LEMMA QuotedIs ==
    ASSUME NEW value \in Seq(Chars)
    PROVE  \E out : /\ IsOut(out, value)
                    /\ AppendJsonString(value) = out[Len(value)] \o <<Quote>>
<1> DEFINE N == Len(value)
           X == Seq(Chars)
           Step == [n \in Nat |-> [text \in X |->
                      IF n + 1 <= N THEN text \o Escaped(value[n + 1]) ELSE text]]
           Is(w) == w = [n \in 0 .. N |-> IF n = 0 THEN <<Quote>>
                                          ELSE w[n - 1] \o Escaped(value[n])]
           out == CHOOSE w : Is(w)
<1>0. N \in Nat
  OBVIOUS
<1>1. <<Quote>> \in X
  BY DEF Quote, Chars
<1>2. ASSUME NEW n \in Nat, n + 1 <= N, NEW text \in X
      PROVE  text \o Escaped(value[n + 1]) \in X
  <2>1. value[n + 1] \in Chars
    BY <1>2
  <2>2. Escaped(value[n + 1]) \in Seq(Chars)
    BY <2>1, CharacterReadsBack
  <2> QED
    BY <2>2
<1>3. Step \in [Nat -> [X -> X]]
  <2> HIDE DEF X
  <2> QED
    BY <1>2
<1>4. PICK f : IsIteration(f, X, <<Quote>>, Step)
  <2> HIDE DEF Step, X
  <2> QED
    BY <1>1, <1>3, Iteration
<1>5. /\ f \in [Nat -> X] /\ f[0] = <<Quote>>
      /\ \A n \in Nat : n + 1 <= N => f[n + 1] = f[n] \o Escaped(value[n + 1])
  <2> HIDE DEF X
  <2> QED
    BY <1>4 DEF IsIteration
<1> DEFINE g == [n \in 0 .. N |-> f[n]]
<1>6. ASSUME NEW n \in 0 .. N, n # 0 PROVE g[n] = g[n - 1] \o Escaped(value[n])
  <2>1. n - 1 \in Nat /\ (n - 1) + 1 = n /\ n <= N /\ n - 1 \in 0 .. N
    BY <1>0, <1>6
  <2>2. f[n] = f[n - 1] \o Escaped(value[n])
    BY <1>5, <2>1
  <2> QED
    BY <2>1, <2>2
<1>7. g[0] = <<Quote>> /\ \A n \in 0 .. N : g[n] \in X
  <2> HIDE DEF X
  <2> QED
    BY <1>0, <1>5
<1>8. Is(g)
  <2>1. g = [n \in 0 .. N |-> g[n]]
    OBVIOUS
  <2> HIDE DEF g
  <2>2. \A n \in 0 .. N : g[n] = IF n = 0 THEN <<Quote>> ELSE g[n - 1] \o Escaped(value[n])
    BY <1>6, <1>7
  <2> QED
    BY <2>1, <2>2
<1>9. Is(out)
  <2> HIDE DEF g
  <2> QED
    BY <1>8
<1>10. AppendJsonString(value) = out[N] \o <<Quote>>
  BY DEF AppendJsonString
<1> HIDE DEF out, N, X
<1>11. /\ out[0] = <<Quote>> /\ DOMAIN out = 0 .. N /\ out = [n \in 0 .. N |-> out[n]]
       /\ \A n \in 0 .. N : n # 0 => out[n] = out[n - 1] \o Escaped(value[n])
  <2>1. 0 \in 0 .. N
    BY <1>0
  <2>2. DOMAIN out = 0 .. N
    BY <1>9
  <2>3. \A n \in 0 .. N : out[n] = IF n = 0 THEN <<Quote>>
                                   ELSE out[n - 1] \o Escaped(value[n])
    BY <1>9
  <2>4. out = [n \in 0 .. N |-> out[n]]
    BY <1>9, <2>2
  <2> QED
    BY <2>1, <2>2, <2>3, <2>4
<1>12. \A n \in 0 .. N - 1 : out[n + 1] = out[n] \o Escaped(value[n + 1])
  <2>1. \A n \in 0 .. N - 1 : n + 1 \in 0 .. N /\ n + 1 # 0 /\ (n + 1) - 1 = n
    BY <1>0
  <2> QED
    BY <1>11, <2>1
<1> DEFINE T == {n \in Nat : n <= N => out[n] \in X}
<1>13. 0 \in T
  BY <1>1, <1>11
<1>14. ASSUME NEW n \in Nat, n \in T PROVE n + 1 \in T
  <2> SUFFICES ASSUME n + 1 <= N PROVE out[n + 1] \in X
    OBVIOUS
  <2>1. n <= N /\ n \in 0 .. N - 1
    BY <1>0
  <2>2. out[n] \in X
    BY <1>14, <2>1
  <2> QED
    BY <1>2, <1>12, <2>1, <2>2
<1>15. Nat \subseteq T
  <2> HIDE DEF T
  <2> QED
    BY <1>13, <1>14, Induction
<1>16. \A n \in 0 .. N : n \in Nat /\ n <= N
  BY <1>0
<1>17. out \in [0 .. N -> X]
  BY <1>11, <1>15, <1>16
<1>18. IsOut(out, value)
  BY <1>11, <1>12, <1>17 DEF IsOut, N, X
<1> QED
  BY <1>10, <1>18 DEF N

LEMMA Joined ==
    ASSUME NEW C, NEW s \in Seq(C), NEW t \in Seq(C)
    PROVE  /\ s \o t \in Seq(C) /\ Len(s \o t) = Len(s) + Len(t)
           /\ \A i \in 1 .. Len(s) : (s \o t)[i] = s[i]
           /\ \A i \in 1 .. Len(t) : (s \o t)[Len(s) + i] = t[i]
  OBVIOUS

(* What is out stays out, and every character adds to it.                  *)
Begins(text, start) ==
    /\ Len(start) <= Len(text)
    /\ \A i \in 1 .. Len(start) : text[i] = start[i]

LEMMA OutGrows ==
    ASSUME NEW value \in Seq(Chars), NEW out, IsOut(out, value)
    PROVE  \A n \in 0 .. Len(value) :
             /\ n < Len(out[n])
             /\ \A k \in 0 .. n : Begins(out[n], out[k])
<1> DEFINE N == Len(value)
           Grown(n) == n < Len(out[n]) /\ \A k \in 0 .. n : Begins(out[n], out[k])
           T == {n \in Nat : n <= N => Grown(n)}
<1>0. N \in Nat
  OBVIOUS
<1>1. 0 \in T
  <2>1. out[0] = <<Quote>> /\ Len(out[0]) = 1
    BY DEF IsOut
  <2>2. \A k \in 0 .. 0 : k = 0
    OBVIOUS
  <2>3. Begins(out[0], out[0])
    BY <2>1 DEF Begins
  <2>4. 0 < Len(out[0])
    BY <2>1
  <2>5. Grown(0)
    BY <2>2, <2>3, <2>4
  <2> HIDE DEF Grown
  <2> QED
    BY <2>5
<1>2. ASSUME NEW n \in Nat, n \in T PROVE n + 1 \in T
  <2> SUFFICES ASSUME n + 1 <= N PROVE Grown(n + 1)
    OBVIOUS
  <2> DEFINE more == Escaped(value[n + 1])
  <2>1. n <= N /\ n \in 0 .. N /\ n \in 0 .. N - 1 /\ n + 1 \in 1 .. N /\ n + 1 \in 0 .. N
    BY <1>0
  <2>2. Grown(n)
    BY <1>2, <2>1
  <2>3. value[n + 1] \in Chars
    BY <2>1
  <2>4. more \in Seq(Chars) /\ Len(more) \in Nat \ {0}
    BY <2>3, CharacterReadsBack
  <2>5. out[n] \in Seq(Chars) /\ out[n + 1] = out[n] \o more
    BY <2>1 DEF IsOut
  <2> HIDE DEF more
  <2>6. /\ Len(out[n + 1]) = Len(out[n]) + Len(more)
        /\ \A i \in 1 .. Len(out[n]) : out[n + 1][i] = out[n][i]
    BY <2>4, <2>5, Joined
  <2>7. Len(out[n]) \in Nat /\ Len(out[n + 1]) \in Nat
    BY <2>4, <2>5, <2>6
  <2>8. n + 1 < Len(out[n + 1]) /\ Len(out[n]) <= Len(out[n + 1])
    BY <2>2, <2>4, <2>6, <2>7
  <2>9. ASSUME NEW k \in 0 .. n + 1 PROVE Begins(out[n + 1], out[k])
    <3>1. CASE k = n + 1
      BY <2>7, <3>1 DEF Begins
    <3>2. CASE k # n + 1
      <4>1. k \in 0 .. n /\ k \in 0 .. N
        BY <1>0, <2>1, <3>2
      <4>2. Len(out[k]) \in Nat
        BY <4>1 DEF IsOut
      <4>3. /\ Len(out[k]) <= Len(out[n])
            /\ \A i \in 1 .. Len(out[k]) : out[n][i] = out[k][i]
        BY <2>2, <4>1 DEF Begins
      <4>4. \A i \in 1 .. Len(out[k]) : i \in 1 .. Len(out[n])
        BY <2>7, <4>2, <4>3
      <4>5. Len(out[k]) <= Len(out[n + 1])
        BY <2>7, <2>8, <4>2, <4>3
      <4> QED
        BY <2>6, <4>3, <4>4, <4>5, Zenon DEF Begins
    <3> QED
      BY <3>1, <3>2
  <2> QED
    BY <2>8, <2>9
<1>3. Nat \subseteq T
  <2> HIDE DEF T
  <2> QED
    BY <1>1, <1>2, Induction
<1>4. \A n \in 0 .. N : n \in Nat /\ n <= N
  BY <1>0
<1> HIDE DEF Grown
<1>5. \A n \in 0 .. N : Grown(n)
  BY <1>3, <1>4
<1> QED
  BY <1>5 DEF Grown

(* The next character of the value is read from behind what is out.        *)
LEMMA ReadsNext ==
    ASSUME NEW value \in Seq(Chars), NEW out, IsOut(out, value),
           NEW text, text = out[Len(value)] \o <<Quote>>, NEW n \in 0 .. Len(value) - 1
    PROVE  /\ CharacterAt(text, Len(out[n]) + 1) =
                [length |-> Len(Escaped(value[n + 1])), character |-> value[n + 1]]
           /\ Len(out[n + 1]) = Len(out[n]) + Len(Escaped(value[n + 1]))
           /\ Len(Escaped(value[n + 1])) # 0
<1> DEFINE N == Len(value)
           c == value[n + 1]
           e == Escaped(c)
           i == Len(out[n]) + 1
<1>0. /\ N \in Nat /\ n \in Nat /\ n \in 0 .. N /\ n + 1 \in 0 .. N /\ N \in 0 .. N
      /\ n + 1 \in 1 .. N
  OBVIOUS
<1>1. c \in Chars
  BY <1>0
<1>2. e \in Seq(Chars) /\ Len(e) \in Nat \ {0}
  BY <1>1, CharacterReadsBack
<1>3. /\ out[n] \in Seq(Chars) /\ out[n + 1] \in Seq(Chars) /\ out[N] \in Seq(Chars)
      /\ out[n + 1] = out[n] \o e
  BY <1>0 DEF IsOut
<1> HIDE DEF e, c, i, N
<1>4. /\ Len(out[n + 1]) = Len(out[n]) + Len(e)
      /\ \A j \in 1 .. Len(e) : out[n + 1][Len(out[n]) + j] = e[j]
  BY <1>2, <1>3, Joined
<1>5. Begins(out[N], out[n + 1])
  <2>1. \A k \in 0 .. N : Begins(out[N], out[k])
    BY <1>0, OutGrows DEF N
  <2> QED
    BY <1>0, <2>1
<1>6. <<Quote>> \in Seq(Chars) /\ Len(<<Quote>>) = 1
  BY DEF Quote, Chars
<1>7. /\ text \in Seq(Chars) /\ Len(text) = Len(out[N]) + 1
      /\ \A j \in 1 .. Len(out[N]) : text[j] = out[N][j]
  BY <1>3, <1>6, Joined DEF N
<1>8. /\ Len(out[n]) \in Nat /\ Len(out[n + 1]) \in Nat /\ Len(out[N]) \in Nat
      /\ Len(out[n + 1]) <= Len(out[N])
  BY <1>3, <1>5 DEF Begins
<1>9. i \in 1 .. Len(text) /\ i + Len(e) <= Len(text) + 1
  <2> DEFINE p == Len(out[n])
             q == Len(out[n + 1])
             r == Len(out[N])
             l == Len(e)
  <2>1. i = p + 1 /\ q = p + l /\ q <= r /\ Len(text) = r + 1 /\ l \in Nat /\ l # 0
    BY <1>2, <1>4, <1>7, <1>8 DEF i
  <2>2. p \in Nat /\ q \in Nat /\ r \in Nat
    BY <1>8
  <2>3. Len(text) \in Nat
    BY <1>7
  <2> HIDE DEF p, q, r, l
  <2>4. i \in 1 .. Len(text) /\ i + l <= Len(text) + 1
    BY <2>1, <2>2, <2>3
  <2> QED
    BY <2>4 DEF l
<1>10. ASSUME NEW j \in 1 .. Len(e) PROVE text[i + j - 1] = e[j]
  <2>1. /\ i + j - 1 = Len(out[n]) + j
        /\ Len(out[n]) + j \in 1 .. Len(out[n + 1])
        /\ Len(out[n]) + j \in 1 .. Len(out[N])
    BY <1>2, <1>4, <1>8 DEF i
  <2> QED
    BY <1>4, <1>5, <1>7, <2>1 DEF Begins
<1>11. CharacterAt(text, i) = [length |-> Len(e), character |-> c]
  BY <1>1, <1>7, <1>9, <1>10, CharacterReadsBack DEF e
<1> QED
  BY <1>2, <1>4, <1>11 DEF i, e, c

(* Reading a quoted text, a character a turn: when n are read, the reader  *)
(* is behind what they were written as.                                    *)
LEMMA QuotedReadsBack ==
    ASSUME NEW value \in Seq(Chars), NEW text, text = AppendJsonString(value)
    PROVE  ReadString(text) = [end |-> Len(text), characters |-> value]
<1> DEFINE N == Len(value)
<1>1. PICK out : IsOut(out, value) /\ text = out[N] \o <<Quote>>
  BY QuotedIs
<1> DEFINE Reader(n) == [at |-> Len(out[n]) + 1, characters |-> SubSeq(value, 1, n)]
           read(n) == IF n <= N THEN Reader(n) ELSE Reader(N)
           f == [n \in Nat |-> read(n)]
           first == [at |-> 2, characters |-> <<>>]
           Is(w) == w = [turns \in Nat |-> IF turns = 0 THEN first
                                           ELSE ReadOne(text, w[turns - 1])]
           after == CHOOSE w : Is(w)
<1>0. N \in Nat /\ 0 \in 0 .. N /\ N \in 0 .. N
  OBVIOUS
<1>2. /\ text \in Seq(Chars) /\ Len(text) = Len(out[N]) + 1 /\ text[Len(text)] = Quote
      /\ text[1] = Quote /\ text # <<>> /\ N < Len(text)
  <2>1. out[N] \in Seq(Chars) /\ out[0] \in Seq(Chars) /\ out[0] = <<Quote>>
    BY <1>0, <1>1 DEF IsOut
  <2>2. <<Quote>> \in Seq(Chars) /\ Len(<<Quote>>) = 1 /\ <<Quote>>[1] = Quote
    BY DEF Quote, Chars
  <2>3. N < Len(out[N]) /\ Begins(out[N], out[0])
    BY <1>0, <1>1, OutGrows
  <2> HIDE DEF N
  <2>4. /\ text \in Seq(Chars) /\ Len(text) = Len(out[N]) + Len(<<Quote>>)
        /\ \A i \in 1 .. Len(out[N]) : text[i] = out[N][i]
        /\ \A i \in 1 .. Len(<<Quote>>) : text[Len(out[N]) + i] = <<Quote>>[i]
    BY <1>1, <2>1, <2>2, Joined
  <2>5. Len(out[N]) \in Nat /\ 1 \in 1 .. Len(out[0]) /\ 1 \in 1 .. Len(<<Quote>>)
    BY <2>1, <2>2
  <2>6. 1 \in 1 .. Len(out[N]) /\ N < Len(out[N]) + 1
    BY <1>0, <2>3, <2>5
  <2>7. text[1] = Quote
    BY <2>1, <2>2, <2>3, <2>4, <2>5, <2>6, Zenon DEF Begins
  <2>8. Len(text) = Len(out[N]) + 1 /\ text[Len(text)] = Quote
    BY <2>2, <2>4, <2>5
  <2>9. text # <<>>
    BY <2>4, <2>5, <2>8
  <2> QED
    BY <2>4, <2>6, <2>7, <2>8, <2>9
<1>3. Reader(0) = first
  <2>1. Len(out[0]) = 1 /\ SubSeq(value, 1, 0) = <<>>
    BY <1>1 DEF IsOut
  <2> QED
    BY <2>1
<1>4. ASSUME NEW n \in 0 .. N - 1 PROVE ReadOne(text, Reader(n)) = Reader(n + 1)
  <2> DEFINE l == Len(Escaped(value[n + 1]))
  <2>1. /\ CharacterAt(text, Len(out[n]) + 1) = [length |-> l, character |-> value[n + 1]]
        /\ Len(out[n + 1]) = Len(out[n]) + l /\ l # 0
    BY <1>1, ReadsNext
  <2>2. Append(SubSeq(value, 1, n), value[n + 1]) = SubSeq(value, 1, n + 1)
    BY <1>0
  <2>3. n \in 0 .. N /\ n + 1 \in 1 .. N
    BY <1>0
  <2>4. Len(out[n]) \in Nat /\ l \in Nat
    <3>1. value[n + 1] \in Chars
      BY <2>3
    <3>2. l \in Nat
      BY <3>1, CharacterReadsBack
    <3> QED
      BY <1>1, <2>3, <3>2 DEF IsOut
  <2> HIDE DEF l, N
  <2>5. Len(out[n]) + 1 + l = Len(out[n + 1]) + 1
    BY <2>1, <2>4
  <2>6. /\ Reader(n).at = Len(out[n]) + 1
        /\ Reader(n).characters = SubSeq(value, 1, n)
    OBVIOUS
  <2> DEFINE reader == Reader(n)
             next == [length |-> l, character |-> value[n + 1]]
  <2>7. CharacterAt(text, reader.at) = next /\ next.length = l /\ next.character = value[n + 1]
    BY <2>1, <2>6
  <2> HIDE DEF reader, next
  <2>8. ReadOne(text, reader) = [at |-> reader.at + l,
                                 characters |-> Append(reader.characters, value[n + 1])]
    BY <2>1, <2>7 DEF ReadOne
  <2> QED
    BY <2>2, <2>5, <2>6, <2>8 DEF reader
<1>5. ReadOne(text, Reader(N)) = Reader(N)
  <2>1. CharacterAt(text, Len(out[N]) + 1) = Nothing
    BY <1>2 DEF CharacterAt
  <2> QED
    BY <2>1 DEF ReadOne, Nothing
<1> HIDE DEF Reader, first
<1>6. ASSUME NEW n \in Nat PROVE read(n + 1) = ReadOne(text, read(n))
  <2> HIDE DEF N
  <2>1. CASE n + 1 <= N
    <3>1. n <= N /\ n \in 0 .. N - 1
      BY <1>0, <2>1
    <3> QED
      BY <1>4, <2>1, <3>1
  <2>2. CASE n = N
    <3>1. ~(n + 1 <= N) /\ n <= N
      BY <1>0, <2>2
    <3> QED
      BY <1>5, <2>2, <3>1
  <2>3. CASE n > N
    <3>1. ~(n + 1 <= N) /\ ~(n <= N)
      BY <1>0, <2>3
    <3> QED
      BY <1>5, <3>1
  <2> QED
    BY <1>0, <2>1, <2>2, <2>3
<1>7. read(0) = first
  BY <1>0, <1>3
<1> HIDE DEF read
<1>8. Is(f)
  <2>1. ASSUME NEW n \in Nat, n # 0 PROVE f[n] = ReadOne(text, f[n - 1])
    <3>1. n - 1 \in Nat /\ (n - 1) + 1 = n
      BY <2>1
    <3> QED
      BY <1>6, <3>1
  <2>2. f[0] = first /\ f = [n \in Nat |-> f[n]]
    BY <1>7
  <2> HIDE DEF f
  <2>3. \A n \in Nat : f[n] = IF n = 0 THEN first ELSE ReadOne(text, f[n - 1])
    BY <2>1, <2>2
  <2> QED
    BY <2>2, <2>3
<1>9. Is(after)
  <2> HIDE DEF f
  <2> QED
    BY <1>8
<1> DEFINE reader == after[Len(text)]
<1>10. ReadString(text) =
          IF /\ text # <<>> /\ text[1] = Quote
             /\ reader.at <= Len(text) /\ text[reader.at] = Quote
          THEN [end |-> reader.at, characters |-> reader.characters]
          ELSE [end |-> 0, characters |-> <<>>]
  BY Zenon DEF ReadString, first
<1> HIDE DEF after
<1>11. after[0] = first /\ \A n \in Nat : after[n + 1] = ReadOne(text, after[n])
  <2>1. \A n \in Nat : after[n] = IF n = 0 THEN first ELSE ReadOne(text, after[n - 1])
    BY <1>9
  <2>2. \A n \in Nat : n + 1 \in Nat /\ n + 1 # 0 /\ (n + 1) - 1 = n
    OBVIOUS
  <2> QED
    BY <2>1, <2>2
<1> DEFINE T == {n \in Nat : after[n] = read(n)}
<1>12. 0 \in T
  BY <1>7, <1>11
<1>13. ASSUME NEW n \in Nat, n \in T PROVE n + 1 \in T
  <2>1. after[n] = read(n)
    BY <1>13
  <2>2. after[n + 1] = read(n + 1)
    BY <1>6, <1>11, <2>1, Zenon
  <2>3. n + 1 \in Nat
    OBVIOUS
  <2> QED
    BY <2>2, <2>3
<1>14. Nat \subseteq T
  <2> HIDE DEF T
  <2> QED
    BY <1>12, <1>13, Induction
<1>15. Len(text) \in Nat
  BY <1>2
<1>16. reader = Reader(N)
  <2>1. reader = read(Len(text))
    BY <1>14, <1>15
  <2>2. ~(Len(text) <= N)
    BY <1>0, <1>2, <1>15
  <2> QED
    BY <2>1, <2>2 DEF read
<1>17. reader.at = Len(text) /\ reader.characters = value
  <2>1. SubSeq(value, 1, N) = value
    OBVIOUS
  <2> QED
    BY <1>2, <1>16, <2>1 DEF Reader
<1> HIDE DEF reader
<1> QED
  BY <1>2, <1>10, <1>15, <1>17

(* append_json_string(): whatever text is quoted, a reader of JSON reads   *)
(* that text, and ends at the quote the server ended it with.              *)
THEOREM QuotedTextsReadBack == Spec => []QuotedTextReadsBack
<1>1. Answered => QuotedTextReadsBack
  <2> SUFFICES ASSUME Answered, Returned("append_json_string")
               PROVE  ReadString(Result) = [end |-> Len(Result), characters |-> call.text]
    BY DEF QuotedTextReadsBack
  <2>1. call.text \in Seq(Chars)
    BY InputsAssumption DEF Answered, Answers, Returned, Chars
  <2>2. Result = AppendJsonString(call.text)
    BY DEF Answered, Answers, Returned, Result
  <2> QED
    BY <2>1, <2>2, QuotedReadsBack
<1> QED
  BY <1>1, AlwaysAnswered, PTL

-----------------------------------------------------------------------------
(* Paths, from the pattern to the uid.                                     *)

(* A character behind two texts is behind the second.                      *)
LEMMA AppendBehind ==
    ASSUME NEW C, NEW x \in Seq(C), NEW y \in Seq(C), NEW c \in C
    PROVE  x \o Append(y, c) = Append(x \o y, c)
<1>1. Append(y, c) = y \o <<c>> /\ x \o y \in Seq(C) /\ <<c>> \in Seq(C)
  BY AppendIsConcat, ConcatProperties
<1>2. Append(x \o y, c) = (x \o y) \o <<c>>
  BY <1>1, AppendIsConcat
<1> QED
  BY <1>1, <1>2, ConcatAssociative

LEMMA CodeBehind ==
    \A x, y \in Seq(Int) : \A c \in Int : x \o Append(y, c) = Append(x \o y, c)
  BY AppendBehind

(* One turn of to_library_pattern(). *)
PatternTurn ==
    [text \in Seq(Int) |-> [c \in Int |->
        IF c = OpenBrace THEN Append(text, PathColon)
        ELSE IF c # CloseBrace THEN Append(text, c) ELSE text]]

LEMMA PatternTurnType == PatternTurn \in [Seq(Int) -> [Int -> Seq(Int)]]
<1>1. PathColon \in Int
  BY DEF PathColon
<1>2. \A text \in Seq(Int) : \A c \in Int : Append(text, c) \in Seq(Int)
  OBVIOUS
<1> DEFINE X == Seq(Int)
           A(text, c) == Append(text, c)
<1>3. \A text \in X : \A c \in Int : A(text, c) \in X
  BY <1>2
<1>4. PatternTurn = [text \in X |-> [c \in Int |->
        IF c = OpenBrace THEN A(text, PathColon)
        ELSE IF c # CloseBrace THEN A(text, c) ELSE text]]
  BY DEF PatternTurn
<1> HIDE DEF X, A
<1>5. PatternTurn \in [X -> [Int -> X]]
  BY <1>1, <1>3, <1>4
<1> QED
  BY <1>5 DEF X

LEMMA PatternIsLoop ==
    ASSUME NEW path \in Seq(Int)
    PROVE  \E f : /\ IsLoop(f, Seq(Int), <<>>, PatternTurn, path)
                  /\ ToLibraryPattern(path) = f[Len(path)]
<1> DEFINE X == Seq(Int)
           N == Len(path)
           T(text, c) == IF c = OpenBrace THEN Append(text, PathColon)
                         ELSE IF c # CloseBrace THEN Append(text, c) ELSE text
           Is(w) == w = [n \in 0 .. N |-> IF n = 0 THEN <<>>
                            ELSE IF path[n] = OpenBrace THEN Append(w[n - 1], PathColon)
                            ELSE IF path[n] # CloseBrace THEN Append(w[n - 1], path[n])
                            ELSE w[n - 1]]
           g == CHOOSE w : Is(w)
<1>0. N \in Nat /\ <<>> \in X /\ \A n \in 1 .. N : path[n] \in Int
  OBVIOUS
<1>1. PICK f : IsLoop(f, X, <<>>, PatternTurn, path)
  <2> HIDE DEF X
  <2> QED
    BY <1>0, PatternTurnType, LoopExists DEF X
<1>2. \A text \in X : \A c \in Int : PatternTurn[text][c] = T(text, c)
  BY DEF PatternTurn
<1>3. ToLibraryPattern(path) = g[N]
  BY DEF ToLibraryPattern
<1>4. \A w : Is(w) <=> w = [n \in 0 .. N |-> IF n = 0 THEN <<>> ELSE T(w[n - 1], path[n])]
  OBVIOUS
<1> HIDE DEF X, Is, T, N
<1>5. /\ f = [n \in 0 .. N |-> f[n]] /\ f[0] = <<>>
      /\ \A n \in 0 .. N : f[n] \in X
      /\ \A n \in 0 .. N - 1 : f[n + 1] = PatternTurn[f[n]][path[n + 1]]
  BY <1>1 DEF IsLoop, N
<1>6. ASSUME NEW n \in 0 .. N, n # 0 PROVE f[n] = T(f[n - 1], path[n])
  <2>1. n - 1 \in 0 .. N - 1 /\ (n - 1) + 1 = n /\ n - 1 \in 0 .. N /\ n \in 1 .. N
    BY <1>0, <1>6
  <2>2. f[n - 1] \in X /\ path[n] \in Int
    BY <1>0, <1>5, <2>1
  <2>3. f[n] = PatternTurn[f[n - 1]][path[n]]
    BY <1>5, <2>1
  <2> QED
    BY <1>2, <2>2, <2>3
<1>7. Is(f)
  <2>1. \A n \in 0 .. N : f[n] = IF n = 0 THEN <<>> ELSE T(f[n - 1], path[n])
    BY <1>5, <1>6
  <2>2. f = [n \in 0 .. N |-> IF n = 0 THEN <<>> ELSE T(f[n - 1], path[n])]
    BY <1>5, <2>1
  <2> QED
    BY <1>4, <2>2
<1>8. Is(g)
  BY <1>7
<1>9. /\ g[0] = <<>>
      /\ \A n \in 0 .. N : n # 0 => g[n] = T(g[n - 1], path[n])
  <2>1. g = [n \in 0 .. N |-> IF n = 0 THEN <<>> ELSE T(g[n - 1], path[n])]
    BY <1>4, <1>8
  <2> HIDE DEF g
  <2>2. \A n \in 0 .. N : g[n] = IF n = 0 THEN <<>> ELSE T(g[n - 1], path[n])
    BY <2>1
  <2> QED
    BY <1>0, <2>2
<1> HIDE DEF g
<1> DEFINE U == {n \in Nat : n <= N => g[n] = f[n]}
<1>10. 0 \in U
  BY <1>5, <1>9
<1>11. ASSUME NEW n \in Nat, n \in U PROVE n + 1 \in U
  <2> SUFFICES ASSUME n + 1 <= N PROVE g[n + 1] = f[n + 1]
    OBVIOUS
  <2>1. n <= N /\ n + 1 \in 0 .. N /\ n + 1 # 0 /\ (n + 1) - 1 = n
    BY <1>0
  <2> QED
    BY <1>6, <1>9, <1>11, <2>1
<1>12. Nat \subseteq U
  <2> HIDE DEF U
  <2> QED
    BY <1>10, <1>11, Induction
<1>13. g[N] = f[N]
  BY <1>0, <1>12
<1> QED
  BY <1>1, <1>3, <1>13 DEF N, X

(* to_library_pattern(), a character at a time. *)
LEMMA PatternOf ==
    /\ ToLibraryPattern(<<>>) = <<>>
    /\ \A path \in Seq(Int) :
          /\ ToLibraryPattern(path) \in Seq(Int)
          /\ \A c \in Int :
                ToLibraryPattern(Append(path, c)) =
                   IF c = OpenBrace THEN Append(ToLibraryPattern(path), PathColon)
                   ELSE IF c # CloseBrace THEN Append(ToLibraryPattern(path), c)
                   ELSE ToLibraryPattern(path)
<1>1. ToLibraryPattern(<<>>) = <<>>
  <2>1. <<>> \in Seq(Int) /\ Len(<<>>) = 0
    OBVIOUS
  <2>2. PICK f : /\ IsLoop(f, Seq(Int), <<>>, PatternTurn, <<>>)
                 /\ ToLibraryPattern(<<>>) = f[0]
    BY <2>1, PatternIsLoop
  <2> QED
    BY <2>2 DEF IsLoop
<1>2. ASSUME NEW path \in Seq(Int) PROVE ToLibraryPattern(path) \in Seq(Int)
  <2>1. PICK f : /\ IsLoop(f, Seq(Int), <<>>, PatternTurn, path)
                 /\ ToLibraryPattern(path) = f[Len(path)]
    BY PatternIsLoop
  <2>2. f \in [0 .. Len(path) -> Seq(Int)] /\ Len(path) \in 0 .. Len(path)
    BY <2>1 DEF IsLoop
  <2> QED
    BY <2>1, <2>2
<1>3. ASSUME NEW path \in Seq(Int), NEW c \in Int
      PROVE  ToLibraryPattern(Append(path, c)) = PatternTurn[ToLibraryPattern(path)][c]
  <2>1. PICK f : /\ IsLoop(f, Seq(Int), <<>>, PatternTurn, path)
                 /\ ToLibraryPattern(path) = f[Len(path)]
    BY PatternIsLoop
  <2> DEFINE longer == Append(path, c)
  <2>2. /\ longer \in Seq(Int) /\ Len(longer) = Len(path) + 1 /\ Len(path) \in Nat
        /\ longer[Len(path) + 1] = c /\ \A n \in 1 .. Len(path) : longer[n] = path[n]
    OBVIOUS
  <2> HIDE DEF longer
  <2>3. PICK g : /\ IsLoop(g, Seq(Int), <<>>, PatternTurn, longer)
                 /\ ToLibraryPattern(longer) = g[Len(longer)]
    BY <2>2, PatternIsLoop
  <2>4. g[Len(path) + 1] = PatternTurn[f[Len(path)]][c]
    BY <2>1, <2>2, <2>3, LoopTurns
  <2> QED
    BY <2>1, <2>2, <2>3, <2>4 DEF longer
<1>4. ASSUME NEW path \in Seq(Int), NEW c \in Int
      PROVE  ToLibraryPattern(Append(path, c)) =
                IF c = OpenBrace THEN Append(ToLibraryPattern(path), PathColon)
                ELSE IF c # CloseBrace THEN Append(ToLibraryPattern(path), c)
                ELSE ToLibraryPattern(path)
  <2> DEFINE text == ToLibraryPattern(path)
  <2>1. text \in Seq(Int)
    BY <1>2
  <2> HIDE DEF text
  <2>2. PatternTurn[text][c] = IF c = OpenBrace THEN Append(text, PathColon)
                               ELSE IF c # CloseBrace THEN Append(text, c) ELSE text
    BY <2>1 DEF PatternTurn
  <2> QED
    BY <1>3, <2>2 DEF text
<1> QED
  BY <1>1, <1>2, <1>4

(* to_library_pattern() translates a path part by part, *)
LEMMA PatternOfParts ==
    ASSUME NEW x \in Seq(Int), NEW y \in Seq(Int)
    PROVE  ToLibraryPattern(x \o y) = ToLibraryPattern(x) \o ToLibraryPattern(y)
<1> DEFINE T == {z \in Seq(Int) :
                   ToLibraryPattern(x \o z) = ToLibraryPattern(x) \o ToLibraryPattern(z)}
<1>1. <<>> \in T
  <2>1. ToLibraryPattern(x) \in Seq(Int) /\ <<>> \in Seq(Int)
    BY PatternOf
  <2>2. x \o <<>> = x /\ ToLibraryPattern(x) \o <<>> = ToLibraryPattern(x)
    BY <2>1, ConcatEmptySeq
  <2> QED
    BY <2>1, <2>2, PatternOf
<1>2. ASSUME NEW s \in Seq(Int), s \in T, NEW c \in Int PROVE Append(s, c) \in T
  <2> DEFINE px == ToLibraryPattern(x)
             ps == ToLibraryPattern(s)
             xs == x \o s
             sc == Append(s, c)
  <2>1. px \in Seq(Int) /\ ps \in Seq(Int) /\ xs \in Seq(Int) /\ sc \in Seq(Int)
    BY PatternOf, ConcatProperties, AppendProperties
  <2>2. x \o sc = Append(xs, c)
    BY AppendBehind
  <2>3. ToLibraryPattern(xs) = px \o ps
    BY <1>2
  <2>4. PathColon \in Int
    BY DEF PathColon
  <2>5. ToLibraryPattern(sc) = IF c = OpenBrace THEN Append(ps, PathColon)
                               ELSE IF c # CloseBrace THEN Append(ps, c) ELSE ps
    BY PatternOf
  <2> HIDE DEF px, ps, xs, sc
  <2>6. /\ px \o Append(ps, c) = Append(px \o ps, c)
        /\ px \o Append(ps, PathColon) = Append(px \o ps, PathColon)
    <3>1. \A d \in Int : px \o Append(ps, d) = Append(px \o ps, d)
      <4>1. px \in Seq(Int) /\ ps \in Seq(Int)
        BY <2>1
      <4> QED
        BY <4>1, CodeBehind, Zenon
    <3> QED
      BY <2>4, <3>1, Zenon
  <2>7. ToLibraryPattern(Append(xs, c)) =
            IF c = OpenBrace THEN Append(px \o ps, PathColon)
            ELSE IF c # CloseBrace THEN Append(px \o ps, c) ELSE px \o ps
    <3> DEFINE p == px \o ps
    <3> SUFFICES ToLibraryPattern(Append(xs, c)) =
                    IF c = OpenBrace THEN Append(p, PathColon)
                    ELSE IF c # CloseBrace THEN Append(p, c) ELSE p
      OBVIOUS
    <3>1. ToLibraryPattern(xs) = p
      BY <2>3
    <3> HIDE DEF p
    <3> QED
      BY PatternOf, <2>1, <3>1, Zenon
  <2>8. ToLibraryPattern(x \o sc) = px \o ToLibraryPattern(sc)
    <3>1. CASE c = OpenBrace
      BY <3>1, <2>2, <2>5, <2>6, <2>7
    <3>2. CASE c # OpenBrace /\ c = CloseBrace
      BY <3>2, <2>2, <2>5, <2>7
    <3>3. CASE c # OpenBrace /\ c # CloseBrace
      BY <3>3, <2>2, <2>5, <2>6, <2>7
    <3> QED
      BY <3>1, <3>2, <3>3
  <2> QED
    BY <2>1, <2>8 DEF px, sc
<1> HIDE DEF T
<1>3. Seq(Int) \subseteq T
  BY <1>1, <1>2, TextInduction
<1> QED
  BY <1>3 DEF T

(* and leaves a part without braces as it is. *)
LEMMA PatternOfPlain ==
    ASSUME NEW x \in Seq(Int \ {OpenBrace, CloseBrace})
    PROVE  ToLibraryPattern(x) = x
<1> DEFINE C == Int \ {OpenBrace, CloseBrace}
           T == {z \in Seq(C) : ToLibraryPattern(z) = z}
<1>1. <<>> \in T
  BY PatternOf
<1>2. ASSUME NEW s \in Seq(C), s \in T, NEW c \in C PROVE Append(s, c) \in T
  <2>1. s \in Seq(Int) /\ Append(s, c) \in Seq(C) /\ c \in Int /\ c # OpenBrace /\ c # CloseBrace
    OBVIOUS
  <2>2. ToLibraryPattern(Append(s, c)) = Append(ToLibraryPattern(s), c)
    BY <2>1, PatternOf
  <2> QED
    BY <1>2, <2>1, <2>2
<1> HIDE DEF T, C
<1>3. Seq(C) \subseteq T
  BY <1>1, <1>2, TextInduction
<1> QED
  BY <1>3 DEF T, C

-----------------------------------------------------------------------------
(* Segments of paths.                                                      *)

(* A character behind the last of the segments. *)
Longer(segments, c) == [segments EXCEPT ![Len(segments)] = Append(@, c)]

NoSlash == Int \ {Slash}
SegmentLists == {segments \in Seq(Seq(NoSlash)) : segments # <<>>}

LEMMA LongerIs ==
    ASSUME NEW segments \in SegmentLists, NEW c \in NoSlash
    PROVE  /\ Longer(segments, c) \in SegmentLists
           /\ Len(Longer(segments, c)) = Len(segments)
           /\ Len(segments) \in Nat \ {0}
           /\ Longer(segments, c)[Len(segments)] = Append(segments[Len(segments)], c)
           /\ \A k \in 1 .. Len(segments) - 1 : Longer(segments, c)[k] = segments[k]
<1> DEFINE X == Seq(NoSlash)
           last == segments[Len(segments)]
           e == Append(last, c)
<1>1. segments \in Seq(X) /\ segments # <<>>
  BY DEF SegmentLists
<1>2. last \in X /\ Len(segments) \in Nat \ {0}
  <2> HIDE DEF X
  <2> QED
    BY <1>1
<1>3. e \in X
  <2> HIDE DEF last
  <2> QED
    BY <1>2
<1>4. Longer(segments, c) = [segments EXCEPT ![Len(segments)] = e]
  BY DEF Longer
<1> HIDE DEF X, e
<1>5. /\ Longer(segments, c) \in Seq(X) /\ Len(Longer(segments, c)) = Len(segments)
      /\ Longer(segments, c)[Len(segments)] = e
      /\ \A k \in 1 .. Len(segments) - 1 : Longer(segments, c)[k] = segments[k]
  <2>1. Len(segments) \in 1 .. Len(segments)
    BY <1>2
  <2> QED
    BY <1>1, <1>2, <1>3, <1>4, <2>1, ExceptSeq
<1>6. Longer(segments, c) # <<>>
  <2>1. Len(Longer(segments, c)) # 0
    BY <1>2, <1>5
  <2> QED
    BY <2>1
<1> QED
  BY <1>2, <1>5, <1>6 DEF SegmentLists, X, e

LEMMA ShorterIs ==
    ASSUME NEW segments \in SegmentLists
    PROVE  /\ Append(segments, <<>>) \in SegmentLists
           /\ Len(Append(segments, <<>>)) = Len(segments) + 1
           /\ Append(segments, <<>>)[Len(segments) + 1] = <<>>
<1> DEFINE X == Seq(NoSlash)
           e == <<>>
<1>1. segments \in Seq(X) /\ e \in X
  BY DEF SegmentLists
<1> HIDE DEF X, e
<1>2. /\ Append(segments, e) \in Seq(X) /\ Append(segments, e) # <<>>
      /\ Len(Append(segments, e)) = Len(segments) + 1
      /\ Append(segments, e)[Len(segments) + 1] = e
  BY <1>1, AppendProperties
<1> QED
  BY <1>2 DEF SegmentLists, X, e

(* One turn of the library's loop. *)
SegmentsTurn ==
    [segments \in SegmentLists |-> [c \in Int |->
        IF c = Slash THEN Append(segments, <<>>) ELSE Longer(segments, c)]]

LEMMA SegmentsTurnType == SegmentsTurn \in [SegmentLists -> [Int -> SegmentLists]]
<1> DEFINE A(segments) == Append(segments, <<>>)
<1>1. \A segments \in SegmentLists : A(segments) \in SegmentLists
  BY ShorterIs
<1>2. \A segments \in SegmentLists : \A c \in Int :
         c # Slash => Longer(segments, c) \in SegmentLists
  BY LongerIs DEF NoSlash
<1>3. SegmentsTurn = [segments \in SegmentLists |-> [c \in Int |->
        IF c = Slash THEN A(segments) ELSE Longer(segments, c)]]
  BY DEF SegmentsTurn
<1> HIDE DEF A
<1> QED
  BY <1>1, <1>2, <1>3

LEMMA SegmentsIsLoop ==
    ASSUME NEW path \in Seq(Int)
    PROVE  \E f : /\ IsLoop(f, SegmentLists, <<<<>>>>, SegmentsTurn, path)
                  /\ Segments(path) = f[Len(path)]
<1> DEFINE X == SegmentLists
           N == Len(path)
           base == <<<<>>>>
           T(segments, c) == IF c = Slash THEN Append(segments, <<>>)
                             ELSE Longer(segments, c)
           Is(w) == w = [n \in 0 .. N |-> IF n = 0 THEN <<<<>>>>
                            ELSE IF path[n] = Slash THEN Append(w[n - 1], <<>>)
                            ELSE [w[n - 1] EXCEPT ![Len(w[n - 1])] = Append(@, path[n])]]
           g == CHOOSE w : Is(w)
<1>0. N \in Nat /\ \A n \in 1 .. N : path[n] \in Int
  OBVIOUS
<1>1. base \in X
  <2>1. <<>> \in Seq(NoSlash)
    OBVIOUS
  <2>2. \A Y : \A y \in Y : <<y>> \in Seq(Y) /\ <<y>> # <<>>
    OBVIOUS
  <2>3. <<<<>>>> \in Seq(Seq(NoSlash)) /\ <<<<>>>> # <<>>
    BY <2>1, <2>2, Zenon
  <2> QED
    BY <2>3 DEF SegmentLists
<1>2. \A segments \in X : \A c \in Int : SegmentsTurn[segments][c] = T(segments, c)
  BY DEF SegmentsTurn
<1>3. Segments(path) = g[N]
  BY DEF Segments
<1>4. \A w : Is(w) <=> w = [n \in 0 .. N |-> IF n = 0 THEN base ELSE T(w[n - 1], path[n])]
  BY DEF Longer
<1> HIDE DEF X, Is, T, N, base
<1>5. PICK f : IsLoop(f, X, base, SegmentsTurn, path)
  BY <1>0, <1>1, SegmentsTurnType, LoopExists DEF X
<1>6. /\ f = [n \in 0 .. N |-> f[n]] /\ f[0] = base
      /\ \A n \in 0 .. N : f[n] \in X
      /\ \A n \in 0 .. N - 1 : f[n + 1] = SegmentsTurn[f[n]][path[n + 1]]
  BY <1>5 DEF IsLoop, N
<1>7. ASSUME NEW n \in 0 .. N, n # 0 PROVE f[n] = T(f[n - 1], path[n])
  <2>1. n - 1 \in 0 .. N - 1 /\ (n - 1) + 1 = n /\ n - 1 \in 0 .. N /\ n \in 1 .. N
    BY <1>0, <1>7
  <2>2. f[n - 1] \in X /\ path[n] \in Int
    BY <1>0, <1>6, <2>1
  <2>3. f[n] = SegmentsTurn[f[n - 1]][path[n]]
    BY <1>6, <2>1
  <2> QED
    BY <1>2, <2>2, <2>3
<1>8. Is(f)
  <2>1. \A n \in 0 .. N : f[n] = IF n = 0 THEN base ELSE T(f[n - 1], path[n])
    BY <1>6, <1>7
  <2>2. f = [n \in 0 .. N |-> IF n = 0 THEN base ELSE T(f[n - 1], path[n])]
    BY <1>6, <2>1
  <2> QED
    BY <1>4, <2>2
<1>9. Is(g)
  BY <1>8
<1>10. g[0] = base /\ \A n \in 0 .. N : n # 0 => g[n] = T(g[n - 1], path[n])
  <2>1. g = [n \in 0 .. N |-> IF n = 0 THEN base ELSE T(g[n - 1], path[n])]
    BY <1>4, <1>9
  <2> HIDE DEF g
  <2>2. \A n \in 0 .. N : g[n] = IF n = 0 THEN base ELSE T(g[n - 1], path[n])
    BY <2>1
  <2> QED
    BY <1>0, <2>2
<1> HIDE DEF g
<1> DEFINE U == {n \in Nat : n <= N => g[n] = f[n]}
<1>11. 0 \in U
  BY <1>6, <1>10
<1>12. ASSUME NEW n \in Nat, n \in U PROVE n + 1 \in U
  <2> SUFFICES ASSUME n + 1 <= N PROVE g[n + 1] = f[n + 1]
    OBVIOUS
  <2>1. n <= N /\ n + 1 \in 0 .. N /\ n + 1 # 0 /\ (n + 1) - 1 = n
    BY <1>0
  <2> QED
    BY <1>7, <1>10, <1>12, <2>1
<1>13. Nat \subseteq U
  <2> HIDE DEF U
  <2> QED
    BY <1>11, <1>12, Induction
<1>14. g[N] = f[N]
  BY <1>0, <1>13
<1> QED
  BY <1>3, <1>5, <1>14 DEF N, X, base

(* The segments of a path, a character at a time. *)
LEMMA SegmentsOf ==
    /\ Segments(<<>>) = <<<<>>>>
    /\ \A path \in Seq(Int) :
          /\ Segments(path) \in SegmentLists
          /\ Segments(Append(path, Slash)) = Append(Segments(path), <<>>)
          /\ \A c \in NoSlash : Segments(Append(path, c)) = Longer(Segments(path), c)
<1> DEFINE base == <<<<>>>>
<1>1. Segments(<<>>) = base
  <2>1. <<>> \in Seq(Int) /\ Len(<<>>) = 0
    OBVIOUS
  <2>2. PICK f : /\ IsLoop(f, SegmentLists, base, SegmentsTurn, <<>>)
                 /\ Segments(<<>>) = f[0]
    BY <2>1, SegmentsIsLoop
  <2> HIDE DEF base
  <2> QED
    BY <2>2 DEF IsLoop
<1>2. ASSUME NEW path \in Seq(Int) PROVE Segments(path) \in SegmentLists
  <2>1. PICK f : /\ IsLoop(f, SegmentLists, base, SegmentsTurn, path)
                 /\ Segments(path) = f[Len(path)]
    BY SegmentsIsLoop
  <2>2. f \in [0 .. Len(path) -> SegmentLists] /\ Len(path) \in 0 .. Len(path)
    BY <2>1 DEF IsLoop
  <2> QED
    BY <2>1, <2>2
<1>3. ASSUME NEW path \in Seq(Int), NEW c \in Int
      PROVE  Segments(Append(path, c)) = SegmentsTurn[Segments(path)][c]
  <2>1. PICK f : /\ IsLoop(f, SegmentLists, base, SegmentsTurn, path)
                 /\ Segments(path) = f[Len(path)]
    BY SegmentsIsLoop
  <2> DEFINE longer == Append(path, c)
  <2>2. /\ longer \in Seq(Int) /\ Len(longer) = Len(path) + 1 /\ Len(path) \in Nat
        /\ longer[Len(path) + 1] = c /\ \A n \in 1 .. Len(path) : longer[n] = path[n]
    OBVIOUS
  <2> HIDE DEF longer
  <2>3. PICK g : /\ IsLoop(g, SegmentLists, base, SegmentsTurn, longer)
                 /\ Segments(longer) = g[Len(longer)]
    BY <2>2, SegmentsIsLoop
  <2> HIDE DEF base
  <2>4. g[Len(path) + 1] = SegmentsTurn[f[Len(path)]][c]
    BY <2>1, <2>2, <2>3, LoopTurns
  <2> QED
    BY <2>1, <2>2, <2>3, <2>4 DEF longer
<1>4. Slash \in Int /\ \A c \in NoSlash : c \in Int /\ c # Slash
  BY DEF NoSlash, Slash
<1>5. ASSUME NEW path \in Seq(Int)
      PROVE  /\ Segments(Append(path, Slash)) = Append(Segments(path), <<>>)
             /\ \A c \in NoSlash : Segments(Append(path, c)) = Longer(Segments(path), c)
  <2> DEFINE segments == Segments(path)
  <2>1. segments \in SegmentLists
    BY <1>2
  <2> HIDE DEF segments
  <2>2. /\ SegmentsTurn[segments][Slash] = Append(segments, <<>>)
        /\ \A c \in NoSlash : SegmentsTurn[segments][c] = Longer(segments, c)
    BY <1>4, <2>1 DEF SegmentsTurn
  <2> QED
    BY <1>3, <1>4, <2>2 DEF segments
<1> QED
  BY <1>1, <1>2, <1>5

(* The last of two lists is the last of the second. *)
LEMMA ReplaceLast ==
    ASSUME NEW X, NEW a \in Seq(X), NEW b \in Seq(X), b # <<>>, NEW e \in X
    PROVE  [a \o b EXCEPT ![Len(a) + Len(b)] = e] = a \o [b EXCEPT ![Len(b)] = e]
<1> DEFINE n == Len(a)
           m == Len(b)
           ab == a \o b
           c == [b EXCEPT ![m] = e]
           u == [ab EXCEPT ![n + m] = e]
           v == a \o c
<1>1. /\ n \in Nat /\ m \in Nat \ {0} /\ ab \in Seq(X) /\ Len(ab) = n + m
      /\ \A i \in 1 .. n + m : ab[i] = IF i <= n THEN a[i] ELSE b[i - n]
  OBVIOUS
<1>2. /\ c \in Seq(X) /\ Len(c) = m
      /\ \A i \in 1 .. m : c[i] = IF i = m THEN e ELSE b[i]
  OBVIOUS
<1> HIDE DEF c, ab
<1>3. /\ u \in Seq(X) /\ Len(u) = n + m
      /\ \A i \in 1 .. n + m : u[i] = IF i = n + m THEN e ELSE ab[i]
  BY <1>1
<1>4. /\ v \in Seq(X) /\ Len(v) = n + m
      /\ \A i \in 1 .. n + m : v[i] = IF i <= n THEN a[i] ELSE c[i - n]
  BY <1>2
<1> HIDE DEF u, v, n, m
<1>5. ASSUME NEW i \in 1 .. n + m PROVE u[i] = v[i]
  <2>1. CASE i <= n
    <3>1. i # n + m
      BY <1>1, <2>1
    <3> QED
      BY <1>1, <1>3, <1>4, <2>1, <3>1
  <2>2. CASE ~(i <= n)
    <3>1. i - n \in 1 .. m /\ (i - n = m <=> i = n + m)
      BY <1>1, <2>2
    <3> QED
      BY <1>1, <1>2, <1>3, <1>4, <2>2, <3>1
  <2> QED
    BY <2>1, <2>2
<1>6. u = v
  BY <1>3, <1>4, <1>5, SeqEqual
<1> QED
  BY <1>6 DEF u, v, n, m, c, ab

(* A slash separates the segments before it from those behind it. *)
LEMMA SegmentsOfParts ==
    ASSUME NEW x \in Seq(Int), NEW y \in Seq(Int)
    PROVE  Segments(Append(x, Slash) \o y) = Segments(x) \o Segments(y)
<1> DEFINE xs == Append(x, Slash)
           sx == Segments(x)
           X == Seq(NoSlash)
           T == {z \in Seq(Int) : Segments(xs \o z) = sx \o Segments(z)}
<1>0. /\ Slash \in Int /\ xs \in Seq(Int) /\ sx \in SegmentLists
      /\ \A segments \in SegmentLists : segments \in Seq(X) /\ segments # <<>>
  BY SegmentsOf DEF Slash, SegmentLists
<1>1. <<>> \in T
  <2>1. xs \o <<>> = xs
    BY <1>0, ConcatEmptySeq
  <2>2. Segments(xs) = Append(sx, <<>>)
    BY SegmentsOf
  <2> DEFINE e == <<>>
  <2>3. e \in X
    OBVIOUS
  <2> HIDE DEF e, X, sx
  <2>4. Append(sx, e) = sx \o <<e>>
    BY <1>0, <2>3, AppendIsConcat
  <2>5. Segments(xs \o <<>>) = sx \o Segments(<<>>)
    BY <2>1, <2>2, <2>4, SegmentsOf DEF e
  <2> QED
    BY <2>5 DEF sx
<1>2. ASSUME NEW s \in Seq(Int), s \in T, NEW c \in Int PROVE Append(s, c) \in T
  <2> DEFINE ss == Segments(s)
             xss == xs \o s
             sc == Append(s, c)
  <2>1. /\ ss \in SegmentLists /\ xss \in Seq(Int) /\ sc \in Seq(Int)
        /\ xs \o sc = Append(xss, c) /\ Segments(xss) = sx \o ss
    <3>1. Segments(xss) = sx \o ss
      BY <1>2
    <3>2. ss \in SegmentLists
      BY SegmentsOf
    <3> HIDE DEF sx, xs, T
    <3>3. xss \in Seq(Int) /\ sc \in Seq(Int) /\ xs \o sc = Append(xss, c)
      BY <1>0
    <3> QED
      BY <3>1, <3>2, <3>3
  <2>2. Segments(xs \o sc) = sx \o Segments(sc)
    <3>1. CASE c = Slash
      <4>1. Segments(sc) = Append(ss, <<>>)
        BY <3>1, SegmentsOf
      <4> DEFINE e == <<>>
      <4>2. e \in X
        OBVIOUS
      <4> HIDE DEF xss, sx, ss, sc, xs
      <4>3. Segments(xs \o sc) = Append(sx \o ss, <<>>)
        BY <2>1, <3>1, SegmentsOf
      <4> HIDE DEF X, e
      <4>4. sx \o Append(ss, e) = Append(sx \o ss, e)
        <5>1. sx \in Seq(X) /\ ss \in Seq(X)
          BY <1>0, <2>1
        <5> QED
          BY <4>2, <5>1
      <4> QED
        BY <4>1, <4>3, <4>4 DEF e
    <3>2. CASE c # Slash
      <4>0. c \in NoSlash
        BY <3>2 DEF NoSlash
      <4>1. Segments(sc) = Longer(ss, c)
        BY <4>0, SegmentsOf
      <4> HIDE DEF xss, sx, ss, sc, xs
      <4>2. Segments(xs \o sc) = Longer(sx \o ss, c)
        BY <2>1, <4>0, SegmentsOf
      <4>3. Longer(sx \o ss, c) = sx \o Longer(ss, c)
        <5> DEFINE last == ss[Len(ss)]
                   e == Append(last, c)
                   n == Len(sx)
                   m == Len(ss)
                   both == sx \o ss
        <5>1. /\ n \in Nat /\ m \in Nat \ {0} /\ Len(both) = n + m /\ both[n + m] = last
              /\ both \in Seq(X) /\ last \in X
          <6> HIDE DEF X
          <6> QED
            BY <1>0, <2>1
        <5>2. e \in X
          <6> HIDE DEF last
          <6> QED
            BY <4>0, <5>1
        <5>3. Longer(both, c) = [both EXCEPT ![n + m] = e]
          <6> HIDE DEF both, n, m, last
          <6> QED
            BY <5>1 DEF Longer
        <5>4. Longer(ss, c) = [ss EXCEPT ![m] = e]
          BY DEF Longer
        <5> HIDE DEF e, X
        <5>5. [both EXCEPT ![n + m] = e] = sx \o [ss EXCEPT ![m] = e]
          <6>1. sx \in Seq(X) /\ ss \in Seq(X) /\ ss # <<>>
            BY <1>0, <2>1
          <6> QED
            BY <5>2, <6>1, ReplaceLast
        <5> QED
          BY <5>3, <5>4, <5>5
      <4> QED
        BY <4>1, <4>2, <4>3
    <3> QED
      BY <3>1, <3>2
  <2> QED
    BY <2>1, <2>2
<1>3. Seq(Int) \subseteq T
  <2> HIDE DEF T
  <2> QED
    BY <1>1, <1>2, TextInduction
<1> QED
  BY <1>3

(* A text without a slash is one segment. *)
LEMMA OneSegment ==
    ASSUME NEW text \in Seq(NoSlash)
    PROVE  Segments(text) = <<text>>
<1> DEFINE T == {z \in Seq(NoSlash) : Segments(z) = <<z>>}
<1>1. <<>> \in T
  BY SegmentsOf
<1>2. ASSUME NEW s \in Seq(NoSlash), s \in T, NEW c \in NoSlash PROVE Append(s, c) \in T
  <2>1. s \in Seq(Int) /\ Append(s, c) \in Seq(NoSlash)
    BY DEF NoSlash
  <2>2. Segments(Append(s, c)) = Longer(<<s>>, c)
    BY <1>2, <2>1, SegmentsOf
  <2> DEFINE e == Append(s, c)
  <2>3. Longer(<<s>>, c) = [<<s>> EXCEPT ![1] = e]
    BY DEF Longer
  <2> HIDE DEF e
  <2>4. [<<s>> EXCEPT ![1] = e] = <<e>>
    OBVIOUS
  <2> QED
    BY <2>1, <2>2, <2>3, <2>4 DEF e
<1> HIDE DEF T
<1>3. Seq(NoSlash) \subseteq T
  BY <1>1, <1>2, TextInduction
<1> QED
  BY <1>3 DEF T

(* The last segment, and how many there are, tell what a path ends with. *)
LastOf(segments) == segments[Len(segments)]

LEMMA EndsOf ==
    ASSUME NEW x \in Seq(Int)
    PROVE  /\ LastOf(Segments(Append(x, Slash))) = <<>>
           /\ \A c \in NoSlash : /\ LastOf(Segments(Append(x, c))) = Append(LastOf(Segments(x)), c)
                                 /\ LastOf(Segments(Append(x, c))) # <<>>
           /\ Len(Segments(Append(x, Slash))) = Len(Segments(x)) + 1
           /\ Len(Segments(x)) \in Nat \ {0}
           /\ LastOf(Segments(x)) \in Seq(NoSlash)
<1> DEFINE segments == Segments(x)
           X == Seq(NoSlash)
<1>1. segments \in SegmentLists
  BY SegmentsOf
<1>2. /\ Segments(Append(x, Slash)) = Append(segments, <<>>)
      /\ \A c \in NoSlash : Segments(Append(x, c)) = Longer(segments, c)
  BY SegmentsOf
<1> HIDE DEF segments, X
<1>3. Len(segments) \in Nat \ {0} /\ segments[Len(segments)] \in X
  BY <1>1 DEF SegmentLists, X
<1>4. /\ LastOf(Segments(Append(x, Slash))) = <<>>
      /\ Len(Segments(Append(x, Slash))) = Len(segments) + 1
  <2>1. /\ Len(Append(segments, <<>>)) = Len(segments) + 1
        /\ Append(segments, <<>>)[Len(segments) + 1] = <<>>
    BY <1>1, ShorterIs
  <2> DEFINE longer == Append(segments, <<>>)
  <2>2. Len(longer) = Len(segments) + 1 /\ longer[Len(segments) + 1] = <<>>
    BY <2>1
  <2>3. Segments(Append(x, Slash)) = longer
    BY <1>2
  <2> HIDE DEF longer
  <2> QED
    BY <2>2, <2>3 DEF LastOf
<1>5. ASSUME NEW c \in NoSlash
      PROVE  /\ LastOf(Segments(Append(x, c))) = Append(LastOf(segments), c)
             /\ Append(LastOf(segments), c) # <<>>
  <2>1. /\ Len(Longer(segments, c)) = Len(segments)
        /\ Longer(segments, c)[Len(segments)] = Append(segments[Len(segments)], c)
    BY <1>1, LongerIs
  <2> DEFINE last == segments[Len(segments)]
  <2>2. last \in Seq(NoSlash)
    BY <1>3 DEF X
  <2> HIDE DEF last
  <2>3. Append(last, c) # <<>>
    BY <2>2, AppendProperties
  <2> QED
    BY <1>2, <2>1, <2>3 DEF LastOf, last
<1> QED
  BY <1>3, <1>4, <1>5 DEF segments, LastOf, X

(* What is a character longer than a list is that list, made longer. *)
LEMMA LongerTells ==
    ASSUME NEW a \in SegmentLists, NEW b \in SegmentLists, NEW c \in NoSlash, NEW d \in NoSlash,
           Longer(a, c) = Longer(b, d)
    PROVE  a = b /\ c = d
<1> DEFINE X == Seq(NoSlash)
           la == a[Len(a)]
           lb == b[Len(b)]
<1>1. /\ Len(Longer(a, c)) = Len(a) /\ Len(Longer(b, d)) = Len(b)
      /\ Len(a) \in Nat \ {0} /\ Len(b) \in Nat \ {0}
      /\ Longer(a, c)[Len(a)] = Append(la, c)
      /\ Longer(b, d)[Len(b)] = Append(lb, d)
      /\ \A k \in 1 .. Len(a) - 1 : Longer(a, c)[k] = a[k]
      /\ \A k \in 1 .. Len(b) - 1 : Longer(b, d)[k] = b[k]
  BY LongerIs
<1>2. a \in Seq(X) /\ b \in Seq(X)
  BY DEF SegmentLists
<1>3. Len(a) = Len(b) /\ Append(la, c) = Append(lb, d)
  BY <1>1
<1>4. la \in X /\ lb \in X
  <2> HIDE DEF X
  <2> QED
    BY <1>1, <1>2
<1>5. la = lb /\ c = d
  <2> HIDE DEF la, lb
  <2> QED
    BY <1>3, <1>4, AppendInjective
<1>6. ASSUME NEW k \in 1 .. Len(a) PROVE a[k] = b[k]
  <2>1. CASE k = Len(a)
    BY <1>3, <1>5, <2>1
  <2>2. CASE k # Len(a)
    <3>1. k \in 1 .. Len(a) - 1 /\ k \in 1 .. Len(b) - 1
      BY <1>1, <1>3, <2>2
    <3> QED
      BY <1>1, <3>1
  <2> QED
    BY <2>1, <2>2
<1> HIDE DEF X
<1>7. a = b
  BY <1>2, <1>3, <1>6, SeqEqual
<1> QED
  BY <1>5, <1>7

(* No two paths have the same segments. *)
LEMMA SegmentsTell ==
    ASSUME NEW x \in Seq(Int), NEW y \in Seq(Int), Segments(x) = Segments(y)
    PROVE  x = y
<1> DEFINE T == {z \in Seq(Int) : \A w \in Seq(Int) : Segments(z) = Segments(w) => z = w}
<1>0. /\ Slash \in Int /\ \A c \in Int : c # Slash => c \in NoSlash
      /\ Len(<<<<>>>>) = 1 /\ LastOf(<<<<>>>>) = <<>>
  BY DEF NoSlash, Slash, LastOf
<1>1. ASSUME NEW s \in Seq(Int), NEW c \in Int PROVE Segments(Append(s, c)) # Segments(<<>>)
  <2>1. Len(Segments(<<>>)) = 1 /\ LastOf(Segments(<<>>)) = <<>>
    BY <1>0, SegmentsOf
  <2>2. CASE c = Slash
    <3>1. /\ Len(Segments(Append(s, c))) = Len(Segments(s)) + 1
          /\ Len(Segments(s)) \in Nat \ {0}
      BY <2>2, EndsOf
    <3>2. Len(Segments(Append(s, c))) # 1
      BY <3>1
    <3> QED
      BY <2>1, <3>2
  <2>3. CASE c # Slash
    BY <1>0, <2>1, <2>3, EndsOf
  <2> QED
    BY <2>2, <2>3
<1>2. \A w \in Seq(Int) : w = <<>> \/ \E s \in Seq(Int), c \in Int : w = Append(s, c)
  BY SequenceEmptyOrAppend
<1>3. <<>> \in T
  <2>1. ASSUME NEW w \in Seq(Int), Segments(<<>>) = Segments(w) PROVE <<>> = w
    BY <1>1, <1>2, <2>1, Zenon
  <2> QED
    BY <2>1
<1>4. ASSUME NEW s \in Seq(Int), s \in T, NEW c \in Int PROVE Append(s, c) \in T
  <2> SUFFICES ASSUME NEW w \in Seq(Int), Segments(Append(s, c)) = Segments(w)
               PROVE  Append(s, c) = w
    OBVIOUS
  <2>0. w # <<>>
    BY <1>1
  <2>1. PICK z \in Seq(Int), d \in Int : w = Append(z, d)
    BY <1>2, <2>0, Zenon
  <2>2. (c = Slash) <=> (d = Slash)
    <3>1. LastOf(Segments(Append(s, c))) = LastOf(Segments(Append(z, d)))
      BY <2>1
    <3>2. c = Slash => LastOf(Segments(Append(s, c))) = <<>>
      BY EndsOf
    <3>3. c # Slash => LastOf(Segments(Append(s, c))) # <<>>
      BY <1>0, EndsOf
    <3>4. d = Slash => LastOf(Segments(Append(z, d))) = <<>>
      BY EndsOf
    <3>5. d # Slash => LastOf(Segments(Append(z, d))) # <<>>
      BY <1>0, EndsOf
    <3> QED
      BY <3>1, <3>2, <3>3, <3>4, <3>5, Zenon
  <2> DEFINE a == Segments(s)
             b == Segments(z)
  <2>3. a \in SegmentLists /\ b \in SegmentLists
    BY SegmentsOf
  <2>4. Segments(s) = Segments(z) /\ c = d
    <3>1. CASE c = Slash
      <4>1. Append(a, <<>>) = Append(b, <<>>)
        BY <2>1, <2>2, <3>1, SegmentsOf
      <4> DEFINE X == Seq(NoSlash)
                 e == <<>>
      <4>2. a \in Seq(X) /\ b \in Seq(X) /\ e \in X
        BY <2>3 DEF SegmentLists
      <4>3. Append(a, e) = Append(b, e)
        BY <4>1
      <4> HIDE DEF X, e, a, b
      <4>4. a = b
        BY <4>2, <4>3, AppendInjective
      <4> QED
        BY <2>2, <3>1, <4>4 DEF a, b
    <3>2. CASE c # Slash
      <4>1. c \in NoSlash /\ d \in NoSlash
        BY <1>0, <2>2, <3>2
      <4>2. Longer(a, c) = Longer(b, d)
        BY <2>1, <4>1, SegmentsOf
      <4> HIDE DEF a, b
      <4>3. a = b /\ c = d
        BY <2>3, <4>1, <4>2, LongerTells
      <4> QED
        BY <4>3 DEF a, b
    <3> QED
      BY <3>1, <3>2
  <2>5. s = z
    BY <1>4, <2>4
  <2> QED
    BY <2>1, <2>4, <2>5
<1> HIDE DEF T
<1>5. Seq(Int) \subseteq T
  BY <1>3, <1>4, TextInduction
<1> QED
  BY <1>5 DEF T

(* A segment has the characters of its path, and no others. *)
LEMMA SegmentsOver ==
    ASSUME NEW C, C \subseteq Int, NEW x \in Seq(C)
    PROVE  \A k \in 1 .. Len(Segments(x)) : Segments(x)[k] \in Seq(C)
<1> DEFINE Over(z) == \A k \in 1 .. Len(Segments(z)) : Segments(z)[k] \in Seq(C)
           T == {z \in Seq(C) : Over(z)}
<1>1. <<>> \in T
  <2>1. Segments(<<>>) = <<<<>>>> /\ <<>> \in Seq(C)
    BY SegmentsOf
  <2>2. Len(<<<<>>>>) = 1 /\ <<<<>>>>[1] = <<>>
    OBVIOUS
  <2>3. Len(Segments(<<>>)) = 1 /\ Segments(<<>>)[1] = <<>>
    BY <2>1, <2>2
  <2>4. \A k \in 1 .. 1 : k = 1
    OBVIOUS
  <2> QED
    BY <2>1, <2>3, <2>4
<1>2. ASSUME NEW s \in Seq(C), s \in T, NEW c \in C PROVE Append(s, c) \in T
  <2> DEFINE a == Segments(s)
             m == Segments(Append(s, c))
  <2>1. s \in Seq(Int) /\ c \in Int /\ Append(s, c) \in Seq(C)
    <3>1. s \in Seq(Int)
      BY SeqMonotonic
    <3>2. Append(s, c) \in Seq(C)
      OBVIOUS
    <3> QED
      BY <3>1, <3>2
  <2>2. a \in SegmentLists
    BY <2>1, SegmentsOf
  <2>3. \A k \in 1 .. Len(a) : a[k] \in Seq(C)
    BY <1>2
  <2>4. Len(a) \in Nat \ {0}
    BY <2>1, EndsOf
  <2>5. \A k \in 1 .. Len(m) : m[k] \in Seq(C)
    <3>1. CASE c = Slash
      <4>1. m = Append(a, <<>>)
        BY <2>1, <3>1, SegmentsOf
      <4> DEFINE X == Seq(NoSlash)
                 e == <<>>
      <4>2. a \in Seq(X) /\ e \in X /\ e \in Seq(C)
        BY <2>2 DEF SegmentLists
      <4>3. m = Append(a, e)
        BY <4>1
      <4> HIDE DEF X, e, a, m
      <4>4. /\ Len(m) = Len(a) + 1 /\ m[Len(a) + 1] = e
            /\ \A k \in 1 .. Len(a) : m[k] = a[k]
        BY <4>2, <4>3, AppendProperties
      <4>5. \A k \in 1 .. Len(a) + 1 : k = Len(a) + 1 \/ k \in 1 .. Len(a)
        BY <2>4
      <4> QED
        BY <2>3, <4>2, <4>4, <4>5
    <3>2. CASE c # Slash
      <4>0. c \in NoSlash
        BY <2>1, <3>2 DEF NoSlash
      <4>1. m = Longer(a, c)
        BY <2>1, <4>0, SegmentsOf
      <4> HIDE DEF a, m
      <4>2. /\ Len(m) = Len(a) /\ m[Len(a)] = Append(a[Len(a)], c)
            /\ \A k \in 1 .. Len(a) - 1 : m[k] = a[k]
        BY <2>2, <4>0, <4>1, LongerIs
      <4>3. \A k \in 1 .. Len(a) : k = Len(a) \/ (k \in 1 .. Len(a) - 1 /\ k \in 1 .. Len(a))
        BY <2>4
      <4>4. Len(a) \in 1 .. Len(a)
        BY <2>4
      <4>5. \A z \in Seq(C) : Append(z, c) \in Seq(C)
        OBVIOUS
      <4>6. Append(a[Len(a)], c) \in Seq(C)
        BY <2>3, <4>4, <4>5
      <4> QED
        BY <2>3, <4>2, <4>3, <4>6, Zenon
    <3> QED
      BY <3>1, <3>2
  <2> QED
    BY <2>1, <2>5
<1>3. Seq(C) \subseteq T
  <2> HIDE DEF T
  <2> QED
    BY <1>1, <1>2, TextInduction
<1> QED
  BY <1>3

(* A path without a colon has no parameter. *)
NoColon == Int \ {PathColon}

LEMMA NoParameter ==
    ASSUME NEW x \in Seq(NoColon)
    PROVE  \A k \in 1 .. Len(Segments(x)) : ~IsParameter(Segments(x)[k])
<1>1. ASSUME NEW z \in Seq(NoColon) PROVE ~IsParameter(z)
  BY DEF IsParameter, NoColon
<1>2. NoColon \subseteq Int
  BY DEF NoColon
<1> QED
  BY <1>1, <1>2, SegmentsOver

LEMMA SegmentsDomain ==
    ASSUME NEW x \in Seq(Int)
    PROVE  /\ Segments(x) \in Seq(Seq(NoSlash))
           /\ DOMAIN Segments(x) = 1 .. Len(Segments(x)) /\ Len(Segments(x)) \in Nat \ {0}
<1> DEFINE X == Seq(NoSlash)
           segments == Segments(x)
<1>1. segments \in Seq(X) /\ segments # <<>>
  BY SegmentsOf DEF SegmentLists
<1> HIDE DEF X, segments
<1>2. DOMAIN segments = 1 .. Len(segments) /\ Len(segments) \in Nat \ {0}
  BY <1>1
<1> QED
  BY <1>1, <1>2 DEF X, segments

(* Such a pattern matches itself alone, and binds nothing. *)
LEMMA PlainMatches ==
    ASSUME NEW pattern \in Seq(NoColon), NEW path \in Seq(Int)
    PROVE  /\ Matches(pattern, path) <=> pattern = path
           /\ PathParameters(pattern, path) = {}
<1> DEFINE wanted == Segments(pattern)
           given == Segments(path)
           X == Seq(NoSlash)
<1>0. pattern \in Seq(Int)
  BY DEF NoColon
<1>1. wanted \in Seq(X) /\ DOMAIN wanted = 1 .. Len(wanted) /\ given \in Seq(X)
  BY <1>0, SegmentsDomain
<1>2. \A k \in DOMAIN wanted : ~IsParameter(wanted[k])
  BY <1>1, NoParameter
<1>3. PathParameters(pattern, path) = {}
  <2>1. {k \in DOMAIN wanted : IsParameter(wanted[k])} = {}
    BY <1>2
  <2> QED
    BY <2>1 DEF PathParameters
<1>4. Matches(pattern, path) <=> /\ Len(wanted) = Len(given)
                                 /\ \A k \in DOMAIN wanted : wanted[k] = given[k]
  BY <1>2 DEF Matches
<1>5. ASSUME Matches(pattern, path) PROVE pattern = path
  <2>1. wanted = given
    <3> HIDE DEF wanted, given, X
    <3> QED
      BY <1>1, <1>4, <1>5, SeqEqual
  <2> QED
    BY <1>0, <2>1, SegmentsTell
<1>6. ASSUME pattern = path PROVE Matches(pattern, path)
  BY <1>4, <1>6
<1> QED
  BY <1>3, <1>5, <1>6

LEMMA CharacterBetween ==
    ASSUME NEW C, NEW x \in Seq(C), NEW y \in Seq(C), NEW c \in C
    PROVE  x \o (<<c>> \o y) = Append(x, c) \o y
<1>1. <<c>> \in Seq(C) /\ Append(x, c) = x \o <<c>>
  BY AppendIsConcat
<1> DEFINE e == <<c>>
<1>2. e \in Seq(C)
  BY <1>1
<1> HIDE DEF e
<1>3. x \o (e \o y) = (x \o e) \o y
  BY <1>2, ConcatAssociative
<1> QED
  BY <1>1, <1>3 DEF e

(* A text without a slash, put in between, is a segment of its own. *)
Around(before, text, behind) == (Append(before, Slash) \o text) \o (<<Slash>> \o behind)

LEMMA SegmentsAround ==
    ASSUME NEW before \in Seq(Int), NEW behind \in Seq(Int), NEW text \in Seq(NoSlash)
    PROVE  /\ Around(before, text, behind) \in Seq(Int)
           /\ Segments(Around(before, text, behind)) =
                (Segments(before) \o <<text>>) \o Segments(behind)
<1> DEFINE x == Append(before, Slash) \o text
<1>1. /\ Slash \in Int /\ Append(before, Slash) \in Seq(Int) /\ text \in Seq(Int)
      /\ <<Slash>> \in Seq(Int)
  BY DEF Slash, NoSlash
<1>2. x \in Seq(Int)
  BY <1>1
<1>3. Segments(x) = Segments(before) \o <<text>>
  BY <1>1, SegmentsOfParts, OneSegment
<1>4. Around(before, text, behind) = x \o (<<Slash>> \o behind)
  BY DEF Around
<1> HIDE DEF x
<1>5. x \o (<<Slash>> \o behind) = Append(x, Slash) \o behind
  BY <1>1, <1>2, CharacterBetween
<1>6. Segments(Append(x, Slash) \o behind) = Segments(x) \o Segments(behind)
  BY <1>2, SegmentsOfParts
<1>7. x \o (<<Slash>> \o behind) \in Seq(Int)
  BY <1>1, <1>2
<1> QED
  BY <1>3, <1>4, <1>5, <1>6, <1>7

(* Where a list is another but for one place. *)
LEMMA BetweenLists ==
    ASSUME NEW X, NEW a \in Seq(X), NEW b \in Seq(X), NEW t \in X
    PROVE  LET all == (a \o <<t>>) \o b IN
           /\ all \in Seq(X) /\ Len(all) = Len(a) + 1 + Len(b)
           /\ Len(a) \in Nat /\ Len(b) \in Nat
           /\ DOMAIN all = 1 .. Len(a) + 1 + Len(b)
           /\ \A k \in 1 .. Len(a) : all[k] = a[k]
           /\ all[Len(a) + 1] = t
           /\ \A k \in 1 .. Len(b) : all[Len(a) + 1 + k] = b[k]
<1> DEFINE at == a \o <<t>>
           all == at \o b
<1>1. /\ Len(a) \in Nat /\ Len(b) \in Nat /\ at \in Seq(X) /\ Len(at) = Len(a) + 1
      /\ \A k \in 1 .. Len(a) : at[k] = a[k]
      /\ at[Len(a) + 1] = t
  OBVIOUS
<1> HIDE DEF at
<1>2. /\ all \in Seq(X) /\ Len(all) = Len(at) + Len(b) /\ DOMAIN all = 1 .. Len(at) + Len(b)
      /\ \A k \in 1 .. Len(at) : all[k] = at[k]
      /\ \A k \in 1 .. Len(b) : all[Len(at) + k] = b[k]
  BY <1>1
<1> HIDE DEF all
<1>3. /\ \A k \in 1 .. Len(a) : k \in 1 .. Len(at)
      /\ Len(a) + 1 \in 1 .. Len(at)
  BY <1>1
<1>4. /\ all \in Seq(X) /\ Len(all) = Len(a) + 1 + Len(b)
      /\ DOMAIN all = 1 .. Len(a) + 1 + Len(b)
      /\ \A k \in 1 .. Len(a) : all[k] = a[k]
      /\ all[Len(a) + 1] = t
      /\ \A k \in 1 .. Len(b) : all[Len(a) + 1 + k] = b[k]
  BY <1>1, <1>2, <1>3
<1> QED
  BY <1>1, <1>4 DEF all, at

LEMMA PlacesOf ==
    ASSUME NEW n \in Nat, NEW m \in Nat, NEW k \in 1 .. n + 1 + m
    PROVE  \/ k \in 1 .. n
           \/ k = n + 1
           \/ \E j \in 1 .. m : k = n + 1 + j
<1>1. CASE k > n + 1
  <2>1. k - (n + 1) \in 1 .. m /\ k = n + 1 + (k - (n + 1))
    BY <1>1
  <2> QED
    BY <2>1
<1> QED
  BY <1>1

(* A pattern with one parameter matches what has any one segment there,    *)
(* and binds that segment.                                                 *)
LEMMA ParameterMatches ==
    ASSUME NEW before \in Seq(NoColon), NEW behind \in Seq(NoColon),
           NEW name \in Seq(NoSlash),
           NEW path \in Seq(Int), NEW pattern,
           pattern = Around(before, <<PathColon>> \o name, behind)
    PROVE  /\ Matches(pattern, path) =>
                 \E text \in Seq(NoSlash) : path = Around(before, text, behind)
           /\ \A text \in Seq(NoSlash) : path = Around(before, text, behind) =>
                 /\ Matches(pattern, path)
                 /\ PathParameters(pattern, path) = {[name |-> name, value |-> text]}
<1> DEFINE parameter == <<PathColon>> \o name
           wanted == Segments(pattern)
           given == Segments(path)
           a == Segments(before)
           b == Segments(behind)
           n == Len(a)
           m == Len(b)
           X == Seq(NoSlash)
<1>0. before \in Seq(Int) /\ behind \in Seq(Int) /\ PathColon \in NoSlash
  BY DEF NoColon, NoSlash, PathColon, Slash
<1>1. /\ a \in Seq(X) /\ b \in Seq(X) /\ given \in Seq(X)
      /\ DOMAIN given = 1 .. Len(given) /\ parameter \in X
  BY <1>0, SegmentsDomain
<1>2. IsParameter(parameter)
  <2>1. parameter[1] = PathColon /\ parameter # <<>>
    BY <1>0
  <2> QED
    BY <2>1 DEF IsParameter
<1>3. wanted = (a \o <<parameter>>) \o b
  <2>1. pattern = Around(before, parameter, behind)
    OBVIOUS
  <2>2. parameter \in Seq(NoSlash) /\ before \in Seq(Int) /\ behind \in Seq(Int)
    BY <1>0, <1>1
  <2> HIDE DEF parameter, X
  <2>3. Segments(Around(before, parameter, behind)) =
          (Segments(before) \o <<parameter>>) \o Segments(behind)
    BY <2>2, SegmentsAround
  <2> QED
    BY <2>1, <2>3
<1>4. (\A k \in 1 .. n : ~IsParameter(a[k])) /\ (\A k \in 1 .. m : ~IsParameter(b[k]))
  BY NoParameter
<1>5. Tail(parameter) = name
  OBVIOUS
<1>6. Matches(pattern, path) <=>
        /\ Len(wanted) = Len(given)
        /\ \A k \in DOMAIN wanted : IsParameter(wanted[k]) \/ wanted[k] = given[k]
  BY DEF Matches
<1>7. PathParameters(pattern, path) =
        {[name |-> Tail(wanted[k]), value |-> given[k]] :
            k \in {k \in DOMAIN wanted : IsParameter(wanted[k])}}
  BY DEF PathParameters
<1> HIDE DEF a, b, wanted, given, parameter, X
<1>8. /\ Len(wanted) = n + 1 + m /\ n \in Nat /\ m \in Nat
      /\ DOMAIN wanted = 1 .. n + 1 + m
      /\ \A k \in 1 .. n : wanted[k] = a[k]
      /\ wanted[n + 1] = parameter
      /\ \A k \in 1 .. m : wanted[n + 1 + k] = b[k]
  BY <1>1, <1>3, BetweenLists
<1>9. /\ n + 1 \in DOMAIN wanted
      /\ \A k \in 1 .. n : k \in DOMAIN wanted /\ k # n + 1
      /\ \A k \in 1 .. m : n + 1 + k \in DOMAIN wanted /\ n + 1 + k # n + 1
  BY <1>8
<1>10. \A k \in DOMAIN wanted : IsParameter(wanted[k]) <=> k = n + 1
  <2> SUFFICES ASSUME NEW k \in 1 .. n + 1 + m PROVE IsParameter(wanted[k]) <=> k = n + 1
    BY <1>8
  <2>1. k \in 1 .. n \/ k = n + 1 \/ \E j \in 1 .. m : k = n + 1 + j
    BY <1>8, PlacesOf
  <2>2. CASE k \in 1 .. n
    BY <1>4, <1>8, <1>9, <2>2
  <2>3. CASE k = n + 1
    BY <1>2, <1>8, <2>3
  <2>4. CASE \E j \in 1 .. m : k = n + 1 + j
    BY <1>4, <1>8, <1>9, <2>4
  <2> QED
    BY <2>1, <2>2, <2>3, <2>4
<1>11. ASSUME Matches(pattern, path)
       PROVE  \E text \in Seq(NoSlash) : path = Around(before, text, behind)
  <2> DEFINE text == given[n + 1]
             all == (a \o <<text>>) \o b
  <2>1. Len(given) = n + 1 + m
    BY <1>6, <1>8, <1>11
  <2>2. text \in X
    BY <1>1, <1>8, <2>1
  <2>3. /\ \A k \in 1 .. n : given[k] = a[k]
        /\ \A k \in 1 .. m : given[n + 1 + k] = b[k]
    BY <1>4, <1>6, <1>8, <1>9, <1>11
  <2>4. /\ all \in Seq(X) /\ Len(all) = n + 1 + m
        /\ \A k \in 1 .. n : all[k] = a[k]
        /\ all[n + 1] = text
        /\ \A k \in 1 .. m : all[n + 1 + k] = b[k]
    <3> HIDE DEF text
    <3> QED
      BY <1>1, <2>2, BetweenLists
  <2> HIDE DEF all
  <2>5. \A k \in 1 .. n + 1 + m : given[k] = all[k]
    <3> SUFFICES ASSUME NEW k \in 1 .. n + 1 + m PROVE given[k] = all[k]
      OBVIOUS
    <3>1. k \in 1 .. n \/ k = n + 1 \/ \E j \in 1 .. m : k = n + 1 + j
      BY <1>8, PlacesOf
    <3> QED
      BY <2>3, <2>4, <3>1
  <2>6. given = all
    BY <1>1, <2>1, <2>4, <2>5, SeqEqual
  <2>7. text \in Seq(NoSlash)
    BY <2>2 DEF X
  <2> HIDE DEF text
  <2>8. /\ Around(before, text, behind) \in Seq(Int)
        /\ Segments(Around(before, text, behind)) = all
    BY <1>0, <2>7, SegmentsAround DEF all, a, b
  <2>9. Segments(path) = Segments(Around(before, text, behind))
    BY <2>6, <2>8 DEF given
  <2>10. path = Around(before, text, behind)
    BY <2>8, <2>9, SegmentsTell
  <2> QED
    BY <2>7, <2>10
<1>12. ASSUME NEW text \in Seq(NoSlash), path = Around(before, text, behind)
       PROVE  /\ Matches(pattern, path)
              /\ PathParameters(pattern, path) = {[name |-> name, value |-> text]}
  <2> DEFINE all == (a \o <<text>>) \o b
  <2>1. given = all
    BY <1>0, <1>12, SegmentsAround DEF given, a, b
  <2>2. text \in X
    BY DEF X
  <2>3. /\ Len(all) = n + 1 + m
        /\ \A k \in 1 .. n : all[k] = a[k]
        /\ all[n + 1] = text
        /\ \A k \in 1 .. m : all[n + 1 + k] = b[k]
    BY <1>1, <2>2, BetweenLists
  <2> HIDE DEF all
  <2>4. \A k \in DOMAIN wanted : IsParameter(wanted[k]) \/ wanted[k] = given[k]
    <3> SUFFICES ASSUME NEW k \in 1 .. n + 1 + m, k # n + 1 PROVE wanted[k] = given[k]
      BY <1>8, <1>10
    <3>1. k \in 1 .. n \/ k = n + 1 \/ \E j \in 1 .. m : k = n + 1 + j
      BY <1>8, PlacesOf
    <3> QED
      BY <1>8, <2>1, <2>3, <3>1
  <2>5. Matches(pattern, path)
    BY <1>6, <1>8, <2>1, <2>3, <2>4
  <2>6. {k \in DOMAIN wanted : IsParameter(wanted[k])} = {n + 1}
    BY <1>9, <1>10
  <2>7. {[name |-> Tail(wanted[k]), value |-> given[k]] : k \in {n + 1}} =
          {[name |-> name, value |-> text]}
    BY <1>5, <1>8, <2>1, <2>3
  <2> QED
    BY <1>7, <2>5, <2>6, <2>7
<1> QED
  BY <1>11, <1>12

(* A text, cut at two of its characters. *)
LEMMA CutTwice ==
    ASSUME NEW C, NEW d \in Seq(C), NEW open \in 1 .. Len(d), NEW close \in 1 .. Len(d),
           1 < open, open < close, close < Len(d)
    PROVE  /\ d = ((SubSeq(d, 1, open - 1) \o <<d[open]>>)
                     \o (SubSeq(d, open + 1, close - 1) \o <<d[close]>>))
                  \o SubSeq(d, close + 1, Len(d))
           /\ SubSeq(d, 1, open - 1) = Append(SubSeq(d, 1, open - 2), d[open - 1])
           /\ SubSeq(d, close + 1, Len(d)) = <<d[close + 1]>> \o SubSeq(d, close + 2, Len(d))
<1>0. Len(d) \in Nat /\ \A i \in 1 .. Len(d) : d[i] \in C
  OBVIOUS
<1>1. SubSeq(d, 1, open) = SubSeq(d, 1, open - 1) \o <<d[open]>>
  <2>1. 1 \in 1 .. Len(d) /\ open \in 1 .. Len(d)
    BY <1>0
  <2> QED
    BY <2>1, SubSeqRecursiveSecond
<1>2. SubSeq(d, open + 1, close) = SubSeq(d, open + 1, close - 1) \o <<d[close]>>
  <2>1. open + 1 \in 1 .. Len(d) /\ close \in open + 1 .. Len(d)
    BY <1>0
  <2> QED
    BY <2>1, SubSeqRecursiveSecond
<1>3. SubSeq(d, 1, open) \o SubSeq(d, open + 1, close) = SubSeq(d, 1, close)
  <2>1. 1 \in 1 .. Len(d) + 1 /\ open \in 1 - 1 .. Len(d) /\ close \in open .. Len(d)
    BY <1>0
  <2> QED
    BY <2>1, ConcatAdjacentSubSeq
<1>4. SubSeq(d, 1, close) \o SubSeq(d, close + 1, Len(d)) = SubSeq(d, 1, Len(d))
  <2>1. 1 \in 1 .. Len(d) + 1 /\ close \in 1 - 1 .. Len(d) /\ Len(d) \in close .. Len(d)
    BY <1>0
  <2> QED
    BY <2>1, ConcatAdjacentSubSeq
<1>5. SubSeq(d, 1, Len(d)) = d
  BY SubSeqFull
<1>6. SubSeq(d, 1, open - 1) = Append(SubSeq(d, 1, open - 2), d[open - 1])
  <2>1. 1 \in 1 .. Len(d) /\ open - 1 \in 1 .. Len(d) /\ (open - 1) - 1 = open - 2
    BY <1>0
  <2>2. SubSeq(d, 1, open - 1) = SubSeq(d, 1, open - 2) \o <<d[open - 1]>>
    BY <2>1, SubSeqRecursiveSecond
  <2>3. \A i \in 1 .. open - 2 : i \in 1 .. Len(d)
    BY <1>0
  <2>4. SubSeq(d, 1, open - 2) \in Seq(C) /\ d[open - 1] \in C
    BY <1>0, <2>1, <2>3, SubSeqProperties
  <2>5. Append(SubSeq(d, 1, open - 2), d[open - 1]) = SubSeq(d, 1, open - 2) \o <<d[open - 1]>>
    BY <2>4, AppendIsConcat
  <2> QED
    BY <2>2, <2>5
<1>7. SubSeq(d, close + 1, Len(d)) = <<d[close + 1]>> \o SubSeq(d, close + 2, Len(d))
  <2>1. close + 1 \in 1 .. Len(d) /\ Len(d) \in close + 1 .. Len(d) /\ (close + 1) + 1 = close + 2
    BY <1>0
  <2> QED
    BY <2>1, SubSeqRecursiveFirst
<1> QED
  BY <1>1, <1>2, <1>3, <1>4, <1>5, <1>6, <1>7

(* A part of a text, whose characters are of a set. *)
LEMMA PartOver ==
    ASSUME NEW d, NEW i \in Int, NEW j \in Int, NEW C, \A k \in i .. j : d[k] \in C
    PROVE  SubSeq(d, i, j) \in Seq(C)
  BY SubSeqProperties

(* SelectInSeq() finds the one position there is. *)
LEMMA OnlyPosition ==
    ASSUME NEW i \in Int PROVE Min({i}) = i
  BY DEF Min

LEMMA Grouped == \A x, y, z \in Seq(Int) : (x \o y) \o z = x \o (y \o z)
  BY ConcatAssociative

Plain == Int \ {OpenBrace, CloseBrace}

LEMMA PatternParts ==
    ASSUME NEW b \in Seq(Plain), NEW u \in Seq(Plain), NEW e \in Seq(Plain)
    PROVE  ToLibraryPattern(((b \o <<OpenBrace>>) \o (u \o <<CloseBrace>>)) \o e)
             = (b \o (<<PathColon>> \o u)) \o e
<1> DEFINE o == <<OpenBrace>>
           c == <<CloseBrace>>
           p == <<PathColon>>
<1>1. ToLibraryPattern(b) = b /\ ToLibraryPattern(u) = u /\ ToLibraryPattern(e) = e
  BY PatternOfPlain DEF Plain
<1>2. /\ b \in Seq(Int) /\ u \in Seq(Int) /\ e \in Seq(Int)
      /\ OpenBrace \in Int /\ CloseBrace \in Int /\ CloseBrace # OpenBrace
      /\ o \in Seq(Int) /\ c \in Seq(Int) /\ p \in Seq(Int)
  BY DEF Plain, OpenBrace, CloseBrace, PathColon
<1>3. o = Append(<<>>, OpenBrace) /\ c = Append(<<>>, CloseBrace) /\ p = Append(<<>>, PathColon)
      /\ <<>> \in Seq(Int)
  OBVIOUS
<1>4. ToLibraryPattern(o) = p /\ ToLibraryPattern(c) = <<>>
  BY <1>2, <1>3, PatternOf
<1> HIDE DEF o, c, p
<1>5. b \o o \in Seq(Int) /\ u \o c \in Seq(Int)
  BY <1>2
<1>6. (b \o o) \o (u \o c) \in Seq(Int)
  BY <1>5
<1>7. ToLibraryPattern(b \o o) = b \o p
  BY <1>1, <1>2, <1>4, PatternOfParts
<1>8. ToLibraryPattern(u \o c) = u
  <2>1. ToLibraryPattern(u \o c) = u \o <<>>
    <3>1. ToLibraryPattern(u \o c) = ToLibraryPattern(u) \o ToLibraryPattern(c)
      BY <1>2, PatternOfParts
    <3> QED
      BY <1>1, <1>4, <3>1, Zenon
  <2> QED
    BY <1>2, <2>1, ConcatEmptySeq
<1>9. ToLibraryPattern((b \o o) \o (u \o c)) = (b \o p) \o u
  BY <1>5, <1>7, <1>8, PatternOfParts
<1>10. ToLibraryPattern(((b \o o) \o (u \o c)) \o e) = ((b \o p) \o u) \o e
  BY <1>1, <1>2, <1>6, <1>9, PatternOfParts
<1>11. (b \o p) \o u = b \o (p \o u)
  <2>1. b \in Seq(Int) /\ p \in Seq(Int) /\ u \in Seq(Int)
    BY <1>2
  <2> QED
    BY <2>1, Grouped, Zenon
<1> QED
  BY <1>10, <1>11 DEF o, c, p

(* The path of the documents route, and the pattern it becomes. *)
UpToBrace(path) ==
    SubSeq(path, 1, SelectInSeq(path, LAMBDA ch : ch = OpenBrace) - 1)
FromBrace(path) ==
    SubSeq(path, SelectInSeq(path, LAMBDA ch : ch = CloseBrace) + 1, Len(path))

LEMMA DocumentsRoute ==
    \E before, behind \in Seq(NoColon) :
       /\ UidParameter \in Seq(NoSlash)
       /\ UpToBrace(RoutePaths["documents"]) = Append(before, Slash)
       /\ FromBrace(RoutePaths["documents"]) = <<Slash>> \o behind
       /\ ToLibraryPattern(RoutePaths["documents"]) =
            Around(before, <<PathColon>> \o UidParameter, behind)
<1> DEFINE d == RoutePaths["documents"]
           C == NoColon \ {OpenBrace, CloseBrace}
<1>0. d \in Seq(Int) /\ DOMAIN d = 1 .. Len(d) /\ Len(d) \in Nat
  BY RoutingAssumption
<1>1. PICK open \in 1 .. Len(d), close \in 1 .. Len(d) :
          /\ 1 < open /\ open < close /\ close < Len(d)
          /\ d[open - 1] = Slash /\ d[open] = OpenBrace
          /\ d[close] = CloseBrace /\ d[close + 1] = Slash
          /\ UidParameter = SubSeq(d, open + 1, close - 1)
          /\ \A i \in open .. close : d[i] # Slash
          /\ \A i \in 1 .. Len(d) \ {open, close} :
                d[i] \notin {OpenBrace, CloseBrace, PathColon}
  BY <1>0, RoutingAssumption
<1> HIDE DEF d
<1>2. OpenBrace # CloseBrace
  BY DEF OpenBrace, CloseBrace
<1>3. UpToBrace(d) = SubSeq(d, 1, open - 1)
  <2>1. {i \in 1 .. Len(d) : d[i] = OpenBrace} = {open}
    BY <1>1, <1>2
  <2>2. SelectInSeq(d, LAMBDA ch : ch = OpenBrace) = open
    BY <2>1, OnlyPosition DEF SelectInSeq
  <2> QED
    BY <2>2 DEF UpToBrace
<1>4. FromBrace(d) = SubSeq(d, close + 1, Len(d))
  <2>1. {i \in 1 .. Len(d) : d[i] = CloseBrace} = {close}
    BY <1>1, <1>2
  <2>2. SelectInSeq(d, LAMBDA ch : ch = CloseBrace) = close
    BY <2>1, OnlyPosition DEF SelectInSeq
  <2> QED
    BY <2>2 DEF FromBrace
<1> DEFINE before == SubSeq(d, 1, open - 2)
           behind == SubSeq(d, close + 2, Len(d))
           b == SubSeq(d, 1, open - 1)
           e == SubSeq(d, close + 1, Len(d))
<1>5. \A i \in 1 .. Len(d) \ {open, close} : d[i] \in C
  BY <1>0, <1>1 DEF NoColon
<1>6. before \in Seq(C) /\ behind \in Seq(C)
  <2>1. \A i \in 1 .. open - 2 : i \in 1 .. Len(d) \ {open, close}
    BY <1>0, <1>1
  <2>2. \A i \in close + 2 .. Len(d) : i \in 1 .. Len(d) \ {open, close}
    BY <1>0, <1>1
  <2>3. open - 2 \in Int /\ close + 2 \in Int /\ Len(d) \in Int /\ 1 \in Int
    BY <1>0
  <2> HIDE DEF C
  <2> QED
    BY <1>5, <2>1, <2>2, <2>3, PartOver
<1>7. b \in Seq(C) /\ e \in Seq(C) /\ UidParameter \in Seq(C)
  <2>1. \A i \in 1 .. open - 1 : i \in 1 .. Len(d) \ {open, close}
    BY <1>0, <1>1
  <2>2. \A i \in close + 1 .. Len(d) : i \in 1 .. Len(d) \ {open, close}
    BY <1>0, <1>1
  <2>3. \A i \in open + 1 .. close - 1 : i \in 1 .. Len(d) \ {open, close}
    BY <1>0, <1>1
  <2>4. /\ open - 1 \in Int /\ close + 1 \in Int /\ Len(d) \in Int /\ 1 \in Int
        /\ open + 1 \in Int /\ close - 1 \in Int
    BY <1>0
  <2> HIDE DEF C
  <2> QED
    BY <1>1, <1>5, <2>1, <2>2, <2>3, <2>4, PartOver
<1>8. UidParameter \in Seq(NoSlash)
  <2>1. \A i \in open + 1 .. close - 1 : d[i] \in NoSlash
    BY <1>0, <1>1 DEF NoSlash
  <2>2. open + 1 \in Int /\ close - 1 \in Int
    BY <1>0
  <2> QED
    BY <1>1, <2>1, <2>2, PartOver
<1>9. before \in Seq(NoColon) /\ behind \in Seq(NoColon)
  BY <1>6, SeqMonotonic
<1>10. b \in Seq(Plain) /\ e \in Seq(Plain) /\ UidParameter \in Seq(Plain)
  <2>1. C \subseteq Plain
    BY DEF Plain, NoColon
  <2> HIDE DEF C, b, e
  <2> QED
    BY <1>7, <2>1, SeqMonotonic
<1>11. /\ d = ((b \o <<OpenBrace>>) \o (UidParameter \o <<CloseBrace>>)) \o e
       /\ b = Append(before, Slash)
       /\ e = <<Slash>> \o behind
  <2> DEFINE Z == Int
  <2>1. d \in Seq(Z)
    BY <1>0
  <2> HIDE DEF Z
  <2>2. /\ d = ((SubSeq(d, 1, open - 1) \o <<d[open]>>)
                 \o (SubSeq(d, open + 1, close - 1) \o <<d[close]>>))
              \o SubSeq(d, close + 1, Len(d))
        /\ SubSeq(d, 1, open - 1) = Append(SubSeq(d, 1, open - 2), d[open - 1])
        /\ SubSeq(d, close + 1, Len(d)) = <<d[close + 1]>> \o SubSeq(d, close + 2, Len(d))
    BY <1>1, <2>1, CutTwice
  <2> QED
    BY <1>1, <2>2, Zenon
<1> HIDE DEF b, e, before, behind, C
<1>12. ToLibraryPattern(d) = (b \o (<<PathColon>> \o UidParameter)) \o e
  BY <1>10, <1>11, PatternParts
<1>13. ToLibraryPattern(d) = Around(before, <<PathColon>> \o UidParameter, behind)
  BY <1>11, <1>12 DEF Around
<1>14. UpToBrace(d) = Append(before, Slash) /\ FromBrace(d) = <<Slash>> \o behind
  BY <1>3, <1>4, <1>11 DEF b, e
<1> QED
  BY <1>8, <1>9, <1>13, <1>14 DEF d

LEMMA MiddlePart ==
    ASSUME NEW C, NEW a \in Seq(C), NEW t \in Seq(C), NEW b \in Seq(C)
    PROVE  t \in SubSeqs((a \o t) \o b)
<1> DEFINE all == (a \o t) \o b
           i == Len(a)
           j == Len(a) + Len(t)
<1>1. /\ all \in Seq(C) /\ Len(all) = Len(a) + Len(t) + Len(b)
      /\ Len(a) \in Nat /\ Len(t) \in Nat /\ Len(b) \in Nat
      /\ \A k \in 1 .. Len(t) : all[Len(a) + k] = t[k]
  OBVIOUS
<1>2. i \in 0 .. Len(all) /\ j \in 0 .. Len(all)
  BY <1>1
<1>3. SubSeq(all, i + 1, j) = t
  <2> HIDE DEF all
  <2>1. /\ \A k \in i + 1 .. j : k \in 1 .. Len(all)
        /\ i + 1 \in Int /\ j \in Int /\ j - (i + 1) + 1 = Len(t)
        /\ i + 1 <= j <=> Len(t) # 0
    BY <1>1
  <2>2. \A k \in i + 1 .. j : all[k] \in C
    BY <1>1, <2>1, ElementOfSeq
  <2>3. /\ SubSeq(all, i + 1, j) \in Seq(C)
        /\ Len(SubSeq(all, i + 1, j)) = IF i + 1 <= j THEN j - (i + 1) + 1 ELSE 0
        /\ \A k \in 1 .. j - (i + 1) + 1 : SubSeq(all, i + 1, j)[k] = all[(i + 1) + k - 1]
    <3> HIDE DEF i, j
    <3> QED
      BY <2>1, <2>2, SubSeqProperties
  <2> DEFINE part == SubSeq(all, i + 1, j)
  <2>4. part \in Seq(C) /\ Len(part) = Len(t)
    BY <2>1, <2>3
  <2>5. \A k \in 1 .. Len(t) : (i + 1) + k - 1 = i + k
    BY <1>1
  <2>6. \A k \in 1 .. Len(t) : part[k] = t[k]
    BY <1>1, <2>1, <2>3, <2>5
  <2> HIDE DEF part
  <2>7. part = t
    BY <2>4, <2>6, SeqEqual
  <2> QED
    BY <2>7 DEF part
<1> HIDE DEF all, i, j
<1>4. t \in SubSeqs(all)
  BY <1>2, <1>3 DEF SubSeqs
<1> QED
  BY <1>4 DEF all

(* The texts PathsNameTheirIndex finds between the parts of the route are  *)
(* the segments that may stand there.                                      *)
LEMMA NamedAre ==
    ASSUME NEW path \in Seq(Int), NEW before \in Seq(Int), NEW behind \in Seq(Int)
    PROVE  {text \in SubSeqs(path) :
              /\ Slash \notin Range(text)
              /\ path = Append(before, Slash) \o text \o (<<Slash>> \o behind)}
           = {text \in Seq(NoSlash) : path = Around(before, text, behind)}
<1>0. Slash \in Int /\ Append(before, Slash) \in Seq(Int) /\ <<Slash>> \o behind \in Seq(Int)
  BY DEF Slash
<1>1. ASSUME NEW text \in Seq(NoSlash), path = Around(before, text, behind)
      PROVE  text \in SubSeqs(path) /\ Slash \notin Range(text)
  <2>1. Slash \notin Range(text)
    BY DEF Range, NoSlash
  <2>2. text \in Seq(Int)
    BY DEF NoSlash
  <2> DEFINE a == Append(before, Slash)
             b == <<Slash>> \o behind
             C == Int
  <2>3. a \in Seq(C) /\ b \in Seq(C) /\ text \in Seq(C)
    BY <1>0, <2>2
  <2>4. path = (a \o text) \o b
    BY <1>1 DEF Around
  <2> HIDE DEF a, b, C
  <2>5. text \in SubSeqs((a \o text) \o b)
    BY <2>3, MiddlePart
  <2> QED
    BY <2>1, <2>4, <2>5
<1>2. ASSUME NEW text \in SubSeqs(path), Slash \notin Range(text) PROVE text \in Seq(NoSlash)
  <2>1. PICK i \in 0 .. Len(path), j \in 0 .. Len(path) : text = SubSeq(path, i + 1, j)
    BY <1>2 DEF SubSeqs
  <2>2. text \in Seq(Int)
    <3>1. \A k \in i + 1 .. j : path[k] \in Int
      OBVIOUS
    <3>2. i + 1 \in Int /\ j \in Int
      OBVIOUS
    <3> QED
      BY <2>1, <3>1, <3>2, PartOver
  <2>3. \A k \in DOMAIN text : text[k] # Slash
    BY <1>2 DEF Range
  <2> QED
    BY <2>2, <2>3 DEF NoSlash
<1>3. \A text : Around(before, text, behind)
                  = Append(before, Slash) \o text \o (<<Slash>> \o behind)
  BY DEF Around
<1> QED
  BY <1>1, <1>2, <1>3, Zenon

(* What the handlers of a path are, all routes together. *)
Reached(route, path) ==
    [route |-> route,
     uid |-> {uid \in {PathParameter(PathParameters(ToLibraryPattern(RoutePaths[route]), path),
                                     UidParameter)} : IsUid(uid)}]

LEMMA PlainRoute ==
    ASSUME NEW path \in Seq(Int), NEW route \in DOMAIN RoutePaths \ {"documents"}
    PROVE  /\ Matches(ToLibraryPattern(RoutePaths[route]), path) <=> RoutePaths[route] = path
           /\ Reached(route, path) = [route |-> route, uid |-> {}]
<1> DEFINE r == RoutePaths[route]
<1>1. r \in Seq(Int) /\ \A i \in DOMAIN r : r[i] \notin {OpenBrace, CloseBrace, PathColon}
  BY RoutingAssumption
<1> HIDE DEF r
<1>2. r \in Seq(NoColon) /\ r \in Seq(Int \ {OpenBrace, CloseBrace})
  BY <1>1 DEF NoColon
<1>3. ToLibraryPattern(r) = r
  BY <1>2, PatternOfPlain
<1>4. (Matches(r, path) <=> r = path) /\ PathParameters(r, path) = {}
  BY <1>2, PlainMatches
<1>5. PathParameter({}, UidParameter) = <<>>
  BY DEF PathParameter
<1>6. {uid \in {<<>>} : IsUid(uid)} = {}
  BY DEF IsUid
<1> QED
  BY <1>3, <1>4, <1>5, <1>6 DEF Reached, r

LEMMA BoundUid ==
    ASSUME NEW text, NEW name
    PROVE  PathParameter({[name |-> name, value |-> text]}, name) = text
<1> DEFINE bound == [name |-> name, value |-> text]
<1>1. {parameter \in {bound} : parameter.name = name} = {bound}
  OBVIOUS
<1>2. (CHOOSE parameter \in {bound} : TRUE) = bound
  OBVIOUS
<1> QED
  BY <1>1, <1>2 DEF PathParameter

LEMMA HandlersAre ==
    ASSUME NEW path \in Seq(Int)
    PROVE  LET documents == RoutePaths["documents"]
               named == {text \in SubSeqs(path) :
                           /\ Slash \notin Range(text)
                           /\ path = UpToBrace(documents) \o text \o FromBrace(documents)}
           IN  HandlersOf(path) =
                 {[route |-> route, uid |-> {}] : route \in
                    {route \in DOMAIN RoutePaths \ {"documents"} : RoutePaths[route] = path}}
                 \cup {[route |-> "documents", uid |-> {uid \in {text} : IsUid(uid)}] :
                         text \in named}
<1> DEFINE documents == RoutePaths["documents"]
           named == {text \in SubSeqs(path) :
                       /\ Slash \notin Range(text)
                       /\ path = UpToBrace(documents) \o text \o FromBrace(documents)}
           Hit(route) == Matches(ToLibraryPattern(RoutePaths[route]), path)
           Uid(text) == [route |-> "documents", uid |-> {uid \in {text} : IsUid(uid)}]
           others == {[route |-> route, uid |-> {}] : route \in
                        {route \in DOMAIN RoutePaths \ {"documents"} : RoutePaths[route] = path}}
<1>1. PICK before \in Seq(NoColon), behind \in Seq(NoColon) :
         /\ UidParameter \in Seq(NoSlash)
         /\ UpToBrace(documents) = Append(before, Slash)
         /\ FromBrace(documents) = <<Slash>> \o behind
         /\ ToLibraryPattern(documents) =
              Around(before, <<PathColon>> \o UidParameter, behind)
  BY DocumentsRoute
<1>2. named = {text \in Seq(NoSlash) : path = Around(before, text, behind)}
  <2>1. before \in Seq(Int) /\ behind \in Seq(Int)
    BY DEF NoColon
  <2>2. named = {text \in SubSeqs(path) :
                   /\ Slash \notin Range(text)
                   /\ path = Append(before, Slash) \o text \o (<<Slash>> \o behind)}
    BY <1>1
  <2> HIDE DEF named
  <2> QED
    BY <2>1, <2>2, NamedAre
<1> DEFINE parameter == <<PathColon>> \o UidParameter
           pattern == Around(before, parameter, behind)
<1>3. /\ Matches(pattern, path) =>
            \E text \in Seq(NoSlash) : path = Around(before, text, behind)
      /\ \A text \in Seq(NoSlash) : path = Around(before, text, behind) =>
            /\ Matches(pattern, path)
            /\ PathParameters(pattern, path) = {[name |-> UidParameter, value |-> text]}
  <2>1. before \in Seq(NoColon) /\ behind \in Seq(NoColon) /\ UidParameter \in Seq(NoSlash)
    BY <1>1
  <2> HIDE DEF pattern
  <2>2. pattern = Around(before, <<PathColon>> \o UidParameter, behind)
    BY DEF pattern, parameter
  <2> QED
    BY <2>1, <2>2, ParameterMatches, SMTT(60)
<1>4. ToLibraryPattern(documents) = pattern
  BY <1>1
<1> HIDE DEF parameter, pattern
<1>5. Hit("documents") => \E text : text \in named
  BY <1>3, <1>4, <1>2
<1>6. ASSUME NEW text \in named PROVE Hit("documents") /\ Reached("documents", path) = Uid(text)
  <2>1. text \in Seq(NoSlash) /\ path = Around(before, text, behind)
    BY <1>2
  <2>2. /\ Matches(ToLibraryPattern(documents), path)
        /\ PathParameters(ToLibraryPattern(documents), path)
             = {[name |-> UidParameter, value |-> text]}
    BY <1>3, <1>4, <2>1
  <2>3. PathParameter(PathParameters(ToLibraryPattern(documents), path), UidParameter) = text
    BY <2>2, BoundUid
  <2> QED
    BY <2>2, <2>3 DEF Reached
<1>7. HandlersOf(path) =
        {Reached(route, path) : route \in {route \in DOMAIN RoutePaths : Hit(route)}}
  BY DEF HandlersOf, Reached
<1>8. "documents" \in DOMAIN RoutePaths
  BY RoutingAssumption
<1>9. \A route \in DOMAIN RoutePaths \ {"documents"} :
         /\ Hit(route) <=> RoutePaths[route] = path
         /\ Reached(route, path) = [route |-> route, uid |-> {}]
  BY PlainRoute
<1> HIDE DEF named, Hit, Uid
<1>10. HandlersOf(path) = others \cup {Uid(text) : text \in named}
  <2>1. ASSUME NEW x \in HandlersOf(path) PROVE x \in others \cup {Uid(text) : text \in named}
    <3>1. PICK route \in DOMAIN RoutePaths : Hit(route) /\ x = Reached(route, path)
      BY <1>7
    <3>2. CASE route = "documents"
      BY <1>5, <1>6, <3>1, <3>2
    <3>3. CASE route # "documents"
      BY <1>9, <3>1, <3>3
    <3> QED
      BY <3>2, <3>3
  <2>2. ASSUME NEW x \in others PROVE x \in HandlersOf(path)
    BY <1>7, <1>9
  <2>3. ASSUME NEW text \in named PROVE Uid(text) \in HandlersOf(path)
    BY <1>6, <1>7, <1>8
  <2> QED
    BY <2>1, <2>2, <2>3
<1> QED
  BY <1>10 DEF named, Uid

(* httplib_server.cpp: whatever path a request names, it reaches the       *)
(* routes that are that path, and the documents route with the text in     *)
(* the place of its {uid}, if that text is a uid: every uid has one path,  *)
(* and comes out of it as itself.                                          *)
THEOREM PathsNameTheIndex == Spec => []PathsNameTheirIndex
<1>1. Answered => PathsNameTheirIndex
  <2> SUFFICES ASSUME Answered, Returned("add_documents_response") PROVE PathsNameTheirIndex
    BY DEF PathsNameTheirIndex
  <2>1. call.path \in Seq(Int)
    BY InputsAssumption DEF Answered, Answers, Returned
  <2>2. Result = HandlersOf(call.path)
    BY DEF Answered, Answers, Returned, Result
  <2> DEFINE documents == RoutePaths["documents"]
             named == {text \in SubSeqs(call.path) :
                         /\ Slash \notin Range(text)
                         /\ call.path = UpToBrace(documents) \o text \o FromBrace(documents)}
             handlers ==
               {[route |-> route, uid |-> {}] : route \in
                  {route \in DOMAIN RoutePaths \ {"documents"} : RoutePaths[route] = call.path}}
               \cup {[route |-> "documents", uid |-> {uid \in {text} : IsUid(uid)}] :
                       text \in named}
  <2>3. HandlersOf(call.path) = handlers
    BY <2>1, HandlersAre
  <2>4. PathsNameTheirIndex <=> (Returned("add_documents_response") => Result = handlers)
    BY DEF PathsNameTheirIndex, UpToBrace, FromBrace
  <2> QED
    BY <2>2, <2>3, <2>4
<1> QED
  BY <1>1, AlwaysAnswered, PTL

-----------------------------------------------------------------------------
(* The calendar.                                                           *)

(* A year after another has the days of a year, and one more if leap. *)
LEMMA NextYear ==
    ASSUME NEW year \in Nat
    PROVE  /\ DaysBeforeYear(year) \in Nat
           /\ DaysBeforeYear(year + 1) = DaysBeforeYear(year) + (IF IsLeap(year) THEN 366 ELSE 365)
           /\ 365 * year <= DaysBeforeYear(year) /\ DaysBeforeYear(year) <= 366 * year
<1> DEFINE four == (year + 3) \div 4
           hundred == (year + 99) \div 100
           both == (year + 399) \div 400
<1>1. /\ ((year + 1) + 3) \div 4 = IF year % 4 = 0 THEN four + 1 ELSE four
      /\ ((year + 1) + 99) \div 100 = IF year % 100 = 0 THEN hundred + 1 ELSE hundred
      /\ ((year + 1) + 399) \div 400 = IF year % 400 = 0 THEN both + 1 ELSE both
  OBVIOUS
<1>2. year % 400 = 0 => year % 100 = 0
  OBVIOUS
<1>3. year % 100 = 0 => year % 4 = 0
  OBVIOUS
<1>4. four \in Nat /\ hundred \in Nat /\ both \in Nat
  OBVIOUS
<1>5. hundred <= four /\ four - hundred + both <= year /\ hundred - both <= four
  OBVIOUS
<1>6. DaysBeforeYear(year) = 365 * year + four - hundred + both
  BY DEF DaysBeforeYear
<1>7. DaysBeforeYear(year + 1) =
        365 * (year + 1) + ((year + 1) + 3) \div 4 - ((year + 1) + 99) \div 100
          + ((year + 1) + 399) \div 400
  BY DEF DaysBeforeYear
<1> HIDE DEF four, hundred, both
<1>8. DaysBeforeYear(year + 1) = DaysBeforeYear(year) + (IF IsLeap(year) THEN 366 ELSE 365)
  BY <1>1, <1>2, <1>3, <1>4, <1>6, <1>7 DEF IsLeap
<1> QED
  BY <1>4, <1>5, <1>6, <1>8

LEMMA YearBounds ==
    \A year \in Nat : /\ DaysBeforeYear(year) \in Nat
                      /\ 365 * year <= DaysBeforeYear(year)
                      /\ DaysBeforeYear(year) <= 366 * year
  BY NextYear

(* Counting the leap years before a year gives the days before it.         *)
LEMMA LeapYearsCounted ==
    \A year \in Nat : /\ LeapYearsBefore(year) \in Nat
                      /\ DaysBeforeYear(year) = 365 * year + LeapYearsBefore(year)
<1> DEFINE leap(year) == {y \in 0 .. year - 1 : IsLeap(y)}
           T == {year \in Nat : /\ IsFiniteSet(leap(year)) /\ Cardinality(leap(year)) \in Nat
                                /\ DaysBeforeYear(year) = 365 * year + Cardinality(leap(year))}
<1>1. 0 \in T
  <2>1. leap(0) = {}
    OBVIOUS
  <2>2. IsFiniteSet({}) /\ Cardinality({}) = 0
    BY FS_EmptySet
  <2>3. DaysBeforeYear(0) = 0
    BY DEF DaysBeforeYear
  <2> QED
    BY <2>1, <2>2, <2>3
<1>2. ASSUME NEW year \in Nat, year \in T PROVE year + 1 \in T
  <2>0. /\ IsFiniteSet(leap(year)) /\ Cardinality(leap(year)) \in Nat
        /\ DaysBeforeYear(year) = 365 * year + Cardinality(leap(year))
    BY <1>2
  <2>1. leap(year + 1) = IF IsLeap(year) THEN leap(year) \cup {year} ELSE leap(year)
    <3>1. 0 .. (year + 1) - 1 = (0 .. year - 1) \cup {year}
      OBVIOUS
    <3> QED
      BY <3>1
  <2>2. year \notin leap(year)
    OBVIOUS
  <2> HIDE DEF leap
  <2>3. /\ IsFiniteSet(leap(year) \cup {year})
        /\ Cardinality(leap(year) \cup {year}) = Cardinality(leap(year)) + 1
    BY <2>0, <2>2, FS_AddElement
  <2>4. /\ IsFiniteSet(leap(year + 1))
        /\ Cardinality(leap(year + 1)) =
             Cardinality(leap(year)) + (IF IsLeap(year) THEN 1 ELSE 0)
    BY <2>0, <2>1, <2>3
  <2>5. DaysBeforeYear(year + 1) = DaysBeforeYear(year) + (IF IsLeap(year) THEN 366 ELSE 365)
    BY NextYear
  <2>6. year + 1 \in Nat /\ 365 * (year + 1) = 365 * year + 365
    OBVIOUS
  <2>7. DaysBeforeYear(year + 1) = 365 * (year + 1) + Cardinality(leap(year + 1))
    BY <2>0, <2>4, <2>5, <2>6
  <2>8. Cardinality(leap(year + 1)) \in Nat
    BY <2>0, <2>4
  <2> QED
    BY <2>4, <2>6, <2>7, <2>8
<1>3. Nat \subseteq T
  <2> HIDE DEF T
  <2> QED
    BY <1>1, <1>2, Induction
<1> QED
  BY <1>3 DEF LeapYearsBefore

(* The days before each month. *)
Common == <<0, 31, 59, 90, 120, 151, 181, 212, 243, 273, 304, 334>>

LEMMA MonthsAre ==
    ASSUME NEW year, NEW month \in 1 .. 12
    PROVE  DaysBeforeMonth(year, month) =
             Common[month] + (IF month > 2 /\ IsLeap(year) THEN 1 ELSE 0)
<1> DEFINE L == MonthLengths(year)
           Is(w) == w = [m \in 1 .. 12 |-> IF m = 1 THEN 0 ELSE w[m - 1] + L[m - 1]]
           f == [m \in 1 .. 12 |-> Common[m] + (IF m > 2 /\ IsLeap(year) THEN 1 ELSE 0)]
           g == CHOOSE w : Is(w)
<1>1. /\ L[1] = 31 /\ L[2] = (IF IsLeap(year) THEN 29 ELSE 28) /\ L[3] = 31 /\ L[4] = 30
      /\ L[5] = 31 /\ L[6] = 30 /\ L[7] = 31 /\ L[8] = 31 /\ L[9] = 30 /\ L[10] = 31
      /\ L[11] = 30 /\ L[12] = 31
  BY DEF MonthLengths
<1>2. /\ Common[1] = 0 /\ Common[2] = 31 /\ Common[3] = 59 /\ Common[4] = 90
      /\ Common[5] = 120 /\ Common[6] = 151 /\ Common[7] = 181 /\ Common[8] = 212
      /\ Common[9] = 243 /\ Common[10] = 273 /\ Common[11] = 304 /\ Common[12] = 334
  BY DEF Common
<1> HIDE DEF L
<1>3. /\ f[1] = 0 /\ f[2] = f[1] + L[1] /\ f[3] = f[2] + L[2] /\ f[4] = f[3] + L[3]
      /\ f[5] = f[4] + L[4] /\ f[6] = f[5] + L[5] /\ f[7] = f[6] + L[6]
      /\ f[8] = f[7] + L[7] /\ f[9] = f[8] + L[8] /\ f[10] = f[9] + L[9]
      /\ f[11] = f[10] + L[10] /\ f[12] = f[11] + L[11]
  BY <1>1, <1>2
<1>4. f = [m \in 1 .. 12 |-> f[m]]
  OBVIOUS
<1> HIDE DEF f
<1>5. \A m \in 1 .. 12 : m \in {1, 2, 3, 4, 5, 6, 7, 8, 9, 10, 11, 12}
  OBVIOUS
<1>6. \A m \in 1 .. 12 : f[m] = IF m = 1 THEN 0 ELSE f[m - 1] + L[m - 1]
  BY <1>3, <1>5
<1>7. Is(f)
  BY <1>4, <1>6
<1>8. Is(g)
  BY <1>7
<1> HIDE DEF g
<1>9. \A m \in 1 .. 12 : g[m] = IF m = 1 THEN 0 ELSE g[m - 1] + L[m - 1]
  BY <1>8
<1>10. /\ g[1] = 0 /\ g[2] = g[1] + L[1] /\ g[3] = g[2] + L[2] /\ g[4] = g[3] + L[3]
       /\ g[5] = g[4] + L[4] /\ g[6] = g[5] + L[5] /\ g[7] = g[6] + L[6]
       /\ g[8] = g[7] + L[7] /\ g[9] = g[8] + L[8] /\ g[10] = g[9] + L[9]
       /\ g[11] = g[10] + L[10] /\ g[12] = g[11] + L[11]
  BY <1>9
<1>11. \A m \in 1 .. 12 : g[m] = f[m]
  BY <1>3, <1>5, <1>10
<1>12. DaysBeforeMonth(year, month) = g[month]
  BY DEF DaysBeforeMonth, g, L
<1> QED
  BY <1>11, <1>12 DEF f

(* Some year has each day, *)
LEMMA YearExists ==
    ASSUME NEW day \in Nat
    PROVE  \E year \in Nat : DaysBeforeYear(year) <= day /\ day < DaysBeforeYear(year + 1)
<1> DEFINE T == {year \in Nat : day < DaysBeforeYear(year)}
<1>1. day + 1 \in T
  <2>1. 365 * (day + 1) <= DaysBeforeYear(day + 1) /\ DaysBeforeYear(day + 1) \in Nat
    BY NextYear
  <2> QED
    BY <2>1
<1>2. PICK first \in T : \A year \in T : first <= year
  <2>1. T \subseteq Nat /\ T # {}
    BY <1>1
  <2> HIDE DEF T
  <2> QED
    BY <2>1, LeastExists
<1>3. first # 0
  <2>1. DaysBeforeYear(0) = 0
    BY DEF DaysBeforeYear
  <2> QED
    BY <2>1
<1>4. first - 1 \in Nat /\ (first - 1) + 1 = first /\ ~(first <= first - 1)
  BY <1>3
<1>5. ~(day < DaysBeforeYear(first - 1)) /\ DaysBeforeYear(first - 1) \in Nat
  BY <1>2, <1>4, NextYear
<1>6. day < DaysBeforeYear(first)
  OBVIOUS
<1>7. DaysBeforeYear(first - 1) <= day
  BY <1>5
<1> QED
  BY <1>4, <1>6, <1>7

(* and the later the year, the more days are before it. *)
LEMMA YearsGrow ==
    ASSUME NEW year \in Nat
    PROVE  \A n \in Nat : DaysBeforeYear(year) <= DaysBeforeYear(year + n)
<1> DEFINE T == {n \in Nat : DaysBeforeYear(year) <= DaysBeforeYear(year + n)}
<1>1. 0 \in T
  <2>1. DaysBeforeYear(year) \in Nat /\ year + 0 = year
    BY NextYear
  <2> QED
    BY <2>1
<1>2. ASSUME NEW n \in Nat, n \in T PROVE n + 1 \in T
  <2>1. year + n \in Nat /\ year + (n + 1) = (year + n) + 1 /\ n + 1 \in Nat
    OBVIOUS
  <2>2. /\ DaysBeforeYear(year + n) \in Nat
        /\ DaysBeforeYear((year + n) + 1) =
             DaysBeforeYear(year + n) + (IF IsLeap(year + n) THEN 366 ELSE 365)
    BY <2>1, NextYear
  <2>3. DaysBeforeYear(year) \in Nat
    BY NextYear
  <2>4. DaysBeforeYear(year) <= DaysBeforeYear((year + n) + 1)
    BY <1>2, <2>2, <2>3
  <2> QED
    BY <2>1, <2>4
<1>3. Nat \subseteq T
  <2> HIDE DEF T
  <2> QED
    BY <1>1, <1>2, Induction
<1> QED
  BY <1>3

(* The day of a year is of one of its months. *)
LEMMA MonthExists ==
    ASSUME NEW year, NEW day \in Nat, day < (IF IsLeap(year) THEN 366 ELSE 365)
    PROVE  \E m \in 1 .. 12 : /\ DaysBeforeMonth(year, m) <= day
                              /\ day < DaysBeforeMonth(year, m) + MonthLengths(year)[m]
<1> DEFINE L == MonthLengths(year)
           B == [m \in 1 .. 12 |-> DaysBeforeMonth(year, m)]
           leap == IF IsLeap(year) THEN 1 ELSE 0
<1>1. /\ L[1] = 31 /\ L[2] = 28 + leap /\ L[3] = 31 /\ L[4] = 30
      /\ L[5] = 31 /\ L[6] = 30 /\ L[7] = 31 /\ L[8] = 31 /\ L[9] = 30 /\ L[10] = 31
      /\ L[11] = 30 /\ L[12] = 31
  BY DEF MonthLengths
<1>2. /\ Common[1] = 0 /\ Common[2] = 31 /\ Common[3] = 59 /\ Common[4] = 90
      /\ Common[5] = 120 /\ Common[6] = 151 /\ Common[7] = 181 /\ Common[8] = 212
      /\ Common[9] = 243 /\ Common[10] = 273 /\ Common[11] = 304 /\ Common[12] = 334
  BY DEF Common
<1>3. \A m \in 1 .. 12 : B[m] = Common[m] + (IF m > 2 THEN leap ELSE 0)
  BY MonthsAre
<1> HIDE DEF B
<1>4. /\ B[1] = 0 /\ B[2] = 31 /\ B[3] = 59 + leap /\ B[4] = 90 + leap
      /\ B[5] = 120 + leap /\ B[6] = 151 + leap /\ B[7] = 181 + leap /\ B[8] = 212 + leap
      /\ B[9] = 243 + leap /\ B[10] = 273 + leap /\ B[11] = 304 + leap /\ B[12] = 334 + leap
  BY <1>2, <1>3
<1>5. leap \in 0 .. 1 /\ day < 365 + leap
  OBVIOUS
<1> HIDE DEF L, leap
<1>6. \E m \in 1 .. 12 : B[m] <= day /\ day < B[m] + L[m]
  <2>1. CASE day < 31
    BY <1>1, <1>4, <1>5, <2>1
  <2>2. CASE 31 <= day /\ day < 59 + leap
    BY <1>1, <1>4, <1>5, <2>2
  <2>3. CASE 59 + leap <= day /\ day < 90 + leap
    BY <1>1, <1>4, <1>5, <2>3
  <2>4. CASE 90 + leap <= day /\ day < 120 + leap
    BY <1>1, <1>4, <1>5, <2>4
  <2>5. CASE 120 + leap <= day /\ day < 151 + leap
    BY <1>1, <1>4, <1>5, <2>5
  <2>6. CASE 151 + leap <= day /\ day < 181 + leap
    BY <1>1, <1>4, <1>5, <2>6
  <2>7. CASE 181 + leap <= day /\ day < 212 + leap
    BY <1>1, <1>4, <1>5, <2>7
  <2>8. CASE 212 + leap <= day /\ day < 243 + leap
    BY <1>1, <1>4, <1>5, <2>8
  <2>9. CASE 243 + leap <= day /\ day < 273 + leap
    BY <1>1, <1>4, <1>5, <2>9
  <2>10. CASE 273 + leap <= day /\ day < 304 + leap
    BY <1>1, <1>4, <1>5, <2>10
  <2>11. CASE 304 + leap <= day /\ day < 334 + leap
    BY <1>1, <1>4, <1>5, <2>11
  <2>12. CASE 334 + leap <= day
    BY <1>1, <1>4, <1>5, <2>12
  <2> QED
    BY <1>5, <2>1, <2>2, <2>3, <2>4, <2>5, <2>6, <2>7, <2>8, <2>9, <2>10, <2>11, <2>12
<1> QED
  BY <1>6 DEF B, L

IsDate(year, month, day) ==
    year \in 0 .. 9999 /\ month \in 1 .. 12 /\ day \in 1 .. MonthLengths(year)[month]

LEMMA LengthsAre ==
    ASSUME NEW year, NEW month \in 1 .. 12
    PROVE  MonthLengths(year)[month] \in 28 .. 31
<1> DEFINE L == MonthLengths(year)
<1>1. /\ L[1] = 31 /\ L[2] = (IF IsLeap(year) THEN 29 ELSE 28) /\ L[3] = 31 /\ L[4] = 30
      /\ L[5] = 31 /\ L[6] = 30 /\ L[7] = 31 /\ L[8] = 31 /\ L[9] = 30 /\ L[10] = 31
      /\ L[11] = 30 /\ L[12] = 31
  BY DEF MonthLengths
<1> HIDE DEF L
<1>2. month \in {1, 2, 3, 4, 5, 6, 7, 8, 9, 10, 11, 12}
  OBVIOUS
<1> QED
  BY <1>1, <1>2 DEF L

LEMMA DaysBeforeMonthType ==
    ASSUME NEW year, NEW month \in 1 .. 12
    PROVE  DaysBeforeMonth(year, month) \in Nat
<1>1. /\ Common[1] = 0 /\ Common[2] = 31 /\ Common[3] = 59 /\ Common[4] = 90
      /\ Common[5] = 120 /\ Common[6] = 151 /\ Common[7] = 181 /\ Common[8] = 212
      /\ Common[9] = 243 /\ Common[10] = 273 /\ Common[11] = 304 /\ Common[12] = 334
  BY DEF Common
<1>2. month \in {1, 2, 3, 4, 5, 6, 7, 8, 9, 10, 11, 12}
  OBVIOUS
<1>3. Common[month] \in Nat
  BY <1>1, <1>2
<1> QED
  BY <1>3, MonthsAre

(* The date of a day that can be written is a date, and counting the days  *)
(* to it gives that day.                                                   *)
LEMMA DateCounts ==
    ASSUME NEW days \in Int, days + DaysBeforeYear(1970) \in 0 .. DaysBeforeYear(10000) - 1
    PROVE  /\ IsDate(DateOf(days).year, DateOf(days).month, DateOf(days).day)
           /\ DaysCounted(DateOf(days).year, DateOf(days).month, DateOf(days).day) = days
<1> DEFINE since == days + DaysBeforeYear(1970)
           guess == since \div 366
           Has(y) == DaysBeforeYear(y) <= since /\ since < DaysBeforeYear(y + 1)
           year == CHOOSE y \in guess .. guess + 30 : Has(y)
           dayOfYear == since - DaysBeforeYear(year)
           In(m) == /\ DaysBeforeMonth(year, m) <= dayOfYear
                    /\ dayOfYear < DaysBeforeMonth(year, m) + MonthLengths(year)[m]
           month == CHOOSE m \in 1 .. 12 : In(m)
           day == dayOfYear - DaysBeforeMonth(year, month) + 1
<1>0. DateOf(days) = [year |-> year, month |-> month, day |-> day]
  BY DEF DateOf
<1>1. DaysBeforeYear(1970) \in Nat /\ DaysBeforeYear(10000) \in Nat
  BY NextYear
<1>2. since \in Nat /\ since < DaysBeforeYear(10000) /\ days = since - DaysBeforeYear(1970)
  BY <1>1
<1> HIDE DEF since
<1>3. \E y \in guess .. guess + 30 : Has(y)
  <2>1. PICK y \in Nat : DaysBeforeYear(y) <= since /\ since < DaysBeforeYear(y + 1)
    BY <1>2, YearExists
  <2>2. y < 10000
    <3> SUFFICES ASSUME y >= 10000 PROVE FALSE
      OBVIOUS
    <3>1. y - 10000 \in Nat /\ 10000 + (y - 10000) = y
      OBVIOUS
    <3>2. DaysBeforeYear(10000) <= DaysBeforeYear(y)
      BY <3>1, YearsGrow
    <3>3. DaysBeforeYear(y) \in Nat
      BY <2>1, YearBounds
    <3> QED
      BY <1>1, <1>2, <2>1, <3>2, <3>3
  <2>3. 365 * y <= DaysBeforeYear(y) /\ DaysBeforeYear(y) \in Nat
    BY <2>1, YearBounds
  <2>4. DaysBeforeYear(y + 1) <= 366 * (y + 1) /\ DaysBeforeYear(y + 1) \in Nat
    <3>1. y + 1 \in Nat
      BY <2>1
    <3> QED
      BY <3>1, YearBounds
  <2>5. 365 * y <= since /\ since < 366 * (y + 1)
    BY <1>2, <2>1, <2>3, <2>4
  <2>6. y \in guess .. guess + 30
    BY <1>2, <2>2, <2>5
  <2> QED
    BY <2>1, <2>6
<1>4. year \in guess .. guess + 30 /\ Has(year)
  BY <1>3
<1>5. year \in Nat /\ DaysBeforeYear(year) <= since /\ since < DaysBeforeYear(year + 1)
  <2>1. guess \in Nat
    BY <1>2
  <2> HIDE DEF guess, year
  <2> QED
    BY <1>4, <2>1
<1> HIDE DEF year
<1>6. year <= 9999
  <2> SUFFICES ASSUME year >= 10000 PROVE FALSE
    BY <1>5
  <2>1. year - 10000 \in Nat /\ 10000 + (year - 10000) = year
    BY <1>5
  <2>2. DaysBeforeYear(10000) <= DaysBeforeYear(year)
    BY <2>1, YearsGrow
  <2>3. DaysBeforeYear(year) \in Nat
    BY <1>5, NextYear
  <2> QED
    BY <1>1, <1>2, <1>5, <2>2, <2>3
<1>7. dayOfYear \in Nat /\ dayOfYear < (IF IsLeap(year) THEN 366 ELSE 365)
  <2>1. /\ DaysBeforeYear(year) \in Nat
        /\ DaysBeforeYear(year + 1) = DaysBeforeYear(year) + (IF IsLeap(year) THEN 366 ELSE 365)
    BY <1>5, NextYear
  <2> QED
    BY <1>2, <1>5, <2>1
<1>8. since = DaysBeforeYear(year) + dayOfYear /\ DaysBeforeYear(year) \in Nat
  <2>1. DaysBeforeYear(year) \in Nat
    BY <1>5, NextYear
  <2> QED
    BY <1>2, <2>1
<1> HIDE DEF dayOfYear
<1>9. month \in 1 .. 12 /\ In(month)
  <2>1. \E m \in 1 .. 12 : In(m)
    BY <1>7, MonthExists
  <2> HIDE DEF In
  <2> QED
    BY <2>1
<1> HIDE DEF month
<1>10. /\ DaysBeforeMonth(year, month) \in Nat /\ MonthLengths(year)[month] \in 28 .. 31
       /\ DaysBeforeMonth(year, month) <= dayOfYear
       /\ dayOfYear < DaysBeforeMonth(year, month) + MonthLengths(year)[month]
  BY <1>9, DaysBeforeMonthType, LengthsAre
<1>11. IsDate(year, month, day)
  BY <1>5, <1>6, <1>7, <1>9, <1>10 DEF IsDate
<1>12. DaysCounted(year, month, day) = days
  <2>1. /\ LeapYearsBefore(year) \in Nat
        /\ DaysBeforeYear(year) = 365 * year + LeapYearsBefore(year)
    BY <1>5, LeapYearsCounted
  <2>2. /\ LeapYearsBefore(1970) \in Nat
        /\ DaysBeforeYear(1970) = 365 * 1970 + LeapYearsBefore(1970)
    BY LeapYearsCounted
  <2>3. DaysCounted(year, month, day) =
          365 * (year - 1970) + LeapYearsBefore(year) - LeapYearsBefore(1970)
            + DaysBeforeMonth(year, month) + (dayOfYear - DaysBeforeMonth(year, month) + 1) - 1
    BY DEF DaysCounted
  <2> QED
    BY <1>2, <1>5, <1>7, <1>8, <1>10, <2>1, <2>2, <2>3
<1> QED
  BY <1>0, <1>11, <1>12

-----------------------------------------------------------------------------
(* Units of time.                                                          *)

LEMMA Divided ==
    ASSUME NEW a \in Int, NEW b \in Nat \ {0}
    PROVE  /\ a \div b \in Int /\ a % b \in Int
           /\ a = (a \div b) * b + (a % b)
           /\ 0 <= a % b /\ a % b < b
  OBVIOUS

(* A product of more is more. *)
LEMMA ProductGrows ==
    ASSUME NEW a \in Int, NEW b \in Int, NEW c \in Nat, a <= b
    PROVE  a * c <= b * c
  OBVIOUS

LEMMA ProductTells ==
    ASSUME NEW a \in Int, NEW b \in Int, NEW c \in Nat, a * c < b * c
    PROVE  a < b
<1> SUFFICES ASSUME b <= a PROVE FALSE
  OBVIOUS
<1>1. b * c <= a * c
  BY ProductGrows
<1>2. a * c \in Int /\ b * c \in Int
  OBVIOUS
<1> QED
  BY <1>1, <1>2

(* What is less than so many wholes has fewer wholes. *)
LEMMA FewerWholes ==
    ASSUME NEW a \in Nat, NEW b \in Nat \ {0}, NEW n \in Nat, a < n * b
    PROVE  a \div b \in 0 .. n - 1
<1>1. /\ a \div b \in Int /\ a % b \in Int /\ a = (a \div b) * b + (a % b)
      /\ 0 <= a % b /\ a % b < b
  BY Divided
<1> DEFINE q == a \div b
           r == a % b
<1>2. q \in Int /\ r \in Int /\ a = q * b + r /\ 0 <= r /\ r < b
  BY <1>1
<1> HIDE DEF q, r
<1>3. q * b \in Int /\ n * b \in Int
  BY <1>2
<1>4. q * b < n * b
  BY <1>2, <1>3
<1>5. q < n
  BY <1>2, <1>4, ProductTells
<1>6. -1 < q
  <2>1. (-1) * b < q * b
    BY <1>2, <1>3
  <2> QED
    BY <1>2, <2>1, ProductTells
<1> QED
  BY <1>2, <1>5, <1>6 DEF q

LEMMA Regrouped ==
    ASSUME NEW d \in Int, NEW n \in Int, NEW q \in Int, NEW b \in Int, NEW r \in Int
    PROVE  (d * n + q) * b + r = d * (n * b) + (q * b + r)
  OBVIOUS

(* Wholes that start between two multiples. *)
LEMMA WholesBetween ==
    ASSUME NEW t \in Int, NEW b \in Nat \ {0}, NEW low \in Int, NEW high \in Int,
           low * b <= t, t < high * b
    PROVE  t \div b \in low .. high - 1
<1> DEFINE q == t \div b
           r == t % b
<1>1. q \in Int /\ r \in Int /\ t = q * b + r /\ 0 <= r /\ r < b
  BY Divided
<1> HIDE DEF q, r
<1>2. q * b \in Int /\ low * b \in Int /\ high * b \in Int /\ (q + 1) * b = q * b + b
  BY <1>1
<1>3. q * b < high * b /\ low * b < (q + 1) * b
  BY <1>1, <1>2
<1>4. q < high
  BY <1>1, <1>3, ProductTells
<1>5. q + 1 \in Int
  BY <1>1
<1>6. low < q + 1
  BY <1>3, <1>5, ProductTells
<1> QED
  BY <1>1, <1>4, <1>6 DEF q

LEMMA UnitsAre ==
    /\ HoursPerDay \in 1 .. 100 /\ MinutesPerHour \in 1 .. 100 /\ SecondsPerMinute \in 1 .. 100
    /\ MillisecondsPerSecond \in 1 .. 1000
    /\ HoursPerDay * MinutesPerHour \in Nat \ {0}
    /\ HoursPerDay * MinutesPerHour * SecondsPerMinute \in Nat \ {0}
    /\ Day \in Nat \ {0}
    /\ Day = ((HoursPerDay * MinutesPerHour) * SecondsPerMinute) * MillisecondsPerSecond
<1>1. /\ HoursPerDay \in 1 .. 100 /\ MinutesPerHour \in 1 .. 100
      /\ SecondsPerMinute \in 1 .. 100 /\ MillisecondsPerSecond \in 1 .. 1000
  BY UnitsAssumption
<1>2. \A x, y \in Nat \ {0} : x * y \in Nat \ {0}
  <2> SUFFICES ASSUME NEW x \in Nat \ {0}, NEW y \in Nat \ {0} PROVE x * y \in Nat \ {0}
    OBVIOUS
  <2>1. 1 <= x /\ x * y \in Int /\ 1 * y = y
    OBVIOUS
  <2>2. 1 * y <= x * y
    BY <2>1, ProductGrows
  <2> QED
    BY <2>1, <2>2
<1>3. HoursPerDay * MinutesPerHour \in Nat \ {0}
  BY <1>1, <1>2
<1>4. HoursPerDay * MinutesPerHour * SecondsPerMinute \in Nat \ {0}
  BY <1>1, <1>2, <1>3
<1>5. HoursPerDay * MinutesPerHour * SecondsPerMinute * MillisecondsPerSecond \in Nat \ {0}
  BY <1>1, <1>2, <1>4
<1>6. Day = ((HoursPerDay * MinutesPerHour) * SecondsPerMinute) * MillisecondsPerSecond
  BY DEF Day, SecondsPerDay
<1> QED
  BY <1>1, <1>3, <1>4, <1>5, <1>6

(* What append_json_timestamp() takes apart. *)
Milliseconds(t) == t - FloorDays(t) * Day
Seconds(t) == Milliseconds(t) \div MillisecondsPerSecond
Minutes(t) == Seconds(t) \div SecondsPerMinute
Hours(t) == Minutes(t) \div MinutesPerHour

LEMMA InstantApart ==
    ASSUME NEW t \in WritableInstants
    PROVE  /\ FloorDays(t) \in Int
           /\ FloorDays(t) + DaysBeforeYear(1970) \in 0 .. DaysBeforeYear(10000) - 1
           /\ Hours(t) \in 0 .. HoursPerDay - 1
           /\ Minutes(t) % MinutesPerHour \in 0 .. MinutesPerHour - 1
           /\ Seconds(t) % SecondsPerMinute \in 0 .. SecondsPerMinute - 1
           /\ Milliseconds(t) % MillisecondsPerSecond \in 0 .. MillisecondsPerSecond - 1
           /\ t = (((FloorDays(t) * HoursPerDay + Hours(t)) * MinutesPerHour
                      + (Minutes(t) % MinutesPerHour)) * SecondsPerMinute
                      + (Seconds(t) % SecondsPerMinute)) * MillisecondsPerSecond
                    + (Milliseconds(t) % MillisecondsPerSecond)
<1> DEFINE d == FloorDays(t)
           low == -DaysBeforeYear(1970)
           high == DaysBeforeYear(10000) - DaysBeforeYear(1970)
           H == HoursPerDay
           M == MinutesPerHour
           S == SecondsPerMinute
           K == MillisecondsPerSecond
           ms == Milliseconds(t)
           sec == Seconds(t)
           min == Minutes(t)
           h == Hours(t)
<1>1. DaysBeforeYear(1970) \in Nat /\ DaysBeforeYear(10000) \in Nat
  BY NextYear
<1>2. t \in low * Day .. high * Day - 1 /\ Day \in Nat \ {0}
  <2>1. -DaysBeforeYear(1970) * Day = low * Day
    BY <1>1, UnitsAre
  <2> QED
    BY <2>1, UnitsAre DEF WritableInstants
<1>3. low \in Int /\ high \in Int
  BY <1>1
<1>4. low + DaysBeforeYear(1970) = 0 /\ high + DaysBeforeYear(1970) = DaysBeforeYear(10000)
  BY <1>1
<1> HIDE DEF low, high
<1>5. t \in Int /\ low * Day <= t /\ t < high * Day
  <2>1. low * Day \in Int /\ high * Day \in Int
    BY <1>2, <1>3
  <2> QED
    BY <1>2, <2>1
<1>6. d \in low .. high - 1
  BY <1>2, <1>3, <1>5, WholesBetween DEF FloorDays
<1>7. d \in Int /\ d + DaysBeforeYear(1970) \in 0 .. DaysBeforeYear(10000) - 1
  BY <1>1, <1>3, <1>4, <1>6
<1>8. ms \in Nat /\ ms < Day /\ t = d * Day + ms
  <2>1. /\ t \div Day \in Int /\ t % Day \in Int
        /\ t = (t \div Day) * Day + (t % Day) /\ 0 <= t % Day /\ t % Day < Day
    BY <1>2, <1>5, Divided
  <2>2. d * Day \in Int
    BY <1>2, <1>7
  <2>3. ms = t % Day
    BY <1>5, <2>1, <2>2 DEF Milliseconds, FloorDays
  <2> QED
    BY <2>1, <2>3 DEF FloorDays
<1>9. /\ H \in Nat \ {0} /\ M \in Nat \ {0} /\ S \in Nat \ {0} /\ K \in Nat \ {0}
      /\ H * M \in Nat \ {0} /\ (H * M) * S \in Nat \ {0} /\ Day = ((H * M) * S) * K
  BY UnitsAre
<1> HIDE DEF d, ms, H, M, S, K
<1>10. sec \in 0 .. (H * M) * S - 1
  <2>1. sec = ms \div K
    BY DEF Seconds, ms, K
  <2>2. ms \div K \in 0 .. (H * M) * S - 1
    <3> DEFINE n == (H * M) * S
    <3>1. n \in Nat /\ ms < n * K
      BY <1>8, <1>9
    <3> HIDE DEF n
    <3>2. ms \div K \in 0 .. n - 1
      BY <1>8, <1>9, <3>1, FewerWholes
    <3> QED
      BY <3>2 DEF n
  <2> QED
    BY <2>1, <2>2
<1>11. min \in 0 .. H * M - 1
  <2>1. min = sec \div S
    BY DEF Minutes, S
  <2> HIDE DEF sec, min
  <2> DEFINE n == H * M
  <2>2. n \in Nat /\ sec \in Nat /\ sec < n * S
    BY <1>9, <1>10
  <2> HIDE DEF n
  <2>3. sec \div S \in 0 .. n - 1
    BY <1>9, <2>2, FewerWholes
  <2> QED
    BY <2>1, <2>3 DEF n
<1>12. h \in 0 .. H - 1
  <2>1. h = min \div M
    BY DEF Hours, M
  <2> HIDE DEF min, h
  <2>2. min \in Nat /\ min < H * M
    BY <1>9, <1>11
  <2> QED
    BY <1>9, <2>1, <2>2, FewerWholes
<1> DEFINE rk == ms % K
           rs == sec % S
           rm == min % M
<1>13. /\ ms = sec * K + rk /\ rk \in 0 .. K - 1
       /\ sec = min * S + rs /\ rs \in 0 .. S - 1
       /\ min = h * M + rm /\ rm \in 0 .. M - 1
  <2>1. sec = ms \div K /\ min = sec \div S /\ h = min \div M
    BY DEF Seconds, ms, K, Minutes, S, Hours, M
  <2> HIDE DEF sec, min, h
  <2>2. ms \in Int /\ sec \in Int /\ min \in Int
    BY <1>8, <1>9, <1>10, <1>11
  <2>3. /\ ms \div K \in Int /\ ms % K \in Int /\ ms = (ms \div K) * K + (ms % K)
        /\ 0 <= ms % K /\ ms % K < K
    BY <1>9, <2>2, Divided
  <2>4. /\ sec \div S \in Int /\ sec % S \in Int /\ sec = (sec \div S) * S + (sec % S)
        /\ 0 <= sec % S /\ sec % S < S
    BY <1>9, <2>2, Divided
  <2>5. /\ min \div M \in Int /\ min % M \in Int /\ min = (min \div M) * M + (min % M)
        /\ 0 <= min % M /\ min % M < M
    BY <1>9, <2>2, Divided
  <2>6. ms = sec * K + rk /\ rk \in 0 .. K - 1
    BY <1>9, <2>1, <2>3
  <2>7. sec = min * S + rs /\ rs \in 0 .. S - 1
    BY <1>9, <2>1, <2>4
  <2>8. min = h * M + rm /\ rm \in 0 .. M - 1
    BY <1>9, <2>1, <2>5
  <2> QED
    BY <2>6, <2>7, <2>8
<1> HIDE DEF sec, min, h, rk, rs, rm
<1>14. t = (((d * H + h) * M + rm) * S + rs) * K + rk
  <2>0. /\ h \in Int /\ rm \in Int /\ rs \in Int /\ rk \in Int /\ H \in Int /\ M \in Int
        /\ S \in Int /\ K \in Int /\ min \in Int /\ sec \in Int /\ d \in Int
        /\ H * M \in Int /\ (H * M) * S \in Int
    BY <1>7, <1>9, <1>10, <1>11, <1>12, <1>13
  <2>1. (d * H + h) * M + rm = d * (H * M) + (h * M + rm)
    BY <2>0, Regrouped
  <2>2. (d * H + h) * M + rm = d * (H * M) + min
    BY <1>13, <2>1
  <2>3. (d * (H * M) + min) * S + rs = d * ((H * M) * S) + (min * S + rs)
    <3> DEFINE n == H * M
    <3>1. n \in Int
      BY <2>0
    <3> HIDE DEF n
    <3>2. (d * n + min) * S + rs = d * (n * S) + (min * S + rs)
      BY <2>0, <3>1, Regrouped
    <3> QED
      BY <3>2 DEF n
  <2>4. ((d * H + h) * M + rm) * S + rs = d * ((H * M) * S) + sec
    BY <1>13, <2>2, <2>3
  <2>5. (d * ((H * M) * S) + sec) * K + rk = d * (((H * M) * S) * K) + (sec * K + rk)
    <3> DEFINE n == (H * M) * S
    <3>1. n \in Int
      BY <2>0
    <3> HIDE DEF n
    <3>2. (d * n + sec) * K + rk = d * (n * K) + (sec * K + rk)
      BY <2>0, <3>1, Regrouped
    <3> QED
      BY <3>2 DEF n
  <2>6. (((d * H + h) * M + rm) * S + rs) * K + rk = d * Day + ms
    BY <1>9, <1>13, <2>4, <2>5
  <2> QED
    BY <1>8, <2>6
<1> QED
  BY <1>7, <1>12, <1>13, <1>14 DEF d, h, rm, rs, rk, min, sec, ms, H, M, S, K

-----------------------------------------------------------------------------
(* Digits.                                                                 *)

(* One more digit of a number, where some are known of smaller ones. *)
MoreDigits ==
    [known \in [Nat -> Seq(Nat)] |-> [n \in Nat |->
        IF n < 10 THEN <<n>> ELSE Append(known[n \div 10], n % 10)]]

LEMMA MoreDigitsType == MoreDigits \in [[Nat -> Seq(Nat)] -> [Nat -> Seq(Nat)]]
<1> DEFINE X == Seq(Nat)
           One(n) == <<n>>
           A(known, n) == Append(known[n \div 10], n % 10)
<1>1. \A n \in Nat : n \div 10 \in Nat /\ n % 10 \in Nat /\ One(n) \in X
  OBVIOUS
<1>2. \A text \in X : \A n \in Nat : Append(text, n) \in X
  OBVIOUS
<1>3. \A known \in [Nat -> X] : \A n \in Nat : A(known, n) \in X
  <2> HIDE DEF X
  <2> QED
    BY <1>1, <1>2
<1>4. MoreDigits = [known \in [Nat -> X] |-> [n \in Nat |->
                      IF n < 10 THEN One(n) ELSE A(known, n)]]
  BY DEF MoreDigits
<1>5. \A n \in Nat : One(n) \in X
  BY <1>1
<1> HIDE DEF X, One, A
<1>6. MoreDigits \in [[Nat -> X] -> [Nat -> X]]
  BY <1>3, <1>4, <1>5
<1> QED
  BY <1>6 DEF X

(* Every number has digits: those of the tenth of it, and its last. *)
DigitsFrom(d, n) == IF n < 10 THEN <<n>> ELSE Append(d[n \div 10], n % 10)
AreDigits(d) == d = [n \in Nat |-> d[n]] /\ \A n \in Nat : d[n] = DigitsFrom(d, n)

LEMMA DigitsExist == \E d : AreDigits(d)
<1> DEFINE X == [Nat -> Seq(Nat)]
           base == [n \in Nat |-> <<>>]
           Step == [k \in Nat |-> MoreDigits]
           D(known, n) == IF n < 10 THEN <<n>> ELSE Append(known[n \div 10], n % 10)
<1>1. base \in X
  OBVIOUS
<1>2. MoreDigits \in [X -> X]
  BY MoreDigitsType
<1>3. \A known \in X : \A n \in Nat : MoreDigits[known][n] = D(known, n)
  BY DEF MoreDigits
<1> HIDE DEF X, base, D
<1>4. PICK f : IsIteration(f, X, base, Step)
  <2>1. Step \in [Nat -> [X -> X]]
    BY <1>2
  <2> HIDE DEF Step
  <2> QED
    BY <1>1, <2>1, Iteration
<1>5. \A k \in Nat : f[k] \in X /\ \A n \in Nat : f[k + 1][n] = D(f[k], n)
  BY <1>3, <1>4 DEF IsIteration
<1> DEFINE Same(x, y, n) == x[n] = y[n]
<1>6. \A x, y : \A n \in Nat : n < 10 \/ Same(x, y, n \div 10) => D(x, n) = D(y, n)
  BY DEF D
<1>7. \A n \in Nat : ~(n < 10) => n \div 10 \in Nat /\ n \div 10 < n
  OBVIOUS
<1> DEFINE T == {k \in Nat : \A n \in Nat : n < k => f[k][n] = f[k + 1][n]}
<1>8. Nat \subseteq T
  <2>1. 0 \in T
    OBVIOUS
  <2>2. ASSUME NEW k \in Nat, k \in T PROVE k + 1 \in T
    <3> SUFFICES ASSUME NEW n \in Nat, n < k + 1 PROVE f[k + 1][n] = f[(k + 1) + 1][n]
      OBVIOUS
    <3>1. f[k + 1][n] = D(f[k], n) /\ f[(k + 1) + 1][n] = D(f[k + 1], n)
      <4>1. k + 1 \in Nat
        OBVIOUS
      <4> QED
        BY <1>5, <4>1
    <3>2. n < 10 \/ Same(f[k], f[k + 1], n \div 10)
      <4> SUFFICES ASSUME ~(n < 10) PROVE f[k][n \div 10] = f[k + 1][n \div 10]
        OBVIOUS
      <4>1. n \div 10 \in Nat /\ n \div 10 < n
        BY <1>7
      <4>2. n \div 10 < k
        BY <4>1
      <4> QED
        BY <2>2, <4>1, <4>2
    <3> HIDE DEF Same
    <3> QED
      BY <1>6, <3>1, <3>2
  <2> HIDE DEF T
  <2> QED
    BY <2>1, <2>2, Induction
<1>9. ASSUME NEW m \in Nat PROVE \A j \in Nat : f[m + 1 + j][m] = f[m + 1][m]
  <2> DEFINE U == {j \in Nat : f[m + 1 + j][m] = f[m + 1][m]}
  <2>1. 0 \in U
    <3>1. m + 1 + 0 = m + 1
      OBVIOUS
    <3> QED
      BY <3>1
  <2>2. ASSUME NEW j \in Nat, j \in U PROVE j + 1 \in U
    <3>1. m + 1 + j \in Nat /\ m < m + 1 + j /\ (m + 1 + j) + 1 = m + 1 + (j + 1) /\ j + 1 \in Nat
      OBVIOUS
    <3>2. f[m + 1 + j][m] = f[(m + 1 + j) + 1][m]
      BY <1>8, <3>1
    <3> QED
      BY <2>2, <3>1, <3>2
  <2>3. Nat \subseteq U
    <3> HIDE DEF U
    <3> QED
      BY <2>1, <2>2, Induction
  <2> QED
    BY <2>3
<1> DEFINE d == [n \in Nat |-> f[n + 1][n]]
<1>10. ASSUME NEW n \in Nat PROVE d[n] = D(d, n)
  <2>1. d[n] = D(f[n], n)
    BY <1>5
  <2>2. n < 10 \/ Same(f[n], d, n \div 10)
    <3> SUFFICES ASSUME ~(n < 10) PROVE f[n][n \div 10] = d[n \div 10]
      OBVIOUS
    <3> DEFINE m == n \div 10
    <3>1. m \in Nat /\ m < n
      BY <1>7
    <3> HIDE DEF m
    <3>2. n - (m + 1) \in Nat /\ m + 1 + (n - (m + 1)) = n
      BY <3>1
    <3>3. f[n][m] = f[m + 1][m]
      BY <1>9, <3>1, <3>2
    <3> QED
      BY <3>1, <3>3 DEF m
  <2> HIDE DEF Same, d
  <2> QED
    BY <1>6, <2>1, <2>2
<1>11. d = [n \in Nat |-> d[n]]
  OBVIOUS
<1> HIDE DEF d
<1>12. AreDigits(d)
  BY <1>10, <1>11 DEF AreDigits, DigitsFrom, D
<1> QED
  BY <1>12

(* A character more, where the text is written out. *)
LEMMA Written ==
    /\ \A a, b : Append(<<a>>, b) = <<a, b>>
    /\ \A a, b, c : Append(<<a, b>>, c) = <<a, b, c>>
    /\ \A a, b, c, e : Append(<<a, b, c>>, e) = <<a, b, c, e>>
<1>1. ASSUME NEW a, NEW b PROVE Append(<<a>>, b) = <<a, b>>
  <2> DEFINE C == {a, b}
             s == <<a>>
             t == <<a, b>>
  <2>1. s \in Seq(C) /\ Len(s) = 1 /\ s[1] = a /\ b \in C
    OBVIOUS
  <2>2. t \in Seq(C) /\ Len(t) = 2 /\ t[1] = a /\ t[2] = b
    OBVIOUS
  <2> HIDE DEF C, s, t
  <2>3. /\ Append(s, b) \in Seq(C) /\ Len(Append(s, b)) = Len(s) + 1
        /\ \A i \in 1 .. Len(s) : Append(s, b)[i] = s[i]
        /\ Append(s, b)[Len(s) + 1] = b
    <3>1. s \in Seq(C) /\ b \in C
      BY <2>1
    <3> QED
      BY <3>1, AppendProperties
  <2> DEFINE u == Append(s, b)
  <2> HIDE DEF u
  <2>4. u \in Seq(C) /\ Len(u) = 2 /\ u[1] = a /\ u[2] = b
    BY <2>1, <2>3 DEF u
  <2>5. \A i \in 1 .. 2 : u[i] = t[i]
    BY <2>2, <2>4
  <2>6. u = t
    BY <2>2, <2>4, <2>5, SeqEqual
  <2> QED
    BY <2>6 DEF u, s, t
<1>2. ASSUME NEW a, NEW b, NEW c PROVE Append(<<a, b>>, c) = <<a, b, c>>
  <2> DEFINE C == {a, b, c}
             s == <<a, b>>
             t == <<a, b, c>>
  <2>1. s \in Seq(C) /\ Len(s) = 2 /\ s[1] = a /\ s[2] = b /\ c \in C
    OBVIOUS
  <2>2. t \in Seq(C) /\ Len(t) = 3 /\ t[1] = a /\ t[2] = b /\ t[3] = c
    OBVIOUS
  <2> HIDE DEF C, s, t
  <2>3. /\ Append(s, c) \in Seq(C) /\ Len(Append(s, c)) = Len(s) + 1
        /\ \A i \in 1 .. Len(s) : Append(s, c)[i] = s[i]
        /\ Append(s, c)[Len(s) + 1] = c
    <3>1. s \in Seq(C) /\ c \in C
      BY <2>1
    <3> QED
      BY <3>1, AppendProperties
  <2> DEFINE u == Append(s, c)
  <2> HIDE DEF u
  <2>4. u \in Seq(C) /\ Len(u) = 3 /\ u[1] = a /\ u[2] = b /\ u[3] = c
    BY <2>1, <2>3 DEF u
  <2>5. \A i \in 1 .. 3 : u[i] = t[i]
    BY <2>2, <2>4
  <2>6. u = t
    BY <2>2, <2>4, <2>5, SeqEqual
  <2> QED
    BY <2>6 DEF u, s, t
<1>3. ASSUME NEW a, NEW b, NEW c, NEW e PROVE Append(<<a, b, c>>, e) = <<a, b, c, e>>
  <2> DEFINE C == {a, b, c, e}
             s == <<a, b, c>>
             t == <<a, b, c, e>>
  <2>1. s \in Seq(C) /\ Len(s) = 3 /\ s[1] = a /\ s[2] = b /\ s[3] = c /\ e \in C
    OBVIOUS
  <2>2. t \in Seq(C) /\ Len(t) = 4 /\ t[1] = a /\ t[2] = b /\ t[3] = c /\ t[4] = e
    OBVIOUS
  <2> HIDE DEF C, s, t
  <2>3. /\ Append(s, e) \in Seq(C) /\ Len(Append(s, e)) = Len(s) + 1
        /\ \A i \in 1 .. Len(s) : Append(s, e)[i] = s[i]
        /\ Append(s, e)[Len(s) + 1] = e
    <3>1. s \in Seq(C) /\ e \in C
      BY <2>1
    <3> QED
      BY <3>1, AppendProperties
  <2> DEFINE u == Append(s, e)
  <2> HIDE DEF u
  <2>4. u \in Seq(C) /\ Len(u) = 4 /\ u[1] = a /\ u[2] = b /\ u[3] = c /\ u[4] = e
    BY <2>1, <2>3 DEF u
  <2>5. \A i \in 1 .. 4 : u[i] = t[i]
    BY <2>2, <2>4
  <2>6. u = t
    BY <2>2, <2>4, <2>5, SeqEqual
  <2> QED
    BY <2>6 DEF u, s, t
<1> QED
  BY <1>1, <1>2, <1>3

(* std::to_string() of up to four digits. *)
LEMMA DecimalUnfolds ==
    ASSUME NEW n \in Nat, n < 10000
    PROVE  \E d : AreDigits(d) /\ Decimal(n) = d[n]
<1> DEFINE One(k) == <<k>>
           A(text, k) == Append(text, k)
           D(w, k) == IF k < 10 THEN One(k) ELSE A(w[k \div 10], k % 10)
           Is(w) == w = [k \in Nat |-> D(w, k)]
           g == CHOOSE w : w = [k \in Nat |-> IF k < 10 THEN <<k>>
                                              ELSE Append(w[k \div 10], k % 10)]
<1>1. n % UnsignedModulus = n
  BY UnitsAssumption
<1>2. Decimal(n) = g[n]
  BY <1>1 DEF Decimal
<1>3. g = CHOOSE w : Is(w)
  OBVIOUS
<1>4. \A w : AreDigits(w) <=> w = [k \in Nat |-> w[k]] /\ \A k \in Nat : w[k] = D(w, k)
  BY DEF AreDigits, DigitsFrom
<1> HIDE DEF g, D
<1>5. \E w : Is(w)
  <2>1. PICK w : AreDigits(w)
    BY DigitsExist
  <2>2. w = [k \in Nat |-> w[k]] /\ \A k \in Nat : w[k] = D(w, k)
    BY <1>4, <2>1
  <2>3. [k \in Nat |-> w[k]] = [k \in Nat |-> D(w, k)]
    BY <2>2
  <2> QED
    BY <2>2, <2>3
<1>6. Is(g)
  BY <1>3, <1>5
<1>7. g = [k \in Nat |-> g[k]] /\ \A k \in Nat : g[k] = D(g, k)
  <2>1. \A k \in Nat : g[k] = D(g, k)
    BY <1>6
  <2>2. [k \in Nat |-> g[k]] = [k \in Nat |-> D(g, k)]
    BY <2>1
  <2> QED
    BY <1>6, <2>1, <2>2
<1> QED
  BY <1>2, <1>4, <1>7

LEMMA DecimalIs ==
    ASSUME NEW n \in Nat, n < 10000
    PROVE  /\ n < 10 => Decimal(n) = <<n>>
           /\ 10 <= n /\ n < 100 => Decimal(n) = <<n \div 10, n % 10>>
           /\ 100 <= n /\ n < 1000 => Decimal(n) = <<n \div 100, (n \div 10) % 10, n % 10>>
           /\ 1000 <= n => Decimal(n) =
                <<n \div 1000, (n \div 100) % 10, (n \div 10) % 10, n % 10>>
<1>1. PICK d : AreDigits(d) /\ Decimal(n) = d[n]
  BY DecimalUnfolds
<1> DEFINE One(k) == <<k>>
           A(text, k) == Append(text, k)
<1>2. /\ \A k \in Nat : k < 10 => d[k] = One(k)
      /\ \A k \in Nat : 10 <= k => d[k] = A(d[k \div 10], k % 10)
  <2>1. \A k \in Nat : d[k] = DigitsFrom(d, k)
    BY <1>1 DEF AreDigits
  <2>2. \A k \in Nat : k < 10 => DigitsFrom(d, k) = One(k)
    BY DEF DigitsFrom
  <2>3. \A k \in Nat : 10 <= k => DigitsFrom(d, k) = A(d[k \div 10], k % 10)
    BY DEF DigitsFrom
  <2> HIDE DEF One, A
  <2> QED
    BY <2>1, <2>2, <2>3
<1>3. /\ n \in Nat /\ n \div 10 \in Nat /\ n \div 100 \in Nat /\ n \div 1000 \in Nat
      /\ (n \div 10) \div 10 = n \div 100 /\ (n \div 100) \div 10 = n \div 1000
  OBVIOUS
<1>4. /\ \A a, b : A(One(a), b) = <<a, b>>
      /\ \A a, b, c : A(<<a, b>>, c) = <<a, b, c>>
      /\ \A a, b, c, e : A(<<a, b, c>>, e) = <<a, b, c, e>>
  BY Written
<1>5. \A a : One(a) = <<a>>
  OBVIOUS
<1> HIDE DEF One, A
<1>6. CASE n < 10
  BY <1>1, <1>2, <1>3, <1>5, <1>6
<1>7. CASE 10 <= n /\ n < 100
  <2>1. n \div 10 < 10
    BY <1>7
  <2>2. d[n] = A(One(n \div 10), n % 10)
    BY <1>2, <1>3, <1>7, <2>1
  <2>3. d[n] = <<n \div 10, n % 10>>
    BY <1>4, <2>2
  <2> QED
    BY <1>1, <1>7, <2>3
<1>8. CASE 100 <= n /\ n < 1000
  <2>1. n \div 100 < 10 /\ 10 <= n \div 10 /\ 10 <= n
    BY <1>8
  <2>2. d[n] = A(A(One(n \div 100), (n \div 10) % 10), n % 10)
    BY <1>2, <1>3, <2>1
  <2>3. d[n] = <<n \div 100, (n \div 10) % 10, n % 10>>
    BY <1>4, <2>2
  <2> QED
    BY <1>1, <1>8, <2>3
<1>9. CASE 1000 <= n
  <2>1. n \div 1000 < 10 /\ 10 <= n \div 100 /\ 10 <= n \div 10 /\ 10 <= n
    BY <1>9
  <2>2. d[n] = A(A(A(One(n \div 1000), (n \div 100) % 10), (n \div 10) % 10), n % 10)
    BY <1>2, <1>3, <2>1
  <2>3. d[n] = <<n \div 1000, (n \div 100) % 10, (n \div 10) % 10, n % 10>>
    BY <1>4, <2>2
  <2> QED
    BY <1>1, <1>9, <2>3
<1>10. n < 10 \/ (10 <= n /\ n < 100) \/ (100 <= n /\ n < 1000) \/ 1000 <= n
  BY <1>3
<1> QED
  BY <1>3, <1>6, <1>7, <1>8, <1>9, <1>10

-----------------------------------------------------------------------------
(* A text put together from parts, and the numbers in it.                 *)

(* A concatenation by its places. *)
LEMMA JoinedIs ==
    ASSUME NEW C, NEW s \in Seq(C), NEW t \in Seq(C), NEW u \in Seq(C),
           Len(u) = Len(s) + Len(t),
           \A i \in 1 .. Len(s) : u[i] = s[i],
           \A i \in 1 .. Len(t) : u[Len(s) + i] = t[i]
    PROVE  s \o t = u
<1> DEFINE w == s \o t
<1>1. /\ w \in Seq(C) /\ Len(w) = Len(s) + Len(t)
      /\ \A i \in 1 .. Len(s) : w[i] = s[i]
      /\ \A i \in 1 .. Len(t) : w[Len(s) + i] = t[i]
  BY Joined
<1>2. Len(s) \in Nat /\ Len(t) \in Nat
  OBVIOUS
<1> HIDE DEF w
<1>3. ASSUME NEW i \in 1 .. Len(w) PROVE w[i] = u[i]
  <2>1. CASE i <= Len(s)
    BY <1>1, <1>2, <2>1
  <2>2. CASE i > Len(s)
    <3>1. i - Len(s) \in 1 .. Len(t) /\ i = Len(s) + (i - Len(s))
      BY <1>1, <1>2, <2>2
    <3> QED
      BY <1>1, <3>1
  <2> QED
    BY <1>2, <2>1, <2>2
<1>4. w = u
  BY <1>1, <1>3, SeqEqual
<1> QED
  BY <1>4 DEF w

(* Zeros before digits, where the text is written out. *)
LEMMA ZerosWritten ==
    /\ \A a \in Nat : [i \in 1 .. 1 |-> 0] \o <<a>> = <<0, a>>
    /\ \A a, b \in Nat : [i \in 1 .. 1 |-> 0] \o <<a, b>> = <<0, a, b>>
    /\ \A a, b, c \in Nat : [i \in 1 .. 1 |-> 0] \o <<a, b, c>> = <<0, a, b, c>>
    /\ \A a \in Nat : [i \in 1 .. 2 |-> 0] \o <<a>> = <<0, 0, a>>
    /\ \A a, b \in Nat : [i \in 1 .. 2 |-> 0] \o <<a, b>> = <<0, 0, a, b>>
    /\ \A a \in Nat : [i \in 1 .. 3 |-> 0] \o <<a>> = <<0, 0, 0, a>>
<1>1. ASSUME NEW a \in Nat PROVE [i \in 1 .. 1 |-> 0] \o <<a>> = <<0, a>>
  <2> DEFINE s == [i \in 1 .. 1 |-> 0]
             t == <<a>>
             u == <<0, a>>
  <2>1. s \in Seq(Nat) /\ Len(s) = 1 /\ \A i \in 1 .. 1 : s[i] = 0
    OBVIOUS
  <2>2. t \in Seq(Nat) /\ Len(t) = 1 /\ t[1] = a
    OBVIOUS
  <2>3. u \in Seq(Nat) /\ Len(u) = 2 /\ u[1] = 0 /\ u[2] = a
    OBVIOUS
  <2> HIDE DEF s, t, u
  <2>4. Len(u) = Len(s) + Len(t)
    BY <2>1, <2>2, <2>3
  <2>5. \A i \in 1 .. Len(s) : u[i] = s[i]
    BY <2>1, <2>3
  <2>6. \A i \in 1 .. Len(t) : u[Len(s) + i] = t[i]
    BY <2>1, <2>2, <2>3
  <2>7. s \o t = u
    BY <2>1, <2>2, <2>3, <2>4, <2>5, <2>6, JoinedIs
  <2> QED
    BY <2>7 DEF s, t, u
<1>2. ASSUME NEW a \in Nat, NEW b \in Nat PROVE [i \in 1 .. 1 |-> 0] \o <<a, b>> = <<0, a, b>>
  <2> DEFINE s == [i \in 1 .. 1 |-> 0]
             t == <<a, b>>
             u == <<0, a, b>>
  <2>1. s \in Seq(Nat) /\ Len(s) = 1 /\ \A i \in 1 .. 1 : s[i] = 0
    OBVIOUS
  <2>2. t \in Seq(Nat) /\ Len(t) = 2 /\ t[1] = a /\ t[2] = b
    OBVIOUS
  <2>3. u \in Seq(Nat) /\ Len(u) = 3 /\ u[1] = 0 /\ u[2] = a /\ u[3] = b
    OBVIOUS
  <2> HIDE DEF s, t, u
  <2>4. Len(u) = Len(s) + Len(t)
    BY <2>1, <2>2, <2>3
  <2>5. \A i \in 1 .. Len(s) : u[i] = s[i]
    BY <2>1, <2>3
  <2>6. \A i \in 1 .. Len(t) : u[Len(s) + i] = t[i]
    BY <2>1, <2>2, <2>3
  <2>7. s \o t = u
    BY <2>1, <2>2, <2>3, <2>4, <2>5, <2>6, JoinedIs
  <2> QED
    BY <2>7 DEF s, t, u
<1>3. ASSUME NEW a \in Nat, NEW b \in Nat, NEW c \in Nat
      PROVE  [i \in 1 .. 1 |-> 0] \o <<a, b, c>> = <<0, a, b, c>>
  <2> DEFINE s == [i \in 1 .. 1 |-> 0]
             t == <<a, b, c>>
             u == <<0, a, b, c>>
  <2>1. s \in Seq(Nat) /\ Len(s) = 1 /\ \A i \in 1 .. 1 : s[i] = 0
    OBVIOUS
  <2>2. t \in Seq(Nat) /\ Len(t) = 3 /\ t[1] = a /\ t[2] = b /\ t[3] = c
    OBVIOUS
  <2>3. u \in Seq(Nat) /\ Len(u) = 4 /\ u[1] = 0 /\ u[2] = a /\ u[3] = b /\ u[4] = c
    OBVIOUS
  <2> HIDE DEF s, t, u
  <2>4. Len(u) = Len(s) + Len(t)
    BY <2>1, <2>2, <2>3
  <2>5. \A i \in 1 .. Len(s) : u[i] = s[i]
    BY <2>1, <2>3
  <2>6. \A i \in 1 .. Len(t) : u[Len(s) + i] = t[i]
    BY <2>1, <2>2, <2>3
  <2>7. s \o t = u
    BY <2>1, <2>2, <2>3, <2>4, <2>5, <2>6, JoinedIs
  <2> QED
    BY <2>7 DEF s, t, u
<1>4. ASSUME NEW a \in Nat PROVE [i \in 1 .. 2 |-> 0] \o <<a>> = <<0, 0, a>>
  <2> DEFINE s == [i \in 1 .. 2 |-> 0]
             t == <<a>>
             u == <<0, 0, a>>
  <2>1. s \in Seq(Nat) /\ Len(s) = 2 /\ \A i \in 1 .. 2 : s[i] = 0
    OBVIOUS
  <2>2. t \in Seq(Nat) /\ Len(t) = 1 /\ t[1] = a
    OBVIOUS
  <2>3. u \in Seq(Nat) /\ Len(u) = 3 /\ u[1] = 0 /\ u[2] = 0 /\ u[3] = a
    OBVIOUS
  <2> HIDE DEF s, t, u
  <2>4. Len(u) = Len(s) + Len(t)
    BY <2>1, <2>2, <2>3
  <2>5. \A i \in 1 .. Len(s) : u[i] = s[i]
    BY <2>1, <2>3
  <2>6. \A i \in 1 .. Len(t) : u[Len(s) + i] = t[i]
    BY <2>1, <2>2, <2>3
  <2>7. s \o t = u
    BY <2>1, <2>2, <2>3, <2>4, <2>5, <2>6, JoinedIs
  <2> QED
    BY <2>7 DEF s, t, u
<1>5. ASSUME NEW a \in Nat, NEW b \in Nat PROVE [i \in 1 .. 2 |-> 0] \o <<a, b>> = <<0, 0, a, b>>
  <2> DEFINE s == [i \in 1 .. 2 |-> 0]
             t == <<a, b>>
             u == <<0, 0, a, b>>
  <2>1. s \in Seq(Nat) /\ Len(s) = 2 /\ \A i \in 1 .. 2 : s[i] = 0
    OBVIOUS
  <2>2. t \in Seq(Nat) /\ Len(t) = 2 /\ t[1] = a /\ t[2] = b
    OBVIOUS
  <2>3. u \in Seq(Nat) /\ Len(u) = 4 /\ u[1] = 0 /\ u[2] = 0 /\ u[3] = a /\ u[4] = b
    OBVIOUS
  <2> HIDE DEF s, t, u
  <2>4. Len(u) = Len(s) + Len(t)
    BY <2>1, <2>2, <2>3
  <2>5. \A i \in 1 .. Len(s) : u[i] = s[i]
    BY <2>1, <2>3
  <2>6. \A i \in 1 .. Len(t) : u[Len(s) + i] = t[i]
    BY <2>1, <2>2, <2>3
  <2>7. s \o t = u
    BY <2>1, <2>2, <2>3, <2>4, <2>5, <2>6, JoinedIs
  <2> QED
    BY <2>7 DEF s, t, u
<1>6. ASSUME NEW a \in Nat PROVE [i \in 1 .. 3 |-> 0] \o <<a>> = <<0, 0, 0, a>>
  <2> DEFINE s == [i \in 1 .. 3 |-> 0]
             t == <<a>>
             u == <<0, 0, 0, a>>
  <2>1. s \in Seq(Nat) /\ Len(s) = 3 /\ \A i \in 1 .. 3 : s[i] = 0
    OBVIOUS
  <2>2. t \in Seq(Nat) /\ Len(t) = 1 /\ t[1] = a
    OBVIOUS
  <2>3. u \in Seq(Nat) /\ Len(u) = 4 /\ u[1] = 0 /\ u[2] = 0 /\ u[3] = 0 /\ u[4] = a
    OBVIOUS
  <2> HIDE DEF s, t, u
  <2>4. Len(u) = Len(s) + Len(t)
    BY <2>1, <2>2, <2>3
  <2>5. \A i \in 1 .. Len(s) : u[i] = s[i]
    BY <2>1, <2>3
  <2>6. \A i \in 1 .. Len(t) : u[Len(s) + i] = t[i]
    BY <2>1, <2>2, <2>3
  <2>7. s \o t = u
    BY <2>1, <2>2, <2>3, <2>4, <2>5, <2>6, JoinedIs
  <2> QED
    BY <2>7 DEF s, t, u
<1> QED
  BY <1>1, <1>2, <1>3, <1>4, <1>5, <1>6

(* The places of a number. *)
LEMMA Places ==
    ASSUME NEW v \in Nat
    PROVE  /\ v % 10 \in Nat /\ v % 10 <= 9
           /\ (v \div 10) % 10 \in Nat /\ (v \div 10) % 10 <= 9
           /\ (v \div 100) % 10 \in Nat /\ (v \div 100) % 10 <= 9
           /\ v \div 10 \in Nat /\ v \div 100 \in Nat /\ v \div 1000 \in Nat
           /\ v < 100 => 10 * (v \div 10) + (v % 10) = v
           /\ v < 1000 => 100 * (v \div 100) + 10 * ((v \div 10) % 10) + (v % 10) = v
           /\ 1000 * (v \div 1000) + 100 * ((v \div 100) % 10) + 10 * ((v \div 10) % 10)
                + (v % 10) = v
<1>1. v = 10 * (v \div 10) + (v % 10) /\ v % 10 \in Nat /\ v % 10 <= 9 /\ v \div 10 \in Nat
  OBVIOUS
<1> DEFINE w == v \div 10
<1>2. /\ w = 10 * (v \div 100) + (w % 10)
      /\ w % 10 \in Nat /\ w % 10 <= 9 /\ v \div 100 \in Nat
  OBVIOUS
<1> DEFINE x == v \div 100
<1>3. /\ x = 10 * (v \div 1000) + (x % 10)
      /\ x % 10 \in Nat /\ x % 10 <= 9 /\ v \div 1000 \in Nat
  OBVIOUS
<1> HIDE DEF w, x
<1>4. v = 10 * w + (v % 10) /\ v % 10 \in Nat /\ v % 10 <= 9 /\ w \in Nat
  BY <1>1 DEF w
<1>5. /\ w = 10 * x + (w % 10) /\ w % 10 \in Nat /\ w % 10 <= 9 /\ x \in Nat
  BY <1>2 DEF x
<1> DEFINE a == v % 10
           b == w % 10
           c == x % 10
           e == v \div 1000
<1>6. /\ v = 10 * w + a /\ w = 10 * x + b /\ x = 10 * e + c
      /\ a \in Nat /\ b \in Nat /\ c \in Nat /\ e \in Nat /\ w \in Nat /\ x \in Nat
      /\ a <= 9 /\ b <= 9 /\ c <= 9
  BY <1>3, <1>4, <1>5
<1> HIDE DEF a, b, c, e
<1>7. /\ 10 * w + a = v
      /\ 100 * x + 10 * b + a = v
      /\ 1000 * e + 100 * c + 10 * b + a = v
  BY <1>6
<1> QED
  BY <1>6, <1>7 DEF a, b, c, e, w, x

(* append_zero_padded(): the places of the value, in the width. *)
LEMMA TwoDigits ==
    ASSUME NEW v \in Nat, v < 100
    PROVE  ZeroPadded(v, 2) = <<v \div 10, v % 10>>
<1> DEFINE s == Decimal(v)
<1>1. ZeroPadded(v, 2) = IF Len(s) < 2 THEN [i \in 1 .. 2 - Len(s) |-> 0] \o s ELSE s
  BY DEF ZeroPadded
<1>2. v < 10000
  OBVIOUS
<1> HIDE DEF s
<1>3. CASE v < 10
  <2>1. s = <<v>>
    BY <1>2, <1>3, DecimalIs DEF s
  <2>2. Len(s) = 1
    BY <2>1
  <2>3. ZeroPadded(v, 2) = [i \in 1 .. 1 |-> 0] \o s
    BY <1>1, <2>2
  <2>4. v \in Nat
    OBVIOUS
  <2>5. [i \in 1 .. 1 |-> 0] \o <<v>> = <<0, v>>
    BY <2>4, ZerosWritten
  <2>6. v \div 10 = 0 /\ v % 10 = v
    BY <1>3
  <2> QED
    BY <2>1, <2>3, <2>5, <2>6
<1>4. CASE 10 <= v /\ v < 100
  <2>1. s = <<v \div 10, v % 10>>
    BY <1>2, <1>4, DecimalIs DEF s
  <2>2. Len(s) = 2
    BY <2>1
  <2> QED
    BY <1>1, <2>1, <2>2
<1> QED
  BY <1>3, <1>4

LEMMA ThreeDigits ==
    ASSUME NEW v \in Nat, v < 1000
    PROVE  ZeroPadded(v, 3) = <<v \div 100, (v \div 10) % 10, v % 10>>
<1> DEFINE s == Decimal(v)
<1>1. ZeroPadded(v, 3) = IF Len(s) < 3 THEN [i \in 1 .. 3 - Len(s) |-> 0] \o s ELSE s
  BY DEF ZeroPadded
<1>2. v < 10000
  OBVIOUS
<1> HIDE DEF s
<1>3. CASE v < 10
  <2>1. s = <<v>>
    BY <1>2, <1>3, DecimalIs DEF s
  <2>2. Len(s) = 1
    BY <2>1
  <2>3. ZeroPadded(v, 3) = [i \in 1 .. 2 |-> 0] \o s
    BY <1>1, <2>2
  <2>4. v \in Nat
    OBVIOUS
  <2>5. [i \in 1 .. 2 |-> 0] \o <<v>> = <<0, 0, v>>
    BY <2>4, ZerosWritten
  <2>6. v \div 100 = 0 /\ (v \div 10) % 10 = 0 /\ v % 10 = v
    BY <1>3
  <2> QED
    BY <2>1, <2>3, <2>5, <2>6
<1>4. CASE 10 <= v /\ v < 100
  <2>1. s = <<v \div 10, v % 10>>
    BY <1>2, <1>4, DecimalIs DEF s
  <2>2. Len(s) = 2
    BY <2>1
  <2>3. ZeroPadded(v, 3) = [i \in 1 .. 1 |-> 0] \o s
    BY <1>1, <2>2
  <2>4. v \div 10 \in Nat /\ v % 10 \in Nat
    OBVIOUS
  <2>5. [i \in 1 .. 1 |-> 0] \o <<v \div 10, v % 10>> = <<0, v \div 10, v % 10>>
    BY <2>4, ZerosWritten
  <2>6. v \div 100 = 0 /\ (v \div 10) % 10 = v \div 10
    BY <1>4
  <2> QED
    BY <2>1, <2>3, <2>5, <2>6
<1>5. CASE 100 <= v /\ v < 1000
  <2>1. s = <<v \div 100, (v \div 10) % 10, v % 10>>
    BY <1>2, <1>5, DecimalIs DEF s
  <2>2. Len(s) = 3
    BY <2>1
  <2> QED
    BY <1>1, <2>1, <2>2
<1> QED
  BY <1>3, <1>4, <1>5

FourPlaces(v) == <<v \div 1000, (v \div 100) % 10, (v \div 10) % 10, v % 10>>
LEMMA FourDigits ==
    ASSUME NEW v \in Nat, v < 10000
    PROVE  ZeroPadded(v, 4) = FourPlaces(v)
<1> USE DEF FourPlaces
<1> DEFINE s == Decimal(v)
<1>1. ZeroPadded(v, 4) = IF Len(s) < 4 THEN [i \in 1 .. 4 - Len(s) |-> 0] \o s ELSE s
  BY DEF ZeroPadded
<1>2. v < 10000
  OBVIOUS
<1> HIDE DEF s
<1>3. CASE v < 10
  <2>1. s = <<v>>
    BY <1>2, <1>3, DecimalIs DEF s
  <2>2. Len(s) = 1
    BY <2>1
  <2>3. ZeroPadded(v, 4) = [i \in 1 .. 3 |-> 0] \o s
    BY <1>1, <2>2
  <2>4. v \in Nat
    OBVIOUS
  <2>5. [i \in 1 .. 3 |-> 0] \o <<v>> = <<0, 0, 0, v>>
    BY <2>4, ZerosWritten
  <2>6. v \div 1000 = 0 /\ (v \div 100) % 10 = 0 /\ (v \div 10) % 10 = 0 /\ v % 10 = v
    BY <1>3
  <2> QED
    BY <2>1, <2>3, <2>5, <2>6
<1>4. CASE 10 <= v /\ v < 100
  <2>1. s = <<v \div 10, v % 10>>
    BY <1>2, <1>4, DecimalIs DEF s
  <2>2. Len(s) = 2
    BY <2>1
  <2>3. ZeroPadded(v, 4) = [i \in 1 .. 2 |-> 0] \o s
    BY <1>1, <2>2
  <2>4. v \div 10 \in Nat /\ v % 10 \in Nat
    OBVIOUS
  <2>5. [i \in 1 .. 2 |-> 0] \o <<v \div 10, v % 10>> = <<0, 0, v \div 10, v % 10>>
    BY <2>4, ZerosWritten
  <2>6. v \div 1000 = 0 /\ (v \div 100) % 10 = 0 /\ (v \div 10) % 10 = v \div 10
    BY <1>4
  <2> QED
    BY <2>1, <2>3, <2>5, <2>6
<1>5. CASE 100 <= v /\ v < 1000
  <2>1. s = <<v \div 100, (v \div 10) % 10, v % 10>>
    BY <1>2, <1>5, DecimalIs DEF s
  <2>2. Len(s) = 3
    BY <2>1
  <2>3. ZeroPadded(v, 4) = [i \in 1 .. 1 |-> 0] \o s
    BY <1>1, <2>2
  <2>4. v \div 100 \in Nat /\ (v \div 10) % 10 \in Nat /\ v % 10 \in Nat
    OBVIOUS
  <2>5. [i \in 1 .. 1 |-> 0] \o <<v \div 100, (v \div 10) % 10, v % 10>> =
          <<0, v \div 100, (v \div 10) % 10, v % 10>>
    BY <2>4, ZerosWritten
  <2>6. v \div 1000 = 0 /\ (v \div 100) % 10 = v \div 100
    BY <1>5
  <2> QED
    BY <2>1, <2>3, <2>5, <2>6
<1>6. CASE 1000 <= v
  <2>1. s = <<v \div 1000, (v \div 100) % 10, (v \div 10) % 10, v % 10>>
    BY <1>2, <1>6, DecimalIs DEF s
  <2>2. Len(s) = 4
    BY <2>1
  <2> QED
    BY <1>1, <2>1, <2>2
<1> QED
  BY <1>3, <1>4, <1>5, <1>6

(* The number that stands at some places, digit after digit. *)
IsReading(number, text, first, last) ==
    /\ NumberAt(text, first, last) = number[last]
    /\ number[first - 1] = 0
    /\ \A n \in first .. last : number[n] = 10 * number[n - 1] + text[n]

LEMMA NumberGrows ==
    ASSUME NEW text, NEW first \in Nat, NEW last \in Nat, first <= last,
           \A i \in first .. last : text[i] \in Nat
    PROVE  \E number : IsReading(number, text, first, last)
<1> DEFINE From(w, n) == IF n = first - 1 THEN 0 ELSE 10 * w[n - 1] + text[n]
           Is(w) == w = [n \in first - 1 .. last |-> From(w, n)]
           number == CHOOSE w : Is(w)
           Step == [n \in Nat |-> [m \in Nat |->
                      IF first + n <= last THEN 10 * m + text[first + n] ELSE m]]
<1>1. Step \in [Nat -> [Nat -> Nat]]
  <2>1. ASSUME NEW n \in Nat, NEW m \in Nat, first + n <= last
        PROVE  10 * m + text[first + n] \in Nat
    <3>1. first + n \in first .. last
      BY <2>1
    <3>2. text[first + n] \in Nat
      BY <3>1
    <3> QED
      BY <3>2
  <2> QED
    BY <2>1
<1>2. PICK f : IsIteration(f, Nat, 0, Step)
  <2> HIDE DEF Step
  <2> QED
    BY <1>1, Iteration
<1>3. /\ f \in [Nat -> Nat] /\ f[0] = 0
      /\ \A n \in Nat : first + n <= last => f[n + 1] = 10 * f[n] + text[first + n]
  BY <1>2 DEF IsIteration
<1> HIDE DEF Step
<1> DEFINE w == [n \in first - 1 .. last |-> f[n - (first - 1)]]
<1>4. ASSUME NEW n \in first - 1 .. last PROVE w[n] = From(w, n)
  <2>1. CASE n = first - 1
    BY <1>3, <2>1
  <2>2. CASE n # first - 1
    <3> DEFINE k == n - first
    <3>1. /\ k \in Nat /\ first + k = n /\ n - (first - 1) = k + 1 /\ (n - 1) - (first - 1) = k
          /\ n - 1 \in first - 1 .. last
      BY <2>2
    <3>2. f[k + 1] = 10 * f[k] + text[n]
      BY <1>3, <3>1
    <3>3. w[n] = f[k + 1] /\ w[n - 1] = f[k]
      BY <3>1
    <3> HIDE DEF w, k
    <3> QED
      BY <2>2, <3>2, <3>3
  <2> QED
    BY <2>1, <2>2
<1>5. Is(w)
  <2>1. w = [n \in first - 1 .. last |-> w[n]]
    OBVIOUS
  <2> HIDE DEF w, From
  <2>2. [n \in first - 1 .. last |-> w[n]] = [n \in first - 1 .. last |-> From(w, n)]
    BY <1>4
  <2> QED
    BY <2>1, <2>2
<1>6. Is(number)
  <2> HIDE DEF w, Is
  <2> QED
    BY <1>5
<1>7. NumberAt(text, first, last) = number[last]
  BY DEF NumberAt
<1> HIDE DEF number
<1>8. \A n \in first - 1 .. last : number[n] = From(number, n)
  BY <1>6
<1>9. number[first - 1] = 0
  BY <1>8
<1>10. ASSUME NEW n \in first .. last PROVE number[n] = 10 * number[n - 1] + text[n]
  <2>1. n \in first - 1 .. last /\ n # first - 1
    OBVIOUS
  <2> QED
    BY <1>8, <2>1
<1> QED
  BY <1>7, <1>9, <1>10 DEF IsReading

LEMMA TwoAt ==
    ASSUME NEW text, NEW i \in Nat, NEW j \in Nat,
           j = i + 1,
           text[i] \in Nat, text[j] \in Nat
    PROVE  NumberAt(text, i, j) = 10 * text[i] + text[j]
<1> DEFINE a == text[i]
           b == text[j]
<1>1. PICK number : IsReading(number, text, i, j)
  <2>1. \A n \in i .. j : n \in {i, j}
    OBVIOUS
  <2>2. i \in Nat /\ j \in Nat /\ i <= j
    OBVIOUS
  <2>3. \A n \in i .. j : text[n] \in Nat
    BY <2>1
  <2> HIDE DEF a, b
  <2> QED
    BY <2>2, <2>3, NumberGrows
<1>2. a \in Nat /\ b \in Nat
  OBVIOUS
<1>3. /\ number[i] = 10 * number[i - 1] + a
      /\ number[j] = 10 * number[i] + b
  <2>1. j - 1 = i
    OBVIOUS
  <2>2. i \in i .. j /\ j \in i .. j
    OBVIOUS
  <2> QED
    BY <1>1, <2>1, <2>2 DEF IsReading
<1> HIDE DEF a, b
<1>4. NumberAt(text, i, j) = 10 * a + b
  BY <1>1, <1>2, <1>3 DEF IsReading
<1> QED
  BY <1>4 DEF a, b

LEMMA ThreeAt ==
    ASSUME NEW text, NEW i \in Nat, NEW j \in Nat, NEW k \in Nat,
           j = i + 1, k = i + 2,
           text[i] \in Nat, text[j] \in Nat, text[k] \in Nat
    PROVE  NumberAt(text, i, k) = 100 * text[i] + 10 * text[j] + text[k]
<1> DEFINE a == text[i]
           b == text[j]
           c == text[k]
<1>1. PICK number : IsReading(number, text, i, k)
  <2>1. \A n \in i .. k : n \in {i, j, k}
    OBVIOUS
  <2>2. i \in Nat /\ k \in Nat /\ i <= k
    OBVIOUS
  <2>3. \A n \in i .. k : text[n] \in Nat
    BY <2>1
  <2> HIDE DEF a, b, c
  <2> QED
    BY <2>2, <2>3, NumberGrows
<1>2. a \in Nat /\ b \in Nat /\ c \in Nat
  OBVIOUS
<1>3. /\ number[i] = 10 * number[i - 1] + a
      /\ number[j] = 10 * number[i] + b
      /\ number[k] = 10 * number[j] + c
  <2>1. j - 1 = i /\ k - 1 = j
    OBVIOUS
  <2>2. i \in i .. k /\ j \in i .. k /\ k \in i .. k
    OBVIOUS
  <2> QED
    BY <1>1, <2>1, <2>2 DEF IsReading
<1> HIDE DEF a, b, c
<1>4. NumberAt(text, i, k) = 100 * a + 10 * b + c
  BY <1>1, <1>2, <1>3 DEF IsReading
<1> QED
  BY <1>4 DEF a, b, c

LEMMA FourAt ==
    ASSUME NEW text, NEW i \in Nat, NEW j \in Nat, NEW k \in Nat, NEW l \in Nat,
           j = i + 1, k = i + 2, l = i + 3,
           text[i] \in Nat, text[j] \in Nat, text[k] \in Nat, text[l] \in Nat
    PROVE  NumberAt(text, i, l) = 1000 * text[i] + 100 * text[j] + 10 * text[k] + text[l]
<1> DEFINE a == text[i]
           b == text[j]
           c == text[k]
           e == text[l]
<1>1. PICK number : IsReading(number, text, i, l)
  <2>1. \A n \in i .. l : n \in {i, j, k, l}
    OBVIOUS
  <2>2. i \in Nat /\ l \in Nat /\ i <= l
    OBVIOUS
  <2>3. \A n \in i .. l : text[n] \in Nat
    BY <2>1
  <2> HIDE DEF a, b, c, e
  <2> QED
    BY <2>2, <2>3, NumberGrows
<1>2. a \in Nat /\ b \in Nat /\ c \in Nat /\ e \in Nat
  OBVIOUS
<1>3. /\ number[i] = 10 * number[i - 1] + a
      /\ number[j] = 10 * number[i] + b
      /\ number[k] = 10 * number[j] + c
      /\ number[l] = 10 * number[k] + e
  <2>1. j - 1 = i /\ k - 1 = j /\ l - 1 = k
    OBVIOUS
  <2>2. i \in i .. l /\ j \in i .. l /\ k \in i .. l /\ l \in i .. l
    OBVIOUS
  <2> QED
    BY <1>1, <2>1, <2>2 DEF IsReading
<1> HIDE DEF a, b, c, e
<1>4. NumberAt(text, i, l) = 1000 * a + 100 * b + 10 * c + e
  BY <1>1, <1>2, <1>3 DEF IsReading
<1> QED
  BY <1>4 DEF a, b, c, e

-----------------------------------------------------------------------------
(* The text of an instant.                                                 *)

(* A text after another, and a text of so many characters. *)
Joint(s, t) == s \o t
IsTextOf(s, n) == s \in Seq(Int) /\ Len(s) = n

LEMMA TextsJoined ==
    ASSUME NEW n \in Nat, NEW m \in Nat, NEW s, NEW t, IsTextOf(s, n), IsTextOf(t, m)
    PROVE  IsTextOf(Joint(s, t), n + m)
  BY Joined DEF IsTextOf, Joint

(* What a text begins with, by its parts. *)
LEMMA TextPart ==
    ASSUME NEW n \in Nat, NEW m \in Nat, NEW s, NEW t, NEW text \in Seq(Int),
           IsTextOf(s, n), IsTextOf(t, m), Begins(text, Joint(s, t))
    PROVE  Begins(text, s) /\ \A i \in 1 .. m : text[n + i] = t[i]
<1> DEFINE w == Joint(s, t)
<1>1. s \in Seq(Int) /\ t \in Seq(Int) /\ Len(s) = n /\ Len(t) = m
  BY DEF IsTextOf
<1>2. /\ Len(w) = n + m
      /\ \A i \in 1 .. n : w[i] = s[i]
      /\ \A i \in 1 .. m : w[n + i] = t[i]
  <2>1. /\ Len(s \o t) = Len(s) + Len(t)
        /\ \A i \in 1 .. Len(s) : (s \o t)[i] = s[i]
        /\ \A i \in 1 .. Len(t) : (s \o t)[Len(s) + i] = t[i]
    <3>1. s \in Seq(Int) /\ t \in Seq(Int)
      BY <1>1
    <3> QED
      BY <3>1, Joined
  <2> QED
    BY <1>1, <2>1 DEF Joint
<1>3. Begins(text, w)
  OBVIOUS
<1> HIDE DEF w
<1>4. n + m <= Len(text) /\ \A i \in 1 .. n + m : text[i] = w[i]
  BY <1>2, <1>3 DEF Begins
<1>5. ASSUME NEW i \in 1 .. n PROVE text[i] = s[i]
  BY <1>2, <1>4
<1>6. n <= Len(text)
  <2>1. Len(text) \in Nat
    OBVIOUS
  <2> QED
    BY <1>4, <2>1
<1>7. ASSUME NEW i \in 1 .. m PROVE text[n + i] = t[i]
  <2>1. n + i \in 1 .. n + m
    OBVIOUS
  <2> QED
    BY <1>2, <1>4, <2>1
<1> QED
  BY <1>1, <1>5, <1>6, <1>7 DEF Begins

(* append_json_timestamp(): where everything stands in the text. *)
LaidOut(year, month, day, hour, minute, second, milli) ==
    <<Mark>> \o year \o <<Dash>> \o month \o <<Dash>> \o day \o <<LetterT>>
      \o hour \o <<Colon>> \o minute \o <<Colon>> \o second \o <<Point>>
      \o milli \o <<LetterZ, Mark>>

LEMMA LaidOutIs ==
    ASSUME NEW year, NEW month, NEW day, NEW hour, NEW minute, NEW second, NEW milli,
           IsTextOf(year, 4), IsTextOf(month, 2), IsTextOf(day, 2), IsTextOf(hour, 2),
           IsTextOf(minute, 2), IsTextOf(second, 2), IsTextOf(milli, 3), NEW text,
           text = LaidOut(year, month, day, hour, minute, second, milli)
    PROVE  /\ Len(text) = 26
           /\ text[1] = Mark
           /\ text[2] = year[1] /\ text[3] = year[2] /\ text[4] = year[3] /\ text[5] = year[4]
           /\ text[6] = Dash
           /\ text[7] = month[1] /\ text[8] = month[2]
           /\ text[9] = Dash
           /\ text[10] = day[1] /\ text[11] = day[2]
           /\ text[12] = LetterT
           /\ text[13] = hour[1] /\ text[14] = hour[2]
           /\ text[15] = Colon
           /\ text[16] = minute[1] /\ text[17] = minute[2]
           /\ text[18] = Colon
           /\ text[19] = second[1] /\ text[20] = second[2]
           /\ text[21] = Point
           /\ text[22] = milli[1] /\ text[23] = milli[2] /\ text[24] = milli[3]
           /\ text[25] = LetterZ /\ text[26] = Mark
<1> DEFINE mark == <<Mark>>
           dash == <<Dash>>
           letter == <<LetterT>>
           colon == <<Colon>>
           point == <<Point>>
           end == <<LetterZ, Mark>>
<1>1. /\ mark \in Seq(Int) /\ Len(mark) = 1 /\ mark[1] = Mark
      /\ dash \in Seq(Int) /\ Len(dash) = 1 /\ dash[1] = Dash
      /\ letter \in Seq(Int) /\ Len(letter) = 1 /\ letter[1] = LetterT
      /\ colon \in Seq(Int) /\ Len(colon) = 1 /\ colon[1] = Colon
      /\ point \in Seq(Int) /\ Len(point) = 1 /\ point[1] = Point
      /\ end \in Seq(Int) /\ Len(end) = 2 /\ end[1] = LetterZ /\ end[2] = Mark
  BY DEF Mark, Dash, LetterT, LetterZ, Colon, Point
<1> DEFINE p1 == mark
           p2 == Joint(p1, year)
           p3 == Joint(p2, dash)
           p4 == Joint(p3, month)
           p5 == Joint(p4, dash)
           p6 == Joint(p5, day)
           p7 == Joint(p6, letter)
           p8 == Joint(p7, hour)
           p9 == Joint(p8, colon)
           p10 == Joint(p9, minute)
           p11 == Joint(p10, colon)
           p12 == Joint(p11, second)
           p13 == Joint(p12, point)
           p14 == Joint(p13, milli)
           p15 == Joint(p14, end)
<1>3. text = p15
  BY DEF LaidOut, Joint
<1> HIDE DEF mark, dash, letter, colon, point, end
<1>4. IsTextOf(p1, 1)
  BY <1>1 DEF IsTextOf
<1> HIDE DEF p1
<1>5. IsTextOf(p2, 5)
  <2>1. IsTextOf(year, 4)
    BY <1>1 DEF IsTextOf
  <2>2. IsTextOf(p2, 1 + 4)
    BY <1>4, <2>1, TextsJoined
  <2>3. 1 + 4 = 5
    OBVIOUS
  <2> QED
    BY <2>2, <2>3
<1> HIDE DEF p2
<1>6. IsTextOf(p3, 6)
  <2>1. IsTextOf(dash, 1)
    BY <1>1 DEF IsTextOf
  <2>2. IsTextOf(p3, 5 + 1)
    BY <1>5, <2>1, TextsJoined
  <2>3. 5 + 1 = 6
    OBVIOUS
  <2> QED
    BY <2>2, <2>3
<1> HIDE DEF p3
<1>7. IsTextOf(p4, 8)
  <2>1. IsTextOf(month, 2)
    BY <1>1 DEF IsTextOf
  <2>2. IsTextOf(p4, 6 + 2)
    BY <1>6, <2>1, TextsJoined
  <2>3. 6 + 2 = 8
    OBVIOUS
  <2> QED
    BY <2>2, <2>3
<1> HIDE DEF p4
<1>8. IsTextOf(p5, 9)
  <2>1. IsTextOf(dash, 1)
    BY <1>1 DEF IsTextOf
  <2>2. IsTextOf(p5, 8 + 1)
    BY <1>7, <2>1, TextsJoined
  <2>3. 8 + 1 = 9
    OBVIOUS
  <2> QED
    BY <2>2, <2>3
<1> HIDE DEF p5
<1>9. IsTextOf(p6, 11)
  <2>1. IsTextOf(day, 2)
    BY <1>1 DEF IsTextOf
  <2>2. IsTextOf(p6, 9 + 2)
    BY <1>8, <2>1, TextsJoined
  <2>3. 9 + 2 = 11
    OBVIOUS
  <2> QED
    BY <2>2, <2>3
<1> HIDE DEF p6
<1>10. IsTextOf(p7, 12)
  <2>1. IsTextOf(letter, 1)
    BY <1>1 DEF IsTextOf
  <2>2. IsTextOf(p7, 11 + 1)
    BY <1>9, <2>1, TextsJoined
  <2>3. 11 + 1 = 12
    OBVIOUS
  <2> QED
    BY <2>2, <2>3
<1> HIDE DEF p7
<1>11. IsTextOf(p8, 14)
  <2>1. IsTextOf(hour, 2)
    BY <1>1 DEF IsTextOf
  <2>2. IsTextOf(p8, 12 + 2)
    BY <1>10, <2>1, TextsJoined
  <2>3. 12 + 2 = 14
    OBVIOUS
  <2> QED
    BY <2>2, <2>3
<1> HIDE DEF p8
<1>12. IsTextOf(p9, 15)
  <2>1. IsTextOf(colon, 1)
    BY <1>1 DEF IsTextOf
  <2>2. IsTextOf(p9, 14 + 1)
    BY <1>11, <2>1, TextsJoined
  <2>3. 14 + 1 = 15
    OBVIOUS
  <2> QED
    BY <2>2, <2>3
<1> HIDE DEF p9
<1>13. IsTextOf(p10, 17)
  <2>1. IsTextOf(minute, 2)
    BY <1>1 DEF IsTextOf
  <2>2. IsTextOf(p10, 15 + 2)
    BY <1>12, <2>1, TextsJoined
  <2>3. 15 + 2 = 17
    OBVIOUS
  <2> QED
    BY <2>2, <2>3
<1> HIDE DEF p10
<1>14. IsTextOf(p11, 18)
  <2>1. IsTextOf(colon, 1)
    BY <1>1 DEF IsTextOf
  <2>2. IsTextOf(p11, 17 + 1)
    BY <1>13, <2>1, TextsJoined
  <2>3. 17 + 1 = 18
    OBVIOUS
  <2> QED
    BY <2>2, <2>3
<1> HIDE DEF p11
<1>15. IsTextOf(p12, 20)
  <2>1. IsTextOf(second, 2)
    BY <1>1 DEF IsTextOf
  <2>2. IsTextOf(p12, 18 + 2)
    BY <1>14, <2>1, TextsJoined
  <2>3. 18 + 2 = 20
    OBVIOUS
  <2> QED
    BY <2>2, <2>3
<1> HIDE DEF p12
<1>16. IsTextOf(p13, 21)
  <2>1. IsTextOf(point, 1)
    BY <1>1 DEF IsTextOf
  <2>2. IsTextOf(p13, 20 + 1)
    BY <1>15, <2>1, TextsJoined
  <2>3. 20 + 1 = 21
    OBVIOUS
  <2> QED
    BY <2>2, <2>3
<1> HIDE DEF p13
<1>17. IsTextOf(p14, 24)
  <2>1. IsTextOf(milli, 3)
    BY <1>1 DEF IsTextOf
  <2>2. IsTextOf(p14, 21 + 3)
    BY <1>16, <2>1, TextsJoined
  <2>3. 21 + 3 = 24
    OBVIOUS
  <2> QED
    BY <2>2, <2>3
<1> HIDE DEF p14
<1>18. IsTextOf(p15, 26)
  <2>1. IsTextOf(end, 2)
    BY <1>1 DEF IsTextOf
  <2>2. IsTextOf(p15, 24 + 2)
    BY <1>17, <2>1, TextsJoined
  <2>3. 24 + 2 = 26
    OBVIOUS
  <2> QED
    BY <2>2, <2>3
<1> HIDE DEF p15
<1>19. text \in Seq(Int) /\ Len(text) = 26 /\ Begins(text, p15)
  BY <1>3, <1>18 DEF Begins, IsTextOf
<1>20. /\ Begins(text, p14)
      /\ text[25] = LetterZ /\ text[26] = Mark
  <2>1. IsTextOf(end, 2) /\ IsTextOf(p14, 24)
    BY <1>1, <1>17 DEF IsTextOf
  <2>2. Begins(text, Joint(p14, end))
    BY <1>19 DEF p15
  <2>3. Begins(text, p14) /\ \A i \in 1 .. 2 : text[24 + i] = end[i]
    BY <1>19, <2>1, <2>2, TextPart
  <2> QED
    BY <1>1, <2>3
<1>21. /\ Begins(text, p13)
      /\ text[22] = milli[1] /\ text[23] = milli[2] /\ text[24] = milli[3]
  <2>1. IsTextOf(milli, 3) /\ IsTextOf(p13, 21)
    BY <1>1, <1>16 DEF IsTextOf
  <2>2. Begins(text, Joint(p13, milli))
    BY <1>20 DEF p14
  <2>3. Begins(text, p13) /\ \A i \in 1 .. 3 : text[21 + i] = milli[i]
    BY <1>19, <2>1, <2>2, TextPart
  <2> QED
    BY <1>1, <2>3
<1>22. /\ Begins(text, p12)
      /\ text[21] = Point
  <2>1. IsTextOf(point, 1) /\ IsTextOf(p12, 20)
    BY <1>1, <1>15 DEF IsTextOf
  <2>2. Begins(text, Joint(p12, point))
    BY <1>21 DEF p13
  <2>3. Begins(text, p12) /\ \A i \in 1 .. 1 : text[20 + i] = point[i]
    BY <1>19, <2>1, <2>2, TextPart
  <2> QED
    BY <1>1, <2>3
<1>23. /\ Begins(text, p11)
      /\ text[19] = second[1] /\ text[20] = second[2]
  <2>1. IsTextOf(second, 2) /\ IsTextOf(p11, 18)
    BY <1>1, <1>14 DEF IsTextOf
  <2>2. Begins(text, Joint(p11, second))
    BY <1>22 DEF p12
  <2>3. Begins(text, p11) /\ \A i \in 1 .. 2 : text[18 + i] = second[i]
    BY <1>19, <2>1, <2>2, TextPart
  <2> QED
    BY <1>1, <2>3
<1>24. /\ Begins(text, p10)
      /\ text[18] = Colon
  <2>1. IsTextOf(colon, 1) /\ IsTextOf(p10, 17)
    BY <1>1, <1>13 DEF IsTextOf
  <2>2. Begins(text, Joint(p10, colon))
    BY <1>23 DEF p11
  <2>3. Begins(text, p10) /\ \A i \in 1 .. 1 : text[17 + i] = colon[i]
    BY <1>19, <2>1, <2>2, TextPart
  <2> QED
    BY <1>1, <2>3
<1>25. /\ Begins(text, p9)
      /\ text[16] = minute[1] /\ text[17] = minute[2]
  <2>1. IsTextOf(minute, 2) /\ IsTextOf(p9, 15)
    BY <1>1, <1>12 DEF IsTextOf
  <2>2. Begins(text, Joint(p9, minute))
    BY <1>24 DEF p10
  <2>3. Begins(text, p9) /\ \A i \in 1 .. 2 : text[15 + i] = minute[i]
    BY <1>19, <2>1, <2>2, TextPart
  <2> QED
    BY <1>1, <2>3
<1>26. /\ Begins(text, p8)
      /\ text[15] = Colon
  <2>1. IsTextOf(colon, 1) /\ IsTextOf(p8, 14)
    BY <1>1, <1>11 DEF IsTextOf
  <2>2. Begins(text, Joint(p8, colon))
    BY <1>25 DEF p9
  <2>3. Begins(text, p8) /\ \A i \in 1 .. 1 : text[14 + i] = colon[i]
    BY <1>19, <2>1, <2>2, TextPart
  <2> QED
    BY <1>1, <2>3
<1>27. /\ Begins(text, p7)
      /\ text[13] = hour[1] /\ text[14] = hour[2]
  <2>1. IsTextOf(hour, 2) /\ IsTextOf(p7, 12)
    BY <1>1, <1>10 DEF IsTextOf
  <2>2. Begins(text, Joint(p7, hour))
    BY <1>26 DEF p8
  <2>3. Begins(text, p7) /\ \A i \in 1 .. 2 : text[12 + i] = hour[i]
    BY <1>19, <2>1, <2>2, TextPart
  <2> QED
    BY <1>1, <2>3
<1>28. /\ Begins(text, p6)
      /\ text[12] = LetterT
  <2>1. IsTextOf(letter, 1) /\ IsTextOf(p6, 11)
    BY <1>1, <1>9 DEF IsTextOf
  <2>2. Begins(text, Joint(p6, letter))
    BY <1>27 DEF p7
  <2>3. Begins(text, p6) /\ \A i \in 1 .. 1 : text[11 + i] = letter[i]
    BY <1>19, <2>1, <2>2, TextPart
  <2> QED
    BY <1>1, <2>3
<1>29. /\ Begins(text, p5)
      /\ text[10] = day[1] /\ text[11] = day[2]
  <2>1. IsTextOf(day, 2) /\ IsTextOf(p5, 9)
    BY <1>1, <1>8 DEF IsTextOf
  <2>2. Begins(text, Joint(p5, day))
    BY <1>28 DEF p6
  <2>3. Begins(text, p5) /\ \A i \in 1 .. 2 : text[9 + i] = day[i]
    BY <1>19, <2>1, <2>2, TextPart
  <2> QED
    BY <1>1, <2>3
<1>30. /\ Begins(text, p4)
      /\ text[9] = Dash
  <2>1. IsTextOf(dash, 1) /\ IsTextOf(p4, 8)
    BY <1>1, <1>7 DEF IsTextOf
  <2>2. Begins(text, Joint(p4, dash))
    BY <1>29 DEF p5
  <2>3. Begins(text, p4) /\ \A i \in 1 .. 1 : text[8 + i] = dash[i]
    BY <1>19, <2>1, <2>2, TextPart
  <2> QED
    BY <1>1, <2>3
<1>31. /\ Begins(text, p3)
      /\ text[7] = month[1] /\ text[8] = month[2]
  <2>1. IsTextOf(month, 2) /\ IsTextOf(p3, 6)
    BY <1>1, <1>6 DEF IsTextOf
  <2>2. Begins(text, Joint(p3, month))
    BY <1>30 DEF p4
  <2>3. Begins(text, p3) /\ \A i \in 1 .. 2 : text[6 + i] = month[i]
    BY <1>19, <2>1, <2>2, TextPart
  <2> QED
    BY <1>1, <2>3
<1>32. /\ Begins(text, p2)
      /\ text[6] = Dash
  <2>1. IsTextOf(dash, 1) /\ IsTextOf(p2, 5)
    BY <1>1, <1>5 DEF IsTextOf
  <2>2. Begins(text, Joint(p2, dash))
    BY <1>31 DEF p3
  <2>3. Begins(text, p2) /\ \A i \in 1 .. 1 : text[5 + i] = dash[i]
    BY <1>19, <2>1, <2>2, TextPart
  <2> QED
    BY <1>1, <2>3
<1>33. /\ Begins(text, p1)
      /\ text[2] = year[1] /\ text[3] = year[2] /\ text[4] = year[3] /\ text[5] = year[4]
  <2>1. IsTextOf(year, 4) /\ IsTextOf(p1, 1)
    BY <1>1, <1>4 DEF IsTextOf
  <2>2. Begins(text, Joint(p1, year))
    BY <1>32 DEF p2
  <2>3. Begins(text, p1) /\ \A i \in 1 .. 4 : text[1 + i] = year[i]
    BY <1>19, <2>1, <2>2, TextPart
  <2> QED
    BY <1>1, <2>3
<1>34. text[1] = Mark
  BY <1>1, <1>4, <1>33 DEF Begins, IsTextOf, p1
<1>35. Len(text) = 26
  BY <1>3, <1>18 DEF IsTextOf
<1> QED
  BY <1>20, <1>21, <1>22, <1>23, <1>24, <1>25, <1>26, <1>27, <1>28, <1>29, <1>30, <1>31,
     <1>32, <1>33, <1>34, <1>35

(* The text of a value in a width reads as the value. *)
LEMMA TwoRead ==
    ASSUME NEW v \in Nat, v < 100
    PROVE  /\ ZeroPadded(v, 2) \in Seq(Int) /\ Len(ZeroPadded(v, 2)) = 2
           /\ \A i \in 1 .. 2 : ZeroPadded(v, 2)[i] \in 0 .. 9
           /\ 10 * ZeroPadded(v, 2)[1] + ZeroPadded(v, 2)[2] = v
<1> DEFINE a == v \div 10
           b == v % 10
           z == <<a, b>>
<1>1. ZeroPadded(v, 2) = z
  <2>1. v \in Nat /\ v < 100
    OBVIOUS
  <2> QED
    BY <2>1, TwoDigits
<1>2. /\ a \in 0 .. 9 /\ b \in 0 .. 9
      /\ 10 * a + b = v
  BY Places
<1> HIDE DEF a, b
<1>3. z \in Seq(Int) /\ Len(z) = 2 /\ z[1] = a /\ z[2] = b
  BY <1>2
<1> HIDE DEF z
<1>4. \A i \in 1 .. 2 : i \in {1, 2}
  OBVIOUS
<1>5. \A i \in 1 .. 2 : z[i] \in 0 .. 9
  BY <1>2, <1>3, <1>4
<1>6. ZeroPadded(v, 2) \in Seq(Int) /\ Len(ZeroPadded(v, 2)) = 2
  BY <1>1, <1>3
<1>7. \A i \in 1 .. 2 : ZeroPadded(v, 2)[i] \in 0 .. 9
  BY <1>1, <1>5
<1>8. 10 * ZeroPadded(v, 2)[1] + ZeroPadded(v, 2)[2] = v
  BY <1>1, <1>2, <1>3
<1> QED
  BY <1>6, <1>7, <1>8

LEMMA ThreeRead ==
    ASSUME NEW v \in Nat, v < 1000
    PROVE  /\ ZeroPadded(v, 3) \in Seq(Int) /\ Len(ZeroPadded(v, 3)) = 3
           /\ \A i \in 1 .. 3 : ZeroPadded(v, 3)[i] \in 0 .. 9
           /\ 100 * ZeroPadded(v, 3)[1] + 10 * ZeroPadded(v, 3)[2] + ZeroPadded(v, 3)[3] = v
<1> DEFINE a == v \div 100
           b == (v \div 10) % 10
           c == v % 10
           z == <<a, b, c>>
<1>1. ZeroPadded(v, 3) = z
  <2>1. v \in Nat /\ v < 1000
    OBVIOUS
  <2> QED
    BY <2>1, ThreeDigits
<1>2. /\ a \in 0 .. 9 /\ b \in 0 .. 9 /\ c \in 0 .. 9
      /\ 100 * a + 10 * b + c = v
  BY Places
<1> HIDE DEF a, b, c
<1>3. z \in Seq(Int) /\ Len(z) = 3 /\ z[1] = a /\ z[2] = b /\ z[3] = c
  BY <1>2
<1> HIDE DEF z
<1>4. \A i \in 1 .. 3 : i \in {1, 2, 3}
  OBVIOUS
<1>5. \A i \in 1 .. 3 : z[i] \in 0 .. 9
  BY <1>2, <1>3, <1>4
<1>6. ZeroPadded(v, 3) \in Seq(Int) /\ Len(ZeroPadded(v, 3)) = 3
  BY <1>1, <1>3
<1>7. \A i \in 1 .. 3 : ZeroPadded(v, 3)[i] \in 0 .. 9
  BY <1>1, <1>5
<1>8. 100 * ZeroPadded(v, 3)[1] + 10 * ZeroPadded(v, 3)[2] + ZeroPadded(v, 3)[3] = v
  BY <1>1, <1>2, <1>3
<1> QED
  BY <1>6, <1>7, <1>8

LEMMA FourRead ==
    ASSUME NEW v \in Nat, v < 10000
    PROVE  /\ ZeroPadded(v, 4) \in Seq(Int) /\ Len(ZeroPadded(v, 4)) = 4
           /\ \A i \in 1 .. 4 : ZeroPadded(v, 4)[i] \in 0 .. 9
           /\ 1000 * ZeroPadded(v, 4)[1] + 100 * ZeroPadded(v, 4)[2] + 10 * ZeroPadded(v, 4)[3]
                + ZeroPadded(v, 4)[4] = v
<1> DEFINE a == v \div 1000
           b == (v \div 100) % 10
           c == (v \div 10) % 10
           e == v % 10
           z == <<a, b, c, e>>
<1> HIDE DEF a, b, c, e
<1>1. ZeroPadded(v, 4) = z
  <2>1. ZeroPadded(v, 4) = FourPlaces(v)
    BY FourDigits
  <2> QED
    BY <2>1 DEF FourPlaces, a, b, c, e
<1> USE DEF a, b, c, e
<1>2. /\ a \in 0 .. 9 /\ b \in 0 .. 9 /\ c \in 0 .. 9 /\ e \in 0 .. 9
      /\ 1000 * a + 100 * b + 10 * c + e = v
  BY Places
<1> HIDE DEF a, b, c, e
<1>3. z \in Seq(Int) /\ Len(z) = 4 /\ z[1] = a /\ z[2] = b /\ z[3] = c /\ z[4] = e
  BY <1>2
<1> HIDE DEF z
<1>4. \A i \in 1 .. 4 : i \in {1, 2, 3, 4}
  OBVIOUS
<1>5. \A i \in 1 .. 4 : z[i] \in 0 .. 9
  BY <1>2, <1>3, <1>4
<1>6. ZeroPadded(v, 4) \in Seq(Int) /\ Len(ZeroPadded(v, 4)) = 4
  BY <1>1, <1>3
<1>7. \A i \in 1 .. 4 : ZeroPadded(v, 4)[i] \in 0 .. 9
  BY <1>1, <1>5
<1>8. 1000 * ZeroPadded(v, 4)[1] + 100 * ZeroPadded(v, 4)[2] + 10 * ZeroPadded(v, 4)[3]
        + ZeroPadded(v, 4)[4] = v
  <2>1. 1000 * z[1] + 100 * z[2] + 10 * z[3] + z[4] = v
    <3>1. z[1] = a /\ z[2] = b /\ z[3] = c /\ z[4] = e
      BY <1>3
    <3>2. 1000 * a + 100 * b + 10 * c + e = v
      BY <1>2
    <3> QED
      BY <3>1, <3>2
  <2> QED
    BY <1>1, <2>1
<1> QED
  BY <1>6, <1>7, <1>8

(* append_json_timestamp(): the fields of an instant, each in its place.  *)
FieldsText(Y, Mo, D, H, Mi, S, K) ==
    LaidOut(ZeroPadded(Y, 4), ZeroPadded(Mo, 2), ZeroPadded(D, 2), ZeroPadded(H, 2),
            ZeroPadded(Mi, 2), ZeroPadded(S, 2), ZeroPadded(K, 3))
ReadsAs(text, Y, Mo, D, H, Mi, S, K) ==
    /\ IsDateTime(text)
    /\ NumberAt(text, 2, 5) = Y /\ NumberAt(text, 7, 8) = Mo /\ NumberAt(text, 10, 11) = D
    /\ NumberAt(text, 13, 14) = H /\ NumberAt(text, 16, 17) = Mi
    /\ NumberAt(text, 19, 20) = S /\ NumberAt(text, 22, 24) = K

LEMMA FieldsRead ==
    ASSUME NEW Y \in Nat, Y < 10000, NEW Mo \in Nat, Mo < 100, NEW D \in Nat, D < 100,
           NEW H \in Nat, H < 100, NEW Mi \in Nat, Mi < 100, NEW S \in Nat, S < 100,
           NEW K \in Nat, K < 1000
    PROVE  ReadsAs(FieldsText(Y, Mo, D, H, Mi, S, K), Y, Mo, D, H, Mi, S, K)
<1> DEFINE year == ZeroPadded(Y, 4)
           month == ZeroPadded(Mo, 2)
           day == ZeroPadded(D, 2)
           hour == ZeroPadded(H, 2)
           minute == ZeroPadded(Mi, 2)
           second == ZeroPadded(S, 2)
           milli == ZeroPadded(K, 3)
           text == FieldsText(Y, Mo, D, H, Mi, S, K)
<1>1. /\ year \in Seq(Int) /\ Len(year) = 4 /\ \A i \in 1 .. 4 : year[i] \in 0 .. 9
      /\ 1000 * year[1] + 100 * year[2] + 10 * year[3] + year[4] = Y
  BY FourRead
<1>2. /\ month \in Seq(Int) /\ Len(month) = 2 /\ \A i \in 1 .. 2 : month[i] \in 0 .. 9
      /\ 10 * month[1] + month[2] = Mo
  BY TwoRead
<1>3. /\ day \in Seq(Int) /\ Len(day) = 2 /\ \A i \in 1 .. 2 : day[i] \in 0 .. 9
      /\ 10 * day[1] + day[2] = D
  BY TwoRead
<1>4. /\ hour \in Seq(Int) /\ Len(hour) = 2 /\ \A i \in 1 .. 2 : hour[i] \in 0 .. 9
      /\ 10 * hour[1] + hour[2] = H
  BY TwoRead
<1>5. /\ minute \in Seq(Int) /\ Len(minute) = 2 /\ \A i \in 1 .. 2 : minute[i] \in 0 .. 9
      /\ 10 * minute[1] + minute[2] = Mi
  BY TwoRead
<1>6. /\ second \in Seq(Int) /\ Len(second) = 2 /\ \A i \in 1 .. 2 : second[i] \in 0 .. 9
      /\ 10 * second[1] + second[2] = S
  BY TwoRead
<1>7. /\ milli \in Seq(Int) /\ Len(milli) = 3 /\ \A i \in 1 .. 3 : milli[i] \in 0 .. 9
      /\ 100 * milli[1] + 10 * milli[2] + milli[3] = K
  BY ThreeRead
<1>8. text = LaidOut(year, month, day, hour, minute, second, milli)
  BY DEF FieldsText
<1> HIDE DEF year, month, day, hour, minute, second, milli, text
<1>9. /\ Len(text) = 26
      /\ text[1] = Mark
      /\ text[2] = year[1] /\ text[3] = year[2] /\ text[4] = year[3] /\ text[5] = year[4]
      /\ text[6] = Dash
      /\ text[7] = month[1] /\ text[8] = month[2]
      /\ text[9] = Dash
      /\ text[10] = day[1] /\ text[11] = day[2]
      /\ text[12] = LetterT
      /\ text[13] = hour[1] /\ text[14] = hour[2]
      /\ text[15] = Colon
      /\ text[16] = minute[1] /\ text[17] = minute[2]
      /\ text[18] = Colon
      /\ text[19] = second[1] /\ text[20] = second[2]
      /\ text[21] = Point
      /\ text[22] = milli[1] /\ text[23] = milli[2] /\ text[24] = milli[3]
      /\ text[25] = LetterZ
      /\ text[26] = Mark
  <2>1. /\ IsTextOf(year, 4) /\ IsTextOf(month, 2) /\ IsTextOf(day, 2) /\ IsTextOf(hour, 2)
        /\ IsTextOf(minute, 2) /\ IsTextOf(second, 2) /\ IsTextOf(milli, 3)
    BY <1>1, <1>2, <1>3, <1>4, <1>5, <1>6, <1>7 DEF IsTextOf
  <2> QED
    BY <1>8, <2>1, LaidOutIs
<1>10. /\ text[2] \in 0 .. 9 /\ text[3] \in 0 .. 9 /\ text[4] \in 0 .. 9 /\ text[5] \in 0 .. 9
      /\ NumberAt(text, 2, 5) = Y
  <2>1. text[2] = year[1] /\ text[3] = year[2] /\ text[4] = year[3] /\ text[5] = year[4]
    BY <1>9
  <2>2. year[1] \in 0 .. 9 /\ year[2] \in 0 .. 9 /\ year[3] \in 0 .. 9 /\ year[4] \in 0 .. 9
    BY <1>1
  <2>3. text[2] \in Nat /\ text[3] \in Nat /\ text[4] \in Nat /\ text[5] \in Nat
    BY <2>1, <2>2
  <2>4. NumberAt(text, 2, 5) = 1000 * text[2] + 100 * text[3] + 10 * text[4] + text[5]
    BY <2>3, FourAt
  <2>5. 1000 * year[1] + 100 * year[2] + 10 * year[3] + year[4] = Y
    BY <1>1
  <2> QED
    BY <2>1, <2>2, <2>4, <2>5
<1>11. /\ text[7] \in 0 .. 9 /\ text[8] \in 0 .. 9
      /\ NumberAt(text, 7, 8) = Mo
  <2>1. text[7] = month[1] /\ text[8] = month[2]
    BY <1>9
  <2>2. month[1] \in 0 .. 9 /\ month[2] \in 0 .. 9
    BY <1>2
  <2>3. text[7] \in Nat /\ text[8] \in Nat
    BY <2>1, <2>2
  <2>4. NumberAt(text, 7, 8) = 10 * text[7] + text[8]
    BY <2>3, TwoAt
  <2>5. 10 * month[1] + month[2] = Mo
    BY <1>2
  <2> QED
    BY <2>1, <2>2, <2>4, <2>5
<1>12. /\ text[10] \in 0 .. 9 /\ text[11] \in 0 .. 9
      /\ NumberAt(text, 10, 11) = D
  <2>1. text[10] = day[1] /\ text[11] = day[2]
    BY <1>9
  <2>2. day[1] \in 0 .. 9 /\ day[2] \in 0 .. 9
    BY <1>3
  <2>3. text[10] \in Nat /\ text[11] \in Nat
    BY <2>1, <2>2
  <2>4. NumberAt(text, 10, 11) = 10 * text[10] + text[11]
    BY <2>3, TwoAt
  <2>5. 10 * day[1] + day[2] = D
    BY <1>3
  <2> QED
    BY <2>1, <2>2, <2>4, <2>5
<1>13. /\ text[13] \in 0 .. 9 /\ text[14] \in 0 .. 9
      /\ NumberAt(text, 13, 14) = H
  <2>1. text[13] = hour[1] /\ text[14] = hour[2]
    BY <1>9
  <2>2. hour[1] \in 0 .. 9 /\ hour[2] \in 0 .. 9
    BY <1>4
  <2>3. text[13] \in Nat /\ text[14] \in Nat
    BY <2>1, <2>2
  <2>4. NumberAt(text, 13, 14) = 10 * text[13] + text[14]
    BY <2>3, TwoAt
  <2>5. 10 * hour[1] + hour[2] = H
    BY <1>4
  <2> QED
    BY <2>1, <2>2, <2>4, <2>5
<1>14. /\ text[16] \in 0 .. 9 /\ text[17] \in 0 .. 9
      /\ NumberAt(text, 16, 17) = Mi
  <2>1. text[16] = minute[1] /\ text[17] = minute[2]
    BY <1>9
  <2>2. minute[1] \in 0 .. 9 /\ minute[2] \in 0 .. 9
    BY <1>5
  <2>3. text[16] \in Nat /\ text[17] \in Nat
    BY <2>1, <2>2
  <2>4. NumberAt(text, 16, 17) = 10 * text[16] + text[17]
    BY <2>3, TwoAt
  <2>5. 10 * minute[1] + minute[2] = Mi
    BY <1>5
  <2> QED
    BY <2>1, <2>2, <2>4, <2>5
<1>15. /\ text[19] \in 0 .. 9 /\ text[20] \in 0 .. 9
      /\ NumberAt(text, 19, 20) = S
  <2>1. text[19] = second[1] /\ text[20] = second[2]
    BY <1>9
  <2>2. second[1] \in 0 .. 9 /\ second[2] \in 0 .. 9
    BY <1>6
  <2>3. text[19] \in Nat /\ text[20] \in Nat
    BY <2>1, <2>2
  <2>4. NumberAt(text, 19, 20) = 10 * text[19] + text[20]
    BY <2>3, TwoAt
  <2>5. 10 * second[1] + second[2] = S
    BY <1>6
  <2> QED
    BY <2>1, <2>2, <2>4, <2>5
<1>16. /\ text[22] \in 0 .. 9 /\ text[23] \in 0 .. 9 /\ text[24] \in 0 .. 9
      /\ NumberAt(text, 22, 24) = K
  <2>1. text[22] = milli[1] /\ text[23] = milli[2] /\ text[24] = milli[3]
    BY <1>9
  <2>2. milli[1] \in 0 .. 9 /\ milli[2] \in 0 .. 9 /\ milli[3] \in 0 .. 9
    BY <1>7
  <2>3. text[22] \in Nat /\ text[23] \in Nat /\ text[24] \in Nat
    BY <2>1, <2>2
  <2>4. NumberAt(text, 22, 24) = 100 * text[22] + 10 * text[23] + text[24]
    BY <2>3, ThreeAt
  <2>5. 100 * milli[1] + 10 * milli[2] + milli[3] = K
    BY <1>7
  <2> QED
    BY <2>1, <2>2, <2>4, <2>5
<1>17. IsDateTime(text)
  <2>1. Len(Layout) = 26 /\ DOMAIN Layout = 1 .. 26
    BY DEF Layout
  <2>2. /\ Layout[1] = {Mark} /\ Layout[6] = {Dash} /\ Layout[9] = {Dash}
        /\ Layout[12] = {LetterT} /\ Layout[15] = {Colon} /\ Layout[18] = {Colon}
        /\ Layout[21] = {Point} /\ Layout[25] = {LetterZ} /\ Layout[26] = {Mark}
    BY DEF Layout
  <2>3. \A i \in 1 .. 26 \ {1, 6, 9, 12, 15, 18, 21, 25, 26} : Layout[i] = 0 .. 9
    BY DEF Layout
  <2>4. \A i \in {1, 6, 9, 12, 15, 18, 21, 25, 26} : text[i] \in Layout[i]
    BY <1>9, <2>2
  <2>5. \A i \in 1 .. 26 \ {1, 6, 9, 12, 15, 18, 21, 25, 26} : text[i] \in 0 .. 9
    BY <1>10, <1>11, <1>12, <1>13, <1>14, <1>15, <1>16
  <2> QED
    BY <1>9, <2>1, <2>3, <2>4, <2>5 DEF IsDateTime
<1>18. ReadsAs(text, Y, Mo, D, H, Mi, S, K)
  BY <1>10, <1>11, <1>12, <1>13, <1>14, <1>15, <1>16, <1>17 DEF ReadsAs
<1> QED
  BY <1>18 DEF text

(* The text of an instant that can be written is that instant. *)
LEMMA InstantWritten ==
    ASSUME NEW t \in WritableInstants
    PROVE  IsInstant(AppendJsonTimestamp(t), t)
<1> DEFINE day == FloorDays(t)
           Y == DateOf(day).year
           Mo == DateOf(day).month
           D == DateOf(day).day
           H == Hours(t)
           Mi == Minutes(t) % MinutesPerHour
           S == Seconds(t) % SecondsPerMinute
           K == Milliseconds(t) % MillisecondsPerSecond
           text == AppendJsonTimestamp(t)
<1>1. text = FieldsText(Y, Mo, D, H, Mi, S, K)
  BY DEF AppendJsonTimestamp, FieldsText, LaidOut, Hours, Minutes, Seconds, Milliseconds
<1>2. /\ day \in Int /\ day + DaysBeforeYear(1970) \in 0 .. DaysBeforeYear(10000) - 1
      /\ H \in 0 .. HoursPerDay - 1 /\ Mi \in 0 .. MinutesPerHour - 1
      /\ S \in 0 .. SecondsPerMinute - 1 /\ K \in 0 .. MillisecondsPerSecond - 1
      /\ t = (((day * HoursPerDay + H) * MinutesPerHour + Mi) * SecondsPerMinute + S)
                * MillisecondsPerSecond + K
  BY InstantApart
<1>3. IsDate(Y, Mo, D) /\ DaysCounted(Y, Mo, D) = day
  <2> HIDE DEF day
  <2>1. day \in Int /\ day + DaysBeforeYear(1970) \in 0 .. DaysBeforeYear(10000) - 1
    BY <1>2
  <2> QED
    BY <2>1, DateCounts
<1> HIDE DEF day, Y, Mo, D, H, Mi, S, K, text
<1>4. Y \in 0 .. 9999 /\ Mo \in 1 .. 12 /\ D \in 1 .. MonthLengths(Y)[Mo]
  BY <1>3 DEF IsDate
<1>5. MonthLengths(Y)[Mo] \in 28 .. 31
  BY <1>4, LengthsAre
<1>6. /\ Y \in Nat /\ Y < 10000 /\ Mo \in Nat /\ Mo < 100 /\ D \in Nat /\ D < 100
  BY <1>4, <1>5
<1>7. /\ H \in Nat /\ H < 100 /\ Mi \in Nat /\ Mi < 100 /\ S \in Nat /\ S < 100
      /\ K \in Nat /\ K < 1000
      /\ H < HoursPerDay /\ Mi < MinutesPerHour /\ S < SecondsPerMinute
  <2>1. /\ HoursPerDay \in 1 .. 100 /\ MinutesPerHour \in 1 .. 100
        /\ SecondsPerMinute \in 1 .. 100 /\ MillisecondsPerSecond \in 1 .. 1000
    BY UnitsAre
  <2> QED
    BY <1>2, <2>1
<1>8. ReadsAs(text, Y, Mo, D, H, Mi, S, K)
  <2>1. ReadsAs(FieldsText(Y, Mo, D, H, Mi, S, K), Y, Mo, D, H, Mi, S, K)
    BY <1>6, <1>7, FieldsRead
  <2> QED
    BY <1>1, <2>1
<1>9. IsInstant(text, t) <=>
        /\ IsDateTime(text)
        /\ Mo \in 1 .. 12 /\ D \in 1 .. MonthLengths(Y)[Mo]
        /\ H < HoursPerDay /\ Mi < MinutesPerHour /\ S < SecondsPerMinute
        /\ t = (((DaysCounted(Y, Mo, D) * HoursPerDay + H) * MinutesPerHour + Mi)
                  * SecondsPerMinute + S) * MillisecondsPerSecond + K
  BY <1>8 DEF IsInstant, ReadsAs
<1>10. IsInstant(text, t)
  BY <1>2, <1>3, <1>4, <1>7, <1>8, <1>9 DEF ReadsAs
<1> QED
  BY <1>10 DEF text

(* json_timestamp.cpp: whatever the clock reads, within the years that RFC *)
(* 3339 writes, its text is a date-time of that format and stands for what *)
(* was read: before 1970 too, and at the ends of days, months and years.   *)
THEOREM InstantsReadBack == Spec => []InstantReadsBack
<1>1. Answered => InstantReadsBack
  <2> SUFFICES ASSUME Answered, Returned("append_json_timestamp")
               PROVE  IsInstant(Result, call.instant)
    BY DEF InstantReadsBack
  <2>1. call.instant \in WritableInstants
    BY InputsAssumption DEF Answered, Answers, Returned
  <2>2. Result = AppendJsonTimestamp(call.instant)
    BY DEF Answered, Answers, Returned, Result
  <2> QED
    BY <2>1, <2>2, InstantWritten
<1> QED
  BY <1>1, AlwaysAnswered, PTL

==============================================================================
