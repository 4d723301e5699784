----------------------------- MODULE JsonString ------------------------------
(***************************************************************************)
(* adapters/http/json_string.cpp.  A character is a char, which is signed: *)
(* -128 .. 127, the bytes of UTF-8 beyond ASCII being the negative ones.   *)
(***************************************************************************)
EXTENDS Integers, Sequences

Quote == 34
Backslash == 92
LetterU == 117
Zero == 48

(* The characters with an escape of two characters, and its second one:    *)
(* quote, backslash, \b, \f, \n, \r, \t.                                   *)
ShortEscapes ==
    {<<Quote, Quote>>, <<Backslash, Backslash>>, <<8, 98>>, <<12, 102>>,
     <<10, 110>>, <<13, 114>>, <<9, 116>>}

HexDigit(digit) == IF digit < 10 THEN Zero + digit ELSE 87 + digit

(* append_unicode_escape *)
UnicodeEscape(byte) ==
    <<Backslash, LetterU, Zero, Zero, HexDigit(byte \div 16), HexDigit(byte % 16)>>

FirstUnescapedByte == 32

(* Mutant: the comparison without the cast, where a byte of UTF-8 is a     *)
(* negative number.                                                        *)
IsControlSigned(character) == character < FirstUnescapedByte

(* static_cast<unsigned char>(character) < FirstUnescapedByte *)
IsControl(character) == character % 256 < FirstUnescapedByte

(* What append_escaped appends. *)
Escaped(character) ==
    LET short == {escape \in ShortEscapes : escape[1] = character} IN
    IF short # {} THEN <<Backslash, (CHOOSE escape \in short : TRUE)[2]>>
    ELSE IF IsControl(character) THEN UnicodeEscape(character % 256)
    ELSE <<character>>

(* append_json_string: out, after so many characters of the value. *)
AppendJsonString(value) ==
    LET out[n \in 0 .. Len(value)] ==
          IF n = 0 THEN <<Quote>> ELSE out[n - 1] \o Escaped(value[n])
    IN  out[Len(value)] \o <<Quote>>

-----------------------------------------------------------------------------
(* RFC 8259, section 7, from the other side: what a reader of JSON makes   *)
(* of a text.                                                              *)

HexValue(character) ==
    CASE character \in 48 .. 57 -> character - 48
      [] character \in 97 .. 102 -> character - 87
      [] character \in 65 .. 70 -> character - 55
      [] OTHER -> -1

Nothing == [length |-> 0, character |-> 0]

(* The escape at i, and the character it stands for; \u only up to 007f,   *)
(* from where one code point is several bytes.                             *)
EscapeAt(text, i) ==
    LET short == {escape \in ShortEscapes : i < Len(text) /\ escape[2] = text[i + 1]}
        digits == [k \in 2 .. 5 |-> HexValue(text[i + k])]
    IN  IF short # {}
        THEN [length |-> 2, character |-> (CHOOSE escape \in short : TRUE)[1]]
        ELSE IF /\ i + 5 <= Len(text)
                /\ text[i + 1] = LetterU
                /\ \A k \in 2 .. 5 : digits[k] >= 0
                /\ digits[2] = 0 /\ digits[3] = 0 /\ digits[4] <= 7
        THEN [length |-> 6, character |-> 16 * digits[4] + digits[5]]
        ELSE Nothing

(* The character that begins at i: none at the end of the text, at a       *)
(* quote, at a control character or at what is no escape.                  *)
CharacterAt(text, i) ==
    IF i > Len(text) \/ text[i] = Quote \/ text[i] \in 0 .. 31 THEN Nothing
    ELSE IF text[i] # Backslash THEN [length |-> 1, character |-> text[i]]
    ELSE EscapeAt(text, i)

(* A reader goes on by a character, or stays where there is none. *)
ReadOne(text, reader) ==
    LET next == CharacterAt(text, reader.at) IN
    IF next.length = 0 THEN reader
    ELSE [at |-> reader.at + next.length,
          characters |-> Append(reader.characters, next.character)]

(* end is the place of the closing quote, 0 when the text is no string or  *)
(* has no end.                                                             *)
ReadString(text) ==
    LET after[turns \in Nat] ==
          IF turns = 0 THEN [at |-> 2, characters |-> <<>>]
          ELSE ReadOne(text, after[turns - 1])
        reader == after[Len(text)]
    IN  IF /\ text # <<>> /\ text[1] = Quote
           /\ reader.at <= Len(text) /\ text[reader.at] = Quote
        THEN [end |-> reader.at, characters |-> reader.characters]
        ELSE [end |-> 0, characters |-> <<>>]
==============================================================================
