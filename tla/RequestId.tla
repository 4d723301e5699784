------------------------------ MODULE RequestId -------------------------------
(* adapters/http/request_id.cpp.  A character is its ASCII code; a word    *)
(* has HexDigitsPerWord digits of four bits.                               *)
EXTENDS Integers, Sequences

CONSTANTS
    HexDigitsPerWord,   \* 16
    MaxRequestIdLength  \* 128

ASSUME RequestIdAssumption ==
    /\ HexDigitsPerWord \in Nat \ {0}
    /\ MaxRequestIdLength \in Nat /\ 2 * HexDigitsPerWord <= MaxRequestIdLength

(* HexDigits[digit] *)
IdDigit(digit) == IF digit < 10 THEN 48 + digit ELSE 87 + digit

(* Mutant: positions counted from one, and a shift by the whole word.      *)
ShiftByWord(position) == HexDigitsPerWord - position

(* shift, in digits of BitsPerHexDigit. *)
Shift(position) == HexDigitsPerWord - 1 - position

PowerOf16[n \in Nat] == IF n = 0 THEN 1 ELSE 16 * PowerOf16[n - 1]

(* append_hex_word *)
HexWord(word) ==
    [i \in 1 .. HexDigitsPerWord |-> IdDigit((word \div PowerOf16[Shift(i - 1)]) % 16)]

FormatRequestId(high, low) == HexWord(high) \o HexWord(low)

IsRequestIdCharacter(character) ==
    character \in (97 .. 122) \cup (65 .. 90) \cup (48 .. 57) \cup {45, 95, 46}

IsAcceptableRequestId(candidate) ==
    /\ candidate # <<>>
    /\ Len(candidate) <= MaxRequestIdLength
    /\ \A i \in DOMAIN candidate : IsRequestIdCharacter(candidate[i])

-----------------------------------------------------------------------------
(* The number that hexadecimal digits stand for. *)
WordOf(digits) ==
    LET value(digit) == IF digit < 58 THEN digit - 48 ELSE digit - 87
        upTo[n \in 0 .. Len(digits)] ==
          IF n = 0 THEN 0 ELSE 16 * upTo[n - 1] + value(digits[n])
    IN  upTo[Len(digits)]
==============================================================================
