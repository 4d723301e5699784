----------------------------- MODULE StringView ------------------------------
(* External: std::string_view, as far as the sources use it.  Positions    *)
(* count from 0, and npos is the greatest of them.                         *)
EXTENDS Integers, Sequences, FiniteSetsExt

CONSTANT Npos

ASSUME NposAssumption == Npos \in Nat

(* A position is a std::size_t: the one behind npos is 0. *)
Advance(position) == IF position = Npos THEN 0 ELSE position + 1

LOCAL Smaller(a, b) == IF a <= b THEN a ELSE b

(* The count is clamped to what is left of the text. *)
Substr(text, from, count) ==
    SubSeq(text, from + 1, from + Smaller(count, Len(text) - from))

PositionsOf(text, S, from) == {i \in from .. Len(text) - 1 : text[i + 1] \in S}

FindFirstOf(text, S, from) ==
    LET found == PositionsOf(text, S, from) IN IF found = {} THEN Npos ELSE Min(found)

FindFirstNotOf(text, S, from) ==
    LET found == (from .. Len(text) - 1) \ PositionsOf(text, S, from) IN
    IF found = {} THEN Npos ELSE Min(found)

FindLastNotOf(text, S) ==
    LET found == (0 .. Len(text) - 1) \ PositionsOf(text, S, 0) IN
    IF found = {} THEN Npos ELSE Max(found)
==============================================================================
