------------------------- MODULE WhitespaceTokenizer -------------------------
(* core/whitespace_tokenizer.cpp.  A text is a sequence of characters, of  *)
(* which only Space, the six of AsciiWhitespace, matters.                  *)
EXTENDS StringView

CONSTANT Space

(* Mutant: the search goes on behind the space, and from the start of the  *)
(* text behind npos.                                                       *)
NextStartBehindSpace(text, end) == FindFirstNotOf(text, Space, Advance(end))

NextStart(text, end) == FindFirstNotOf(text, Space, end)

(* The loop, after so many turns: each a word, and the search for the      *)
(* start of the next one.  It has ended after as many turns as the text    *)
(* has characters, for each takes a word off it.                           *)
SplitOnWhitespace(text) ==
    LET turn(loop) ==
          LET end == FindFirstOf(text, Space, loop.start) IN
          IF loop.start = Npos THEN loop
          ELSE [start |-> NextStart(text, end),
                words |-> Append(loop.words, Substr(text, loop.start, end - loop.start))]
        after[turns \in Nat] ==
          IF turns = 0 THEN [start |-> FindFirstNotOf(text, Space, 0), words |-> <<>>]
          ELSE turn(after[turns - 1])
    IN  after[Len(text)].words

-----------------------------------------------------------------------------
IsSpaceAt(text, i) == i \notin DOMAIN text \/ text[i] \in Space

(* Where the maximal runs of other characters begin, and the one there. *)
BeginsAt(text, i) == ~IsSpaceAt(text, i) /\ IsSpaceAt(text, i - 1)
RunFrom(text, i) == SubSeq(text, i, Min({j \in i .. Len(text) : IsSpaceAt(text, j + 1)}))

(* The runs of a text, all of them and in their order. *)
AreTheRuns(words, text) ==
    \E at \in [DOMAIN words -> DOMAIN text] :
        /\ \A j, k \in DOMAIN words : j < k => at[j] < at[k]
        /\ \A i \in DOMAIN text : BeginsAt(text, i) <=> \E k \in DOMAIN words : at[k] = i
        /\ \A k \in DOMAIN words : words[k] = RunFrom(text, at[k])
==============================================================================
