------------------------------ MODULE Document ------------------------------
(***************************************************************************)
(* src/src/core/document.hpp: a document is the bytes of its source and    *)
(* the text a search looks at.  The text is a function of those bytes      *)
(* (document_routes.cpp reads it out of them), so a document is identified *)
(* with its source, and WordsIn[d] is the sequence of words that           *)
(* split_on_whitespace() finds in its searchable text.                     *)
(***************************************************************************)
EXTENDS Integers, Sequences

CONSTANTS
    Documents,      \* the documents clients can send
    Words,          \* the words their searchable text can contain
    WordsIn         \* WordsIn[d]: the words of d's searchable text, in order

ASSUME WordsInAssumption == WordsIn \in [Documents -> Seq(Words)]

Contains(document, term) ==
    \E i \in DOMAIN WordsIn[document] : WordsIn[document][i] = term
=============================================================================
