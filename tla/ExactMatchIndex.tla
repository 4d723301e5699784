-------------------------- MODULE ExactMatchIndex --------------------------
(***************************************************************************)
(* src/src/core/exact_match_index.{hpp,cpp}: one index's documents and its *)
(* term -> documents map, as a value with operators.  The steps of add()   *)
(* (record a word, then the next, then push the source) are operators of   *)
(* their own, so that the module that owns the index can be interrupted    *)
(* between two of them, as an allocation failure interrupts the code.      *)
(***************************************************************************)
EXTENDS Document

CONSTANT DocIdModulus    \* DocId is a std::uint32_t: 2^32 in the build

ASSUME DocIdModulusAssumption == DocIdModulus \in Nat \ {0}

DocIds == 0 .. DocIdModulus - 1

ExactMatchIndices == [sources: Seq(Documents), postings: [Words -> Seq(DocIds)]]

(* A term that postings_ has no entry for and a term with an empty entry   *)
(* answer documents_containing() alike, so both are the empty sequence.    *)
EmptyIndex == [sources |-> <<>>, postings |-> [term \in Words |-> <<>>]]

DocumentCount(index) == Len(index.sources)

(* static_cast<std::uint32_t>(sources_.size())                             *)
NextDocId(index) == DocumentCount(index) % DocIdModulus

(* Mutant: the bug of a record() without its back() check. *)
RecordAlways(index, term, id) ==
    [index EXCEPT !.postings[term] = Append(@, id)]

(* record(): appends id to the term's list unless it is already at the back. *)
Record(index, term, id) ==
    LET documents == index.postings[term] IN
    IF documents = <<>> \/ documents[Len(documents)] # id
    THEN [index EXCEPT !.postings[term] = Append(@, id)]
    ELSE index

(* The last statement of add(): sources_.push_back. *)
PushSource(index, document) ==
    [index EXCEPT !.sources = Append(@, document)]

DocumentsContaining(index, term) == index.postings[term]

(* source(id).  The code throws std::out_of_range past the end. *)
HasSource(index, id) == id < DocumentCount(index)
Source(index, id) == index.sources[id + 1]

-----------------------------------------------------------------------------
(* What the comments of exact_match_index.hpp promise of an index that is  *)
(* not in the middle of an add().                                          *)

(* "in insertion order, each once" *)
Ascending(index) ==
    \A term \in Words :
        \A i, j \in DOMAIN index.postings[term] :
            i < j => index.postings[term][i] < index.postings[term][j]

(* No id is at or above limit. *)
IdsBelow(index, limit) ==
    \A term \in Words : \A k \in DOMAIN index.postings[term] :
        index.postings[term][k] < limit

(* Every word of every stored document finds it. *)
Complete(index) ==
    \A i \in DOMAIN index.sources : \A term \in Words :
        Contains(index.sources[i], term) =>
            \E k \in DOMAIN DocumentsContaining(index, term) :
                DocumentsContaining(index, term)[k] = i - 1

(* A term finds stored documents only, and only those that contain it. *)
Sound(index) ==
    \A term \in Words : \A k \in DOMAIN DocumentsContaining(index, term) :
        LET id == DocumentsContaining(index, term)[k] IN
        HasSource(index, id) /\ Contains(Source(index, id), term)

(* Complete and Sound for one term while an add() is under way: the next   *)
(* id is in the term's list exactly when recorded.                         *)
ExactUpTo(index, term, recorded) ==
    LET found == DocumentsContaining(index, term) IN
    /\ \A i \in DOMAIN index.sources :
          Contains(index.sources[i], term) => \E k \in DOMAIN found : found[k] = i - 1
    /\ \A k \in DOMAIN found :
          \/ HasSource(index, found[k]) /\ Contains(Source(index, found[k]), term)
          \/ found[k] = DocumentCount(index) /\ recorded
    /\ recorded => \E k \in DOMAIN found : found[k] = DocumentCount(index)
=============================================================================
