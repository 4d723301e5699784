---------------------------- MODULE DocumentBatch ----------------------------
(***************************************************************************)
(* POST /indexes/{uid}/documents up to the call of the service:            *)
(* adapters/http/document_routes.cpp.                                      *)
(*                                                                         *)
(* A body is the tree its JSON stands for, with what simdjson's on-demand  *)
(* parser refuses marked where it refuses it: an atom or a string that     *)
(* does not read, a container that does not open, an entry (an element, or *)
(* a field with its key) that does not parse.  The parser reads forward    *)
(* and looks only at what it is asked for.                                 *)
(***************************************************************************)
EXTENDS Integers, Sequences, FiniteSets, SequencesExt

CONSTANTS
    Values,             \* JSON values, with the values they hold
    Bodies,             \* requests whose elements are of Values
    MaxBatchDocuments,  \* 10'000
    MaxNestingDepth     \* 128

ASSUME BatchLimitsAssumption ==
    /\ MaxBatchDocuments \in Nat \ {0}
    /\ MaxNestingDepth \in Nat \ {0}

VARIABLES
    pc,
    body,       \* the request: [uidOk, json, elements, trailing]
    documents,  \* the documents read so far, each its searchable texts
    result      \* Pending, Valid or the error

vars == <<pc, body, documents, result>>

-----------------------------------------------------------------------------
(* JSON values.                                                            *)

Atom(ok) == [kind |-> "atom", ok |-> ok, text |-> "", entries |-> <<>>]
Text(ok, text) == [kind |-> "string", ok |-> ok, text |-> text, entries |-> <<>>]
Junk == [kind |-> "junk", ok |-> FALSE, text |-> "", entries |-> <<>>]
Array(entries) == [kind |-> "array", ok |-> TRUE, text |-> "", entries |-> entries]
Object(entries) == [kind |-> "object", ok |-> TRUE, text |-> "", entries |-> entries]

Entry(value) == [ok |-> TRUE, value |-> value]
BrokenEntry == [ok |-> FALSE, value |-> Junk]

Pending == [error |-> "pending"]
Valid == [error |-> "none"]
NotJson == [error |-> "not json"]
TooDeep == [error |-> "too deep"]
TooMany == [error |-> "too many"]
NotAnArray == [error |-> "not an array"]
NoDocument == [error |-> "empty"]
InvalidUid == [error |-> "invalid uid"]
NotAnObject(index) == [error |-> "not an object", index |-> index]

Entries == [ok : BOOLEAN, value : Values]

ASSUME ValuesAssumption ==
    \A value \in Values :
        /\ value.ok \in BOOLEAN
        /\ value.entries \in Seq(Entries)
        /\ value.kind \notin {"array", "object"} => value.entries = <<>>
        /\ value.kind = "junk" => ~value.ok

ASSUME BodiesAssumption ==
    \A request \in Bodies :
        /\ request.uidOk \in BOOLEAN /\ request.trailing \in BOOLEAN
        /\ request.json \in {"unreadable", "other", "array"}
        /\ request.elements \in Seq(Entries)

(* A loop that returns at its first entry with an error. *)
FirstError(outcomes) ==
    LET failing == SelectInSeq(outcomes, LAMBDA outcome : outcome # Valid) IN
    IF failing = 0 THEN Valid ELSE outcomes[failing]

(* validate_array, validate_object: deeper says what is wrong with a value *)
(* one level down.                                                         *)
ValidateEntries(value, deeper) ==
    FirstError([i \in DOMAIN value.entries |->
                  IF value.entries[i].ok THEN deeper[value.entries[i].value] ELSE NotJson])

(* Mutant: >= for >. *)
DepthReached(depth) == depth >= MaxNestingDepth

PastDepth(depth) == depth > MaxNestingDepth

(* validate_value: an array or an object that opens, or a scalar that      *)
(* reads.  The depth is looked at before the value, which ends the         *)
(* recursion.                                                              *)
ValidateValue[depth \in 1 .. MaxNestingDepth + 1] ==
    LET deeper == ValidateValue[depth + 1] IN
    [value \in Values |->
        IF PastDepth(depth) THEN TooDeep
        ELSE IF value.ok THEN ValidateEntries(value, deeper)
        ELSE NotJson]

ValidateField == ValidateValue[1]

(* One turn of the field pass: a string is read, the rest is validated.    *)
FieldOutcome(entry) ==
    IF ~entry.ok \/ entry.value.kind = "junk" THEN NotJson
    ELSE IF entry.value.kind # "string" THEN ValidateField[entry.value]
    ELSE IF entry.value.ok THEN Valid ELSE NotJson

(* Mutant: every field's text. *)
AllFields(object) == [i \in DOMAIN object.entries |-> object.entries[i].value.text]

(* What the field pass has gathered behind each field. *)
SearchableText(object) ==
    LET after[n \in 0 .. Len(object.entries)] ==
          IF n = 0 THEN <<>>
          ELSE IF object.entries[n].value.kind # "string" THEN after[n - 1]
          ELSE Append(after[n - 1], object.entries[n].value.text)
    IN  after[Len(object.entries)]

(* Mutant: only objects are looked at, not what is in them. *)
ReadObjectOnly(element, index) ==
    IF element.kind # "object" THEN NotAnObject(index)
    ELSE IF ~element.ok THEN NotJson
    ELSE Valid

(* read_document: get_object, raw_json and reset, the field pass.  An      *)
(* object that does not close is refused by raw_json.                      *)
ReadDocument(element, index) ==
    IF element.kind # "object" THEN NotAnObject(index)
    ELSE IF ~element.ok THEN NotJson
    ELSE FirstError([i \in DOMAIN element.entries |-> FieldOutcome(element.entries[i])])

-----------------------------------------------------------------------------
Init ==
    /\ body \in Bodies
    /\ pc = "uid"
    /\ documents = <<>>
    /\ result = Pending

Refuse(error) ==
    /\ result' = error
    /\ pc' = "done"
    /\ UNCHANGED <<body, documents>>

Continue(place) == pc' = place /\ UNCHANGED <<body, documents, result>>

(* add_documents_response: the uid in the path before the body. *)
ParseUid ==
    /\ pc = "uid"
    /\ IF body.uidOk THEN Continue("iterate") ELSE Refuse(InvalidUid)

(* parser.iterate and get_array. *)
Iterate ==
    /\ pc = "iterate"
    /\ CASE body.json = "unreadable" -> Refuse(NotJson)
         [] body.json = "other" -> Refuse(NotAnArray)
         [] body.json = "array" -> Continue("elements")

Index == Len(documents)
ArrayDone == Index = Len(body.elements)

Full == Index = MaxBatchDocuments

(* One turn of the loop of read_documents.  The limit is looked at before  *)
(* the element is.                                                         *)
ReadElement ==
    LET entry == body.elements[Index + 1]
        outcome == IF entry.ok THEN ReadDocument(entry.value, Index) ELSE NotJson
    IN
    /\ pc = "elements"
    /\ ~ArrayDone
    /\ IF Full THEN Refuse(TooMany)
       ELSE IF outcome # Valid THEN Refuse(outcome)
       ELSE /\ documents' = Append(documents, SearchableText(entry.value))
            /\ UNCHANGED <<pc, body, result>>

EndElements ==
    /\ pc = "elements"
    /\ ArrayDone
    /\ IF documents = <<>> THEN Refuse(NoDocument) ELSE Continue("at end")

(* document.at_end() *)
CheckEnd ==
    /\ pc = "at end"
    /\ IF body.trailing THEN Refuse(NotJson)
       ELSE result' = Valid /\ pc' = "done" /\ UNCHANGED <<body, documents>>

Next == ParseUid \/ Iterate \/ ReadElement \/ EndElements \/ CheckEnd

Spec == Init /\ [][Next]_vars

-----------------------------------------------------------------------------
(* What a batch is, in no order and with no parser.                        *)

(* The values without a fault that have at most n levels of values below. *)
WellFormed[n \in Nat] ==
    LET below == WellFormed[n - 1] IN
    {value \in Values :
        /\ value.ok
        /\ \A i \in DOMAIN value.entries :
              value.entries[i].ok /\ n > 0 /\ value.entries[i].value \in below}

Storable == {value \in WellFormed[MaxNestingDepth] : value.kind = "object"}

IsDocument(entry) == entry.ok /\ entry.value \in Storable

IsBatch ==
    /\ body.json = "array"
    /\ Len(body.elements) \in 1 .. MaxBatchDocuments
    /\ \A i \in DOMAIN body.elements : IsDocument(body.elements[i])
    /\ ~body.trailing

(* FR-14, 02-api-spec.yaml: a batch is accepted when and only when it is   *)
(* 1 to 10'000 whole JSON objects nesting at most 128 levels, although the *)
(* parser checks nothing but what it is asked to read.                     *)
AcceptsExactlyBatches ==
    pc = "done" => (result = Valid <=> body.uidOk /\ IsBatch)

(* The texts are the strings among a value's entries, in their order. *)
AreTheStrings(texts, value) ==
    \E at \in [DOMAIN texts -> DOMAIN value.entries] :
        /\ \A j, k \in DOMAIN texts : j < k => at[j] < at[k]
        /\ \A i \in DOMAIN value.entries :
              value.entries[i].value.kind = "string" <=> \E k \in DOMAIN texts : at[k] = i
        /\ \A k \in DOMAIN texts : texts[k] = value.entries[at[k]].value.text

(* document.hpp: what is searchable is every top-level string, in order,   *)
(* and no string of a nested object or array.                              *)
TextsAreTopLevelStrings ==
    result = Valid =>
        /\ Len(documents) = Len(body.elements)
        /\ \A i \in DOMAIN documents : AreTheStrings(documents[i], body.elements[i].value)

(* A refusal is about the first thing wrong with the body: whatever comes  *)
(* before the element an error is about is a document, and that element    *)
(* is not one.                                                             *)
FirstFaultIsReported ==
    pc = "done" /\ result # Valid /\ body.uidOk /\ body.json = "array" =>
        /\ \A i \in DOMAIN documents : IsDocument(body.elements[i])
        /\ CASE ArrayDone -> \/ result = NoDocument /\ body.elements = <<>>
                             \/ result = NotJson /\ body.trailing
             [] ~ArrayDone /\ Index >= MaxBatchDocuments -> result = TooMany
             [] OTHER ->
                  /\ ~IsDocument(body.elements[Index + 1])
                  /\ result \in {NotJson, TooDeep, NotAnObject(Index)}
                  /\ result = NotAnObject(Index) =>
                        body.elements[Index + 1].value.kind # "object"

-----------------------------------------------------------------------------
(* How a batch comes to its end: with every element read, or at the first  *)
(* thing wrong with it.                                                    *)
Faults ==
    \/ ArrayDone /\ documents = <<>> /\ result = NoDocument
    \/ ArrayDone /\ body.trailing /\ result = NotJson
    \/ ~ArrayDone /\ Full /\ result = TooMany
    \/ /\ ~ArrayDone /\ ~Full
       /\ ~IsDocument(body.elements[Index + 1])
       /\ result \in {NotJson, TooDeep, NotAnObject(Index)}
       /\ result = NotAnObject(Index) => body.elements[Index + 1].value.kind # "object"

Concluded ==
    \/ result = InvalidUid /\ ~body.uidOk
    \/ result = NotJson /\ body.json = "unreadable"
    \/ result = NotAnArray /\ body.json = "other"
    \/ /\ body.uidOk /\ body.json = "array"
       /\ \/ Faults
          \/ ArrayDone /\ documents # <<>> /\ ~body.trailing /\ result = Valid

(* The documents read are the first elements, each with its texts. *)
ReadSoFar ==
    /\ documents \in Seq({SearchableText(value) : value \in Storable})
    /\ Len(documents) <= Len(body.elements)
    /\ Len(documents) <= MaxBatchDocuments
    /\ \A i \in DOMAIN documents :
          /\ IsDocument(body.elements[i])
          /\ documents[i] = SearchableText(body.elements[i].value)

Inv ==
    /\ body \in Bodies
    /\ pc \in {"uid", "iterate", "elements", "at end", "done"}
    /\ ReadSoFar
    /\ pc \in {"iterate", "elements", "at end"} => body.uidOk
    /\ pc \in {"elements", "at end"} => body.json = "array"
    /\ pc = "at end" => ArrayDone /\ documents # <<>>
    /\ pc = "done" => Concluded
==============================================================================
