--------------------------- MODULE MCDocumentBatch ---------------------------
(* Instances of DocumentBatch for TLC.                                     *)
EXTENDS DocumentBatch

(* Sequences of at most n elements of S. *)
UpTo(S, n) == UNION {[1 .. k -> S] : k \in 0 .. n}

Leaves == {Atom(TRUE), Atom(FALSE), Text(TRUE, "a"), Text(FALSE, ""), Junk}
EntriesOf(values) == {Entry(value) : value \in values} \cup {BrokenEntry}
Containers(entries) == {Array(es) : es \in entries} \cup {Object(es) : es \in entries}
Unclosed(kind) == [kind |-> kind, ok |-> FALSE, text |-> "", entries |-> <<>>]

(* Values of every shape two entries wide, and narrow ones that go past    *)
(* MaxNestingDepth = 2.                                                    *)
Shallow == Leaves \cup Containers(UpTo(EntriesOf({Atom(TRUE), Atom(FALSE), Text(TRUE, "b")}), 2))
              \cup {Unclosed("array"), Unclosed("object")}
Deep == Containers({<<Entry(value)>> : value \in
           Containers({<<>>, <<Entry(Atom(TRUE))>>, <<Entry(Atom(FALSE))>>, <<BrokenEntry>>})})
Documents == {Object(es) : es \in UpTo(EntriesOf(Shallow \cup Deep), 2)}

Request(elements, trailing) ==
    [uidOk |-> TRUE, json |-> "array", elements |-> elements, trailing |-> trailing]

(* One document of any shape, or up to three elements of few shapes.       *)
Singles == {Request(<<Entry(document)>>, FALSE) : document \in Documents}
FewElements ==
    {Entry(Object(<<>>)), Entry(Object(<<Entry(Text(TRUE, "a")), Entry(Text(TRUE, "b"))>>)),
     Entry(Object(<<Entry(Atom(TRUE)), Entry(Text(TRUE, "c"))>>)),
     Entry(Object(<<Entry(Atom(FALSE))>>)), Entry(Atom(TRUE)), Entry(Array(<<>>)),
     Entry(Object(<<Entry(Array(<<Entry(Array(<<Entry(Atom(TRUE))>>))>>))>>)), BrokenEntry}
Several == {Request(es, trailing) : es \in UpTo(FewElements, 3), trailing \in BOOLEAN}
Others ==
    {[uidOk |-> uidOk, json |-> json, elements |-> <<>>, trailing |-> FALSE] :
        uidOk \in BOOLEAN, json \in {"unreadable", "other", "array"}}

(* A document's values are Shallow or Deep, and hold others of them. *)
MCValues ==
    Shallow \cup Deep \cup Documents
      \cup {value.entries[1].value : value \in Deep}
      \cup {Array(<<Entry(Array(<<Entry(Atom(TRUE))>>))>>)}
      \cup {entry.value : entry \in FewElements}
      \cup {Text(TRUE, "b"), Text(TRUE, "c")}
MCBodies == Singles \cup Several \cup Others
==============================================================================
