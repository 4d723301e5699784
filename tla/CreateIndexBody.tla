--------------------------- MODULE CreateIndexBody ---------------------------
(***************************************************************************)
(* POST /indexes up to the call of the service: the body of a create       *)
(* request, field by field (adapters/http/index_routes.cpp).  Fields come  *)
(* in any order and may be repeated; the parser looks only at the fields   *)
(* it is asked for, and at what follows the object only at the end.        *)
(***************************************************************************)
EXTENDS Integers, Sequences

CONSTANTS
    Uids,           \* texts IndexUid::parse() accepts
    BadUids,        \* texts it refuses
    Keys,           \* texts of a primary key
    None,           \* std::nullopt
    MaxFields       \* bound: fields in a body

ASSUME BodyAssumption ==
    /\ MaxFields \in Nat
    /\ None \notin Uids \cup BadUids \cup Keys
    /\ Uids \cap BadUids = {}

VARIABLES
    pc,
    body,       \* [json, fields, trailing]
    position,   \* the next field
    fields,     \* CreateIndexFields
    result

vars == <<pc, body, position, fields, result>>

(* What get_string() and is_null() make of a value. *)
Texts == Uids \cup BadUids \cup Keys
Strings == [type: {"string"}, text: Texts]
Null == [type |-> "null"]
OtherValue == [type |-> "other"]
Values == Strings \cup {Null, OtherValue}

(* A field whose key does not parse has the key "broken".                  *)
FieldKeys == {"uid", "primaryKey", "unknown", "broken"}
Fields == [key: FieldKeys, value: Values]

Bodies ==
    [json: {"object"}, trailing: BOOLEAN,
     fields: UNION {[1 .. n -> Fields] : n \in 0 .. MaxFields}]
      \cup [json: {"unreadable", "other"}, trailing: {FALSE}, fields: {<<>>}]

NoFields == [uid |-> None, hasPrimaryKey |-> FALSE, primaryKey |-> None]

Pending == [error |-> "pending"]
NotJson == [error |-> "not json"]
NotAnObject == [error |-> "not an object"]
MustBe(key) == [error |-> "wrong type", key |-> key]
Repeated(key) == [error |-> "repeated", key |-> key]
UnknownField == [error |-> "unknown"]
UidRequired == [error |-> "no uid"]
InvalidUid == [error |-> "invalid uid"]
Command(uid, key) == [error |-> "none", uid |-> uid, primaryKey |-> key]

Init ==
    /\ body \in Bodies
    /\ pc = "iterate"
    /\ position = 1
    /\ fields = NoFields
    /\ result = Pending

Finish(outcome) ==
    /\ result' = outcome
    /\ pc' = "done"
    /\ UNCHANGED <<body, position, fields>>

Continue(place) == pc' = place /\ UNCHANGED <<body, position, fields, result>>

(* Keeps what a field held and goes on to the next. *)
Keep(kept) ==
    /\ fields' = kept
    /\ position' = position + 1
    /\ UNCHANGED <<pc, body, result>>

Iterate ==
    /\ pc = "iterate"
    /\ \/ body.json = "unreadable" /\ Finish(NotJson)
       \/ body.json = "other" /\ Finish(NotAnObject)
       \/ body.json = "object" /\ Continue("fields")

FieldsDone == position > Len(body.fields)
Reading(key) ==
    pc = "fields" /\ ~FieldsDone /\ body.fields[position].key = key
Value == body.fields[position].value

(* Mutant: the last of two uids wins. *)
ReadLastUid ==
    /\ Reading("uid")
    /\ IF Value.type # "string" THEN Finish(MustBe("uid"))
       ELSE Keep([fields EXCEPT !.uid = Value.text])

ReadUid ==
    /\ Reading("uid")
    /\ IF fields.uid # None THEN Finish(Repeated("uid"))
       ELSE IF Value.type # "string" THEN Finish(MustBe("uid"))
       ELSE Keep([fields EXCEPT !.uid = Value.text])

(* Mutant: an earlier null does not count as a primaryKey. *)
ReadKeyAfterNull ==
    /\ Reading("primaryKey")
    /\ IF fields.primaryKey # None THEN Finish(Repeated("primaryKey"))
       ELSE IF Value = OtherValue THEN Finish(MustBe("primaryKey"))
       ELSE Keep([fields EXCEPT !.primaryKey =
                    IF Value = Null THEN None ELSE Value.text])

ReadPrimaryKey ==
    /\ Reading("primaryKey")
    /\ IF fields.hasPrimaryKey THEN Finish(Repeated("primaryKey"))
       ELSE IF Value = OtherValue THEN Finish(MustBe("primaryKey"))
       ELSE Keep([fields EXCEPT !.hasPrimaryKey = TRUE,
                                !.primaryKey = IF Value = Null THEN None ELSE Value.text])

RefuseOther ==
    \/ Reading("unknown") /\ Finish(UnknownField)
    \/ Reading("broken") /\ Finish(NotJson)

(* to_command(), after at_end(). *)
ToCommand ==
    IF fields.uid = None THEN UidRequired
    ELSE IF fields.uid \notin Uids THEN InvalidUid
    ELSE Command(fields.uid, fields.primaryKey)

(* Mutant: to_command() before at_end(). *)
EndLast ==
    /\ pc = "fields" /\ FieldsDone
    /\ Finish(IF ToCommand.error = "none" /\ body.trailing THEN NotJson ELSE ToCommand)

End ==
    /\ pc = "fields" /\ FieldsDone
    /\ Finish(IF body.trailing THEN NotJson ELSE ToCommand)

Next == Iterate \/ ReadUid \/ ReadPrimaryKey \/ RefuseOther \/ End

Spec == Init /\ [][Next]_vars

-----------------------------------------------------------------------------
(* Every variable has its type, and a result is there at the end only. *)
TypeOK ==
    /\ body \in Bodies
    /\ pc \in {"iterate", "fields", "done"}
    /\ position \in 1 .. Len(body.fields) + 1
    /\ fields \in [uid: Texts \cup {None}, hasPrimaryKey: BOOLEAN,
                   primaryKey: Texts \cup {None}]
    /\ result = Pending <=> pc # "done"

Positions(key) == {i \in DOMAIN body.fields : body.fields[i].key = key}

(* A create request as 02-api-spec.yaml has it, in any order of fields.    *)
UidField(field) == field.value \in Strings
KeyField(field) == field.value \in Strings \cup {Null}
IsObject ==
    /\ body.json = "object" /\ ~body.trailing
    /\ Positions("unknown") \cup Positions("broken") = {}
    /\ \A i, j \in Positions("uid") : i = j
    /\ \A i, j \in Positions("primaryKey") : i = j
    /\ \A i \in Positions("uid") : UidField(body.fields[i])
    /\ \A i \in Positions("primaryKey") : KeyField(body.fields[i])

(* FR-01, FR-72: a request is accepted exactly when it is a JSON object of *)
(* one valid uid and at most one primaryKey, a string or null, and nothing *)
(* else.                                                                   *)
AcceptsExactlyRequests ==
    pc = "done" =>
        (result.error = "none" <=>
            IsObject /\ \E i \in Positions("uid") : body.fields[i].value.text \in Uids)

Sent(key) == {body.fields[i].value : i \in Positions(key)}

(* The command says what the body said, wherever in it: the uid, and a     *)
(* primaryKey that is none when the field is null or absent.               *)
CommandSaysWhatWasSent ==
    pc = "done" /\ result.error = "none" =>
        /\ Sent("uid") = {[type |-> "string", text |-> result.uid]}
        /\ Sent("primaryKey") \in
              IF result.primaryKey = None THEN {{}, {Null}}
              ELSE {{[type |-> "string", text |-> result.primaryKey]}}

(* FR-72: the refusal names the first offending field in the order sent,   *)
(* and what is decided after the last field is not reported before.        *)
Faultless(i) ==
    LET field == body.fields[i] IN
    /\ field.key \in {"uid", "primaryKey"}
    /\ \A j \in 1 .. i - 1 : body.fields[j].key # field.key
    /\ IF field.key = "uid" THEN UidField(field) ELSE KeyField(field)

FirstBadFieldIsReported ==
    pc = "done" /\ body.json = "object" =>
        /\ \A i \in 1 .. position - 1 : Faultless(i)
        /\ ~FieldsDone => ~Faultless(position)
        /\ result = UnknownField =>
              ~FieldsDone /\ body.fields[position].key = "unknown"
        /\ result.error \in {"no uid", "invalid uid"} => IsObject

-----------------------------------------------------------------------------
(* The inductive invariant.                                                *)

(* What was read is without fault, and the fields hold what it said.       *)
ReadOK ==
    LET read == 1 .. position - 1 IN
    /\ \A i \in read : Faultless(i)
    /\ IF fields.uid = None
       THEN \A i \in read : body.fields[i].key # "uid"
       ELSE \E i \in read : /\ body.fields[i].key = "uid"
                            /\ body.fields[i].value.text = fields.uid
    /\ fields.hasPrimaryKey <=> \E i \in read : body.fields[i].key = "primaryKey"
    /\ ~fields.hasPrimaryKey => fields.primaryKey = None
    /\ \A i \in read : body.fields[i].key = "primaryKey" =>
          fields.primaryKey = IF body.fields[i].value = Null THEN None
                                                         ELSE body.fields[i].value.text

(* Why the parse ended where it did.                                       *)
EndedOK ==
    pc = "done" =>
        \/ body.json # "object" /\ result \in {NotJson, NotAnObject}
        \/ /\ body.json = "object" /\ ~FieldsDone /\ ~Faultless(position)
           /\ result.error \in {"wrong type", "repeated", "unknown", "not json"}
           /\ result = UnknownField => body.fields[position].key = "unknown"
        \/ /\ body.json = "object" /\ FieldsDone
           /\ result = IF body.trailing THEN NotJson ELSE ToCommand

Inv ==
    /\ TypeOK /\ ReadOK /\ EndedOK
    /\ pc = "fields" => body.json = "object"
==============================================================================
