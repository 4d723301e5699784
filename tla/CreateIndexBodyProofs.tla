------------------------- MODULE CreateIndexBodyProofs ------------------------
(***************************************************************************)
(* Theorems about CreateIndexBody, for bodies of any number of fields in   *)
(* any order, and any texts.  ReadOK says that the fields read so far are  *)
(* without fault and what was kept of them, EndedOK why the parse ended.   *)
(***************************************************************************)
EXTENDS CreateIndexBody, SequenceTheorems, TLAPS

(* What a body is made of. *)
LEMMA BodyTypes ==
    ASSUME NEW b \in Bodies
    PROVE  /\ b.json \in {"object", "unreadable", "other"}
           /\ b.fields \in Seq(Fields)
           /\ Len(b.fields) \in Nat
           /\ DOMAIN b.fields = 1 .. Len(b.fields)
           /\ \A i \in 1 .. Len(b.fields) :
                b.fields[i].key \in FieldKeys /\ b.fields[i].value \in Values
<1>1. /\ b.json \in {"object", "unreadable", "other"}
      /\ b.fields \in UNION {[1 .. n -> Fields] : n \in 0 .. MaxFields} \/ b.fields = <<>>
  BY DEF Bodies
<1>2. b.fields \in Seq(Fields)
  <2>1. CASE b.fields = <<>>
    BY <2>1
  <2>2. CASE b.fields \in UNION {[1 .. n -> Fields] : n \in 0 .. MaxFields}
    <3>1. PICK n \in 0 .. MaxFields : b.fields \in [1 .. n -> Fields]
      BY <2>2
    <3>2. n \in Nat
      BY BodyAssumption
    <3> QED BY <3>1, <3>2, SeqDef
  <2> QED BY <1>1, <2>1, <2>2
<1>3. Len(b.fields) \in Nat /\ DOMAIN b.fields = 1 .. Len(b.fields)
  BY <1>2
<1>4. \A i \in 1 .. Len(b.fields) : b.fields[i] \in Fields
  BY <1>2
<1> QED BY <1>1, <1>2, <1>3, <1>4 DEF Fields

(* A value is told from the others by what the parser asks of it. *)
LEMMA ValueKinds ==
    ASSUME NEW v \in Values
    PROVE  /\ v.type = "string" <=> v \in Strings
           /\ v \in Strings => v.text \in Texts /\ v = [type |-> "string", text |-> v.text]
           /\ v = OtherValue => v \notin Strings \cup {Null}
           /\ v # OtherValue <=> v \in Strings \cup {Null}
           /\ v = Null => v \notin Strings
<1>1. Null.type = "null" /\ OtherValue.type = "other"
  BY DEF Null, OtherValue
<1>2. \A s \in Strings : s.type = "string" /\ s.text \in Texts
                         /\ s = [type |-> "string", text |-> s.text]
  BY DEF Strings
<1>3. v \in Strings \/ v = Null \/ v = OtherValue
  BY DEF Values
<1> QED BY <1>1, <1>2, <1>3

(* What ends a parse is told from what has not ended. *)
LEMMA ErrorFields ==
    /\ Pending.error = "pending" /\ NotJson.error = "not json"
    /\ NotAnObject.error = "not an object" /\ UnknownField.error = "unknown"
    /\ UidRequired.error = "no uid" /\ InvalidUid.error = "invalid uid"
    /\ \A key : MustBe(key).error = "wrong type" /\ Repeated(key).error = "repeated"
BY DEF Pending, NotJson, NotAnObject, UnknownField, UidRequired, InvalidUid,
       MustBe, Repeated

(* The field that a handler of read_field() is given. *)
LEMMA AtPosition ==
    ASSUME TypeOK, NEW key, Reading(key)
    PROVE  /\ position \in 1 .. Len(body.fields)
           /\ position + 1 \in 1 .. Len(body.fields) + 1
           /\ body.fields[position].key = key
           /\ Value \in Values
           /\ Value = body.fields[position].value
           /\ pc = "fields"
<1>1. Len(body.fields) \in Nat /\ position \in 1 .. Len(body.fields) + 1
  BY BodyTypes DEF TypeOK
<1>2. position \in 1 .. Len(body.fields)
  BY <1>1 DEF Reading, FieldsDone
<1> QED BY <1>1, <1>2, BodyTypes DEF Reading, TypeOK, Value

-----------------------------------------------------------------------------
LEMMA InvInit == Init => Inv
<1> SUFFICES ASSUME Init PROVE Inv
  OBVIOUS
<1>1. Len(body.fields) \in Nat
  BY BodyTypes DEF Init
<1>2. TypeOK
  BY <1>1 DEF Init, TypeOK, NoFields, Pending
<1>3. 1 .. position - 1 = {}
  BY DEF Init
<1>4. ReadOK
  BY <1>3 DEF Init, ReadOK, NoFields
<1> QED BY <1>2, <1>4 DEF Init, Inv, EndedOK

(* An outcome that ends the parse leaves all else alone. *)
LEMMA FinishKeeps ==
    ASSUME Inv, NEW outcome, Finish(outcome), outcome # Pending
    PROVE  TypeOK' /\ ReadOK' /\ (pc = "fields" => body.json = "object")'
<1>1. TypeOK'
  BY DEF Inv, TypeOK, Finish
<1>2. ReadOK'
  BY DEF Inv, ReadOK, Finish, Faultless, UidField, KeyField
<1> QED BY <1>1, <1>2 DEF Finish

(* The field at position is at fault.                                      *)
LEMMA FaultEnds ==
    ASSUME Inv, NEW key, Reading(key), NEW outcome, Finish(outcome), ~Faultless(position),
           outcome.error \in {"wrong type", "repeated", "unknown", "not json"},
           outcome = UnknownField => key = "unknown"
    PROVE  Inv'
<1>1. outcome # Pending
  BY ErrorFields
<1>2. EndedOK'
  BY AtPosition DEF Inv, EndedOK, Finish, Reading, FieldsDone, Faultless, UidField, KeyField
<1> QED BY <1>1, <1>2, FinishKeeps DEF Inv

LEMMA IterateKeepsInv == Inv /\ Iterate => Inv'
<1> SUFFICES ASSUME Inv, Iterate PROVE Inv'
  OBVIOUS
<1>1. CASE body.json = "unreadable" /\ Finish(NotJson)
  <2>1. NotJson # Pending
    BY ErrorFields
  <2>2. TypeOK' /\ ReadOK' /\ (pc = "fields" => body.json = "object")'
    BY <1>1, <2>1, FinishKeeps
  <2>3. EndedOK'
    BY <1>1 DEF EndedOK, Finish
  <2> QED BY <2>2, <2>3 DEF Inv
<1>2. CASE body.json = "other" /\ Finish(NotAnObject)
  <2>1. NotAnObject # Pending
    BY ErrorFields
  <2>2. TypeOK' /\ ReadOK' /\ (pc = "fields" => body.json = "object")'
    BY <1>2, <2>1, FinishKeeps
  <2>3. EndedOK'
    BY <1>2 DEF EndedOK, Finish
  <2> QED BY <2>2, <2>3 DEF Inv
<1>3. CASE body.json = "object" /\ Continue("fields")
  <2>1. TypeOK'
    BY <1>3 DEF Inv, TypeOK, Continue, Iterate
  <2>2. ReadOK'
    BY <1>3 DEF Inv, ReadOK, Continue, Faultless, UidField, KeyField
  <2> QED BY <1>3, <2>1, <2>2 DEF Inv, EndedOK, Continue
<1> QED BY <1>1, <1>2, <1>3 DEF Iterate

LEMMA EndKeepsInv == Inv /\ End => Inv'
<1> SUFFICES ASSUME Inv, End PROVE Inv'
  OBVIOUS
<1> DEFINE outcome == IF body.trailing THEN NotJson ELSE ToCommand
<1>1. outcome # Pending
  <2>1. Command(fields.uid, fields.primaryKey).error = "none"
    BY DEF Command
  <2>2. outcome.error \in {"not json", "no uid", "invalid uid", "none"}
    BY <2>1, ErrorFields DEF ToCommand
  <2> QED BY <2>2, ErrorFields
<1>2. EndedOK'
  BY DEF Inv, End, Finish, EndedOK, FieldsDone, ToCommand
<1>3. Finish(outcome)
  BY DEF End
<1> QED BY <1>1, <1>2, <1>3, FinishKeeps DEF Inv

LEMMA RefuseOtherKeepsInv == Inv /\ RefuseOther => Inv'
<1> SUFFICES ASSUME Inv, RefuseOther PROVE Inv'
  OBVIOUS
<1>1. ASSUME NEW key \in {"unknown", "broken"}, Reading(key)
      PROVE  ~Faultless(position)
  BY <1>1, AtPosition DEF Inv, Faultless
<1>2. CASE Reading("unknown") /\ Finish(UnknownField)
  BY <1>1, <1>2, FaultEnds, ErrorFields
<1>3. CASE Reading("broken") /\ Finish(NotJson)
  BY <1>1, <1>3, FaultEnds, ErrorFields
<1> QED BY <1>2, <1>3 DEF RefuseOther

(* A field that is kept is without fault, and the next one is read.        *)
LEMMA KeepKeepsInv ==
    ASSUME Inv, NEW key, Reading(key), NEW kept, Keep(kept), Faultless(position),
           kept \in [uid: Texts \cup {None}, hasPrimaryKey: BOOLEAN,
                     primaryKey: Texts \cup {None}],
           \/ /\ key = "uid" /\ fields.uid = None /\ kept.uid = Value.text
              /\ kept.uid # None
              /\ kept.hasPrimaryKey = fields.hasPrimaryKey
              /\ kept.primaryKey = fields.primaryKey
           \/ /\ key = "primaryKey" /\ ~fields.hasPrimaryKey /\ kept.hasPrimaryKey
              /\ kept.primaryKey = IF Value = Null THEN None ELSE Value.text
              /\ kept.uid = fields.uid
    PROVE  Inv'
<1>1. /\ position \in 1 .. Len(body.fields) /\ position + 1 \in 1 .. Len(body.fields) + 1
      /\ body.fields[position].key = key /\ Value = body.fields[position].value
      /\ pc = "fields" /\ Len(body.fields) \in Nat
  BY AtPosition, BodyTypes DEF Inv, TypeOK
<1>2. /\ fields' = kept /\ position' = position + 1
      /\ body' = body /\ pc' = pc /\ result' = result
  BY DEF Keep
<1>3. TypeOK'
  BY <1>1, <1>2 DEF Inv, TypeOK
<1> DEFINE read == 1 .. position - 1
           after == 1 .. position' - 1
<1>4. /\ \A i : i \in after <=> i \in read \/ i = position
      /\ position \notin read
  BY <1>1, <1>2
<1> HIDE DEF read, after
<1>5. \A i \in after : Faultless(i)'
  <2>1. \A i : Faultless(i)' <=> Faultless(i)
    BY <1>2 DEF Faultless, UidField, KeyField
  <2> QED BY <1>4, <2>1 DEF Inv, ReadOK, read
<1>6. IF fields'.uid = None
      THEN \A i \in after : body.fields[i].key # "uid"
      ELSE \E i \in after : /\ body.fields[i].key = "uid"
                            /\ body.fields[i].value.text = fields'.uid
  BY <1>1, <1>2, <1>4 DEF Inv, ReadOK, read
<1>7. /\ fields'.hasPrimaryKey <=> \E i \in after : body.fields[i].key = "primaryKey"
      /\ ~fields'.hasPrimaryKey => fields'.primaryKey = None
      /\ \A i \in after : body.fields[i].key = "primaryKey" =>
            fields'.primaryKey = IF body.fields[i].value = Null THEN None
                                                            ELSE body.fields[i].value.text
  BY <1>1, <1>2, <1>4 DEF Inv, ReadOK, read
<1>8. ReadOK'
  BY <1>2, <1>5, <1>6, <1>7 DEF ReadOK, after
<1> QED BY <1>1, <1>2, <1>3, <1>8 DEF Inv, EndedOK

LEMMA ReadUidKeepsInv == Inv /\ ReadUid => Inv'
<1> SUFFICES ASSUME Inv, ReadUid PROVE Inv'
  OBVIOUS
<1>1. /\ Reading("uid") /\ position \in 1 .. Len(body.fields)
      /\ body.fields[position].key = "uid"
      /\ Value \in Values /\ Value = body.fields[position].value
  BY AtPosition DEF ReadUid, Inv
<1>2. CASE fields.uid # None /\ Finish(Repeated("uid"))
  <2>1. ~Faultless(position)
    BY <1>1, <1>2 DEF Inv, ReadOK, Faultless
  <2>2. Repeated("uid").error = "repeated" /\ Repeated("uid") # UnknownField
    BY ErrorFields
  <2> QED BY <1>1, <1>2, <2>1, <2>2, FaultEnds
<1>3. CASE Value.type # "string" /\ Finish(MustBe("uid"))
  <2>1. ~Faultless(position)
    BY <1>1, <1>3, ValueKinds DEF Faultless, UidField
  <2>2. MustBe("uid").error = "wrong type" /\ MustBe("uid") # UnknownField
    BY ErrorFields
  <2> QED BY <1>1, <1>3, <2>1, <2>2, FaultEnds
<1>4. CASE /\ fields.uid = None /\ Value.type = "string"
           /\ Keep([fields EXCEPT !.uid = Value.text])
  <2>1. Value \in Strings /\ Value.text \in Texts
    BY <1>1, <1>4, ValueKinds
  <2>2. Faultless(position)
    BY <1>1, <1>4, <2>1 DEF Inv, ReadOK, Faultless, UidField
  <2> DEFINE kept == [fields EXCEPT !.uid = Value.text]
  <2>3. /\ kept \in [uid: Texts \cup {None}, hasPrimaryKey: BOOLEAN,
                     primaryKey: Texts \cup {None}]
        /\ kept.uid = Value.text /\ kept.hasPrimaryKey = fields.hasPrimaryKey
        /\ kept.primaryKey = fields.primaryKey
    BY <2>1 DEF Inv, TypeOK
  <2>4. kept.uid # None
    BY <2>1, <2>3, BodyAssumption DEF Texts
  <2> HIDE DEF kept
  <2>5. Keep(kept)
    BY <1>4 DEF kept
  <2> QED BY <1>1, <1>4, <2>2, <2>3, <2>4, <2>5, KeepKeepsInv
<1> QED BY <1>2, <1>3, <1>4 DEF ReadUid

LEMMA ReadPrimaryKeyKeepsInv == Inv /\ ReadPrimaryKey => Inv'
<1> SUFFICES ASSUME Inv, ReadPrimaryKey PROVE Inv'
  OBVIOUS
<1>1. /\ Reading("primaryKey") /\ position \in 1 .. Len(body.fields)
      /\ body.fields[position].key = "primaryKey"
      /\ Value \in Values /\ Value = body.fields[position].value
  BY AtPosition DEF ReadPrimaryKey, Inv
<1>2. CASE fields.hasPrimaryKey /\ Finish(Repeated("primaryKey"))
  <2>1. ~Faultless(position)
    BY <1>1, <1>2 DEF Inv, ReadOK, Faultless
  <2>2. Repeated("primaryKey").error = "repeated" /\ Repeated("primaryKey") # UnknownField
    BY ErrorFields
  <2> QED BY <1>1, <1>2, <2>1, <2>2, FaultEnds
<1>3. CASE Value = OtherValue /\ Finish(MustBe("primaryKey"))
  <2>1. ~Faultless(position)
    BY <1>1, <1>3, ValueKinds DEF Faultless, KeyField
  <2>2. MustBe("primaryKey").error = "wrong type" /\ MustBe("primaryKey") # UnknownField
    BY ErrorFields
  <2> QED BY <1>1, <1>3, <2>1, <2>2, FaultEnds
<1> DEFINE key == IF Value = Null THEN None ELSE Value.text
           kept == [fields EXCEPT !.hasPrimaryKey = TRUE, !.primaryKey = key]
<1>4. CASE ~fields.hasPrimaryKey /\ Value # OtherValue /\ Keep(kept)
  <2>1. Value \in Strings \cup {Null} /\ key \in Texts \cup {None}
    BY <1>1, <1>4, ValueKinds
  <2>2. Faultless(position)
    BY <1>1, <1>4, <2>1 DEF Inv, ReadOK, Faultless, KeyField
  <2> HIDE DEF key
  <2>3. /\ kept \in [uid: Texts \cup {None}, hasPrimaryKey: BOOLEAN,
                     primaryKey: Texts \cup {None}]
        /\ kept.uid = fields.uid /\ kept.hasPrimaryKey /\ kept.primaryKey = key
    BY <2>1 DEF Inv, TypeOK
  <2> HIDE DEF kept
  <2> QED BY <1>1, <1>4, <2>2, <2>3, KeepKeepsInv DEF key
<1> QED BY <1>2, <1>3, <1>4 DEF ReadPrimaryKey

-----------------------------------------------------------------------------
(* index_routes.cpp: what the parser has kept is what it has read, at      *)
(* every field, and it ends for the reason it gives.                       *)
THEOREM BodyInv == Spec => []Inv
<1>1. Inv /\ [Next]_vars => Inv'
  <2> SUFFICES ASSUME Inv, [Next]_vars PROVE Inv'
    OBVIOUS
  <2>1. CASE UNCHANGED vars
    <3>1. TypeOK' /\ ReadOK' /\ EndedOK'
      BY <2>1 DEF vars, Inv, TypeOK, ReadOK, EndedOK, Faultless, UidField, KeyField,
                  FieldsDone, ToCommand
    <3> QED BY <2>1, <3>1 DEF vars, Inv
  <2> QED
    BY <2>1, IterateKeepsInv, ReadUidKeepsInv, ReadPrimaryKeyKeepsInv, RefuseOtherKeepsInv,
       EndKeepsInv DEF Next
<1> QED BY <1>1, InvInit, PTL DEF Spec

(* All fields read without fault is what makes a body an object to us.     *)
LEMMA FaultlessIsObject ==
    ASSUME Inv, body.json = "object", FieldsDone, ~body.trailing
    PROVE  IsObject
<1>1. /\ DOMAIN body.fields = 1 .. Len(body.fields) /\ Len(body.fields) \in Nat
      /\ position = Len(body.fields) + 1
  BY BodyTypes DEF Inv, TypeOK, FieldsDone
<1>2. \A i \in DOMAIN body.fields : Faultless(i)
  BY <1>1 DEF Inv, ReadOK
<1>3. Positions("unknown") \cup Positions("broken") = {}
  BY <1>2 DEF Positions, Faultless
<1>4. ASSUME NEW key \in {"uid", "primaryKey"}, NEW i \in Positions(key), NEW j \in Positions(key)
      PROVE  i = j
  <2>1. i \in Nat /\ j \in Nat /\ i >= 1 /\ j >= 1
    BY <1>1 DEF Positions
  <2>2. ~(i < j) /\ ~(j < i)
    <3>1. ASSUME i < j PROVE FALSE
      <4>1. i \in 1 .. j - 1
        BY <2>1, <3>1
      <4> QED BY <1>2, <4>1 DEF Positions, Faultless
    <3>2. ASSUME j < i PROVE FALSE
      <4>1. j \in 1 .. i - 1
        BY <2>1, <3>2
      <4> QED BY <1>2, <4>1 DEF Positions, Faultless
    <3> QED BY <3>1, <3>2
  <2> QED BY <2>1, <2>2
<1>5. /\ \A i \in Positions("uid") : UidField(body.fields[i])
      /\ \A i \in Positions("primaryKey") : KeyField(body.fields[i])
  BY <1>2 DEF Positions, Faultless
<1> QED BY <1>3, <1>4, <1>5 DEF IsObject

(* And in such a body no field is at fault.                                *)
LEMMA ObjectIsFaultless ==
    ASSUME Inv, IsObject, NEW i \in 1 .. Len(body.fields)
    PROVE  Faultless(i)
<1>1. /\ DOMAIN body.fields = 1 .. Len(body.fields) /\ Len(body.fields) \in Nat
      /\ body.fields[i].key \in FieldKeys
  BY BodyTypes DEF Inv, TypeOK
<1>2. body.fields[i].key \in {"uid", "primaryKey"}
  BY <1>1 DEF IsObject, Positions, FieldKeys
<1>3. \A j \in 1 .. i - 1 : j \in DOMAIN body.fields /\ j # i
  BY <1>1
<1>4. \A j \in 1 .. i - 1 : body.fields[j].key # body.fields[i].key
  BY <1>1, <1>2, <1>3 DEF IsObject, Positions
<1> QED BY <1>1, <1>2, <1>4 DEF IsObject, Positions, Faultless

(* FR-01, FR-72: accepted exactly when it is a create request.             *)
THEOREM AcceptedExactly == Spec => []AcceptsExactlyRequests
<1>1. Inv => AcceptsExactlyRequests
  <2> SUFFICES ASSUME Inv, pc = "done"
               PROVE  result.error = "none" <=>
                        IsObject /\ \E i \in Positions("uid") : body.fields[i].value.text \in Uids
    BY DEF AcceptsExactlyRequests
  <2>1. CASE body.json # "object" /\ result \in {NotJson, NotAnObject}
    BY <2>1, ErrorFields DEF IsObject
  <2>2. CASE /\ body.json = "object" /\ ~FieldsDone /\ ~Faultless(position)
             /\ result.error \in {"wrong type", "repeated", "unknown", "not json"}
    <3>1. position \in 1 .. Len(body.fields)
      <4>1. Len(body.fields) \in Nat /\ position \in 1 .. Len(body.fields) + 1
        BY BodyTypes DEF Inv, TypeOK
      <4>2. ~(position > Len(body.fields))
        BY <2>2 DEF FieldsDone
      <4> QED BY <4>1, <4>2
    <3>2. ~IsObject
      BY <2>2, <3>1, ObjectIsFaultless
    <3> QED BY <2>2, <3>2
  <2>3. CASE /\ body.json = "object" /\ FieldsDone
             /\ result = IF body.trailing THEN NotJson ELSE ToCommand
    <3>1. CASE body.trailing
      BY <2>3, <3>1, ErrorFields DEF IsObject
    <3>2. CASE ~body.trailing
      <4>1. IsObject
        BY <2>3, <3>2, FaultlessIsObject
      <4>2. /\ position = Len(body.fields) + 1 /\ Len(body.fields) \in Nat
            /\ DOMAIN body.fields = 1 .. position - 1
        BY <2>3, BodyTypes DEF Inv, TypeOK, FieldsDone
      <4>3. (\E i \in Positions("uid") : body.fields[i].value.text \in Uids)
              <=> fields.uid # None /\ fields.uid \in Uids
        <5>1. CASE fields.uid = None
          BY <4>2, <5>1 DEF Inv, ReadOK, Positions
        <5>2. CASE fields.uid # None
          <6>1. PICK i \in Positions("uid") : body.fields[i].value.text = fields.uid
            BY <4>2, <5>2 DEF Inv, ReadOK, Positions
          <6> QED BY <4>1, <5>2, <6>1 DEF IsObject
        <5> QED BY <5>1, <5>2
      <4>4. Command(fields.uid, fields.primaryKey).error = "none"
        BY DEF Command
      <4>5. result.error = "none" <=> fields.uid # None /\ fields.uid \in Uids
        BY <2>3, <3>2, <4>4, ErrorFields DEF ToCommand
      <4> QED BY <4>1, <4>3, <4>5
    <3> QED BY <3>1, <3>2
  <2> QED BY <2>1, <2>2, <2>3 DEF Inv, EndedOK
<1> QED BY <1>1, BodyInv, PTL

(* FR-72: the refusal names the first offending field.                     *)
THEOREM FirstFaultReported == Spec => []FirstBadFieldIsReported
<1>1. Inv => FirstBadFieldIsReported
  <2> SUFFICES ASSUME Inv, pc = "done", body.json = "object"
               PROVE  /\ \A i \in 1 .. position - 1 : Faultless(i)
                      /\ ~FieldsDone => ~Faultless(position)
                      /\ result = UnknownField =>
                            ~FieldsDone /\ body.fields[position].key = "unknown"
                      /\ result.error \in {"no uid", "invalid uid"} => IsObject
    BY DEF FirstBadFieldIsReported
  <2>1. \A i \in 1 .. position - 1 : Faultless(i)
    BY DEF Inv, ReadOK
  <2>2. CASE /\ ~FieldsDone /\ ~Faultless(position)
             /\ result.error \in {"wrong type", "repeated", "unknown", "not json"}
             /\ result = UnknownField => body.fields[position].key = "unknown"
    BY <2>1, <2>2
  <2>3. CASE FieldsDone /\ result = IF body.trailing THEN NotJson ELSE ToCommand
    <3>1. Command(fields.uid, fields.primaryKey).error = "none"
      BY DEF Command
    <3>2. result.error \in {"not json", "no uid", "invalid uid", "none"}
      BY <2>3, <3>1, ErrorFields DEF ToCommand
    <3>3. result # UnknownField
      BY <3>2, ErrorFields
    <3>4. result.error \in {"no uid", "invalid uid"} => ~body.trailing
      BY <2>3, ErrorFields
    <3> QED BY <2>1, <2>3, <3>3, <3>4, FaultlessIsObject
  <2> QED BY <2>2, <2>3 DEF Inv, EndedOK
<1> QED BY <1>1, BodyInv, PTL

(* The command says what the body said, in whatever order it said it.      *)
THEOREM CommandIsWhatWasSent == Spec => []CommandSaysWhatWasSent
<1>1. Inv => CommandSaysWhatWasSent
  <2> SUFFICES ASSUME Inv, pc = "done", result.error = "none"
               PROVE  /\ Sent("uid") = {[type |-> "string", text |-> result.uid]}
                      /\ Sent("primaryKey") \in
                            IF result.primaryKey = None THEN {{}, {Null}}
                            ELSE {{[type |-> "string", text |-> result.primaryKey]}}
    BY DEF CommandSaysWhatWasSent
  <2>1. /\ body.json = "object" /\ FieldsDone /\ ~body.trailing
        /\ result = ToCommand
    BY ErrorFields DEF Inv, EndedOK
  <2>2. Command(fields.uid, fields.primaryKey).error = "none"
    BY DEF Command
  <2>3. fields.uid # None /\ result = Command(fields.uid, fields.primaryKey)
    BY <2>1, ErrorFields DEF ToCommand
  <2>4. result.uid = fields.uid /\ result.primaryKey = fields.primaryKey
    BY <2>3 DEF Command
  <2>5. /\ position = Len(body.fields) + 1 /\ Len(body.fields) \in Nat
        /\ DOMAIN body.fields = 1 .. position - 1
        /\ \A i \in DOMAIN body.fields : body.fields[i].value \in Values
    BY <2>1, BodyTypes DEF Inv, TypeOK, FieldsDone
  <2>6. IsObject
    BY <2>1, FaultlessIsObject
  <2>7. Sent("uid") = {[type |-> "string", text |-> result.uid]}
    <3>1. PICK i \in Positions("uid") : body.fields[i].value.text = fields.uid
      BY <2>3, <2>5 DEF Inv, ReadOK, Positions
    <3>2. body.fields[i].value \in Strings /\ \A j \in Positions("uid") : j = i
      BY <2>6, <3>1 DEF IsObject, UidField
    <3>3. body.fields[i].value = [type |-> "string", text |-> result.uid]
      BY <2>4, <3>1, <3>2, ValueKinds DEF Values
    <3>4. \A v : v \in Sent("uid") <=> v = body.fields[i].value
      BY <3>1, <3>2 DEF Sent
    <3> QED BY <3>3, <3>4
  <2>8. CASE Positions("primaryKey") = {}
    <3>1. Sent("primaryKey") = {}
      BY <2>8 DEF Sent
    <3>2. fields.primaryKey = None
      BY <2>5, <2>8 DEF Inv, ReadOK, Positions, TypeOK
    <3> QED BY <2>4, <2>7, <3>1, <3>2
  <2>9. CASE Positions("primaryKey") # {}
    <3>1. PICK i \in Positions("primaryKey") : TRUE
      BY <2>9
    <3>2. /\ body.fields[i].value \in Strings \cup {Null}
          /\ \A j \in Positions("primaryKey") : j = i
      BY <2>6, <3>1 DEF IsObject, KeyField
    <3>3. Sent("primaryKey") = {body.fields[i].value}
      <4>1. \A v : v \in Sent("primaryKey") <=> v = body.fields[i].value
        BY <3>1, <3>2 DEF Sent
      <4> QED BY <4>1
    <3>4. fields.primaryKey = IF body.fields[i].value = Null THEN None
                                                         ELSE body.fields[i].value.text
      BY <2>5, <3>1 DEF Inv, ReadOK, Positions
    <3>5. CASE body.fields[i].value = Null
      BY <2>4, <2>7, <3>3, <3>4, <3>5
    <3>6. CASE body.fields[i].value # Null
      <4>1. /\ body.fields[i].value \in Strings
            /\ fields.primaryKey = body.fields[i].value.text
        BY <3>2, <3>4, <3>6
      <4>2. /\ body.fields[i].value = [type |-> "string", text |-> fields.primaryKey]
            /\ fields.primaryKey \in Texts
        BY <4>1, ValueKinds DEF Values
      <4>3. fields.primaryKey # None
        BY <4>2, BodyAssumption DEF Texts
      <4> QED BY <2>4, <2>7, <3>3, <4>2, <4>3
    <3> QED BY <3>5, <3>6
  <2> QED BY <2>8, <2>9
<1> QED BY <1>1, BodyInv, PTL
==============================================================================
