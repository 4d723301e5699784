------------------------- MODULE DocumentBatchProofs --------------------------
(***************************************************************************)
(* Proofs about the parsing of a batch: for every body, of any number of   *)
(* elements of any depth and width, and any limits.                        *)
(***************************************************************************)
EXTENDS DocumentBatch, InductionTheorems

-----------------------------------------------------------------------------
(* The recursive functions are what their equations say.                   *)

Outcomes == {Valid, NotJson, TooDeep}

LEMMA FunctionIsSeq ==
    ASSUME NEW n \in Nat, NEW S, NEW f \in [1 .. n -> S]
    PROVE  f \in Seq(S) /\ Len(f) = n
  OBVIOUS

(* A loop that returns early returns what its entries do, and nothing is   *)
(* wrong when nothing is with any entry.                                   *)
LEMMA FirstErrorIs ==
    ASSUME NEW S, NEW outcomes \in Seq(S)
    PROVE  /\ FirstError(outcomes) \in S \cup {Valid}
           /\ FirstError(outcomes) = Valid <=> \A i \in DOMAIN outcomes : outcomes[i] = Valid
<1> DEFINE I == {i \in 1 .. Len(outcomes) : outcomes[i] # Valid}
<1>0. Len(outcomes) \in Nat /\ DOMAIN outcomes = 1 .. Len(outcomes)
  OBVIOUS
<1>1. SelectInSeq(outcomes, LAMBDA outcome : outcome # Valid) = IF I # {} THEN Min(I) ELSE 0
  BY DEF SelectInSeq
<1>2. FirstError(outcomes) =
        IF (IF I # {} THEN Min(I) ELSE 0) = 0 THEN Valid
        ELSE outcomes[IF I # {} THEN Min(I) ELSE 0]
  BY <1>1 DEF FirstError
<1>3. CASE I = {}
  BY <1>0, <1>2, <1>3
<1>4. CASE I # {}
  <2>1. I \subseteq Nat
    BY <1>0
  <2>2. PICK x \in I : \A y \in I : x <= y
    BY <1>4, <2>1, LeastExists
  <2>3. Min(I) \in I
    BY <2>2 DEF Min
  <2> HIDE DEF I
  <2>4. FirstError(outcomes) = outcomes[Min(I)] /\ Min(I) \in 1 .. Len(outcomes)
        /\ outcomes[Min(I)] # Valid
    BY <1>2, <1>4, <2>3 DEF I
  <2> QED
    BY <1>0, <2>4
<1> QED
  BY <1>3, <1>4

(* What is in the entries of a value. *)
LEMMA EntryTypes ==
    ASSUME NEW value \in Values
    PROVE  /\ value.entries \in Seq(Entries)
           /\ Len(value.entries) \in Nat
           /\ DOMAIN value.entries = 1 .. Len(value.entries)
           /\ \A i \in DOMAIN value.entries :
                 /\ value.entries[i].ok \in BOOLEAN
                 /\ value.entries[i].value \in Values
<1>1. value.entries \in Seq(Entries)
  BY ValuesAssumption
<1>2. \A i \in DOMAIN value.entries : value.entries[i] \in Entries
  BY <1>1
<1> QED
  BY <1>1, <1>2 DEF Entries

LEMMA ValidateEntriesIs ==
    ASSUME NEW value \in Values, NEW deeper \in [Values -> Outcomes]
    PROVE  /\ ValidateEntries(value, deeper) \in Outcomes
           /\ ValidateEntries(value, deeper) = Valid <=>
                \A i \in DOMAIN value.entries :
                   value.entries[i].ok /\ deeper[value.entries[i].value] = Valid
<1> DEFINE outcomes == [i \in DOMAIN value.entries |->
                          IF value.entries[i].ok THEN deeper[value.entries[i].value]
                          ELSE NotJson]
<1>1. \A i \in DOMAIN value.entries : deeper[value.entries[i].value] \in Outcomes
  BY EntryTypes
<1>2. \A i \in DOMAIN value.entries : outcomes[i] \in Outcomes
  BY <1>1 DEF Outcomes
<1>3. outcomes \in Seq(Outcomes)
  <2>1. outcomes \in [1 .. Len(value.entries) -> Outcomes]
    BY <1>2, EntryTypes
  <2> HIDE DEF outcomes
  <2> QED
    BY <2>1, EntryTypes, FunctionIsSeq
<1>4. NotJson # Valid
  BY DEF NotJson, Valid
<1>5. ASSUME NEW i \in DOMAIN value.entries
      PROVE  outcomes[i] = Valid <=>
               value.entries[i].ok /\ deeper[value.entries[i].value] = Valid
  BY <1>4, <1>5
<1>6. DOMAIN outcomes = DOMAIN value.entries /\ Outcomes \cup {Valid} = Outcomes
  BY DEF Outcomes
<1>7. ValidateEntries(value, deeper) = FirstError(outcomes)
  BY DEF ValidateEntries
<1> HIDE DEF outcomes
<1> QED
  BY <1>3, <1>5, <1>6, <1>7, FirstErrorIs

LEMMA ValidateValueIs ==
    /\ ValidateValue \in [1 .. MaxNestingDepth + 1 -> [Values -> Outcomes]]
    /\ \A depth \in 1 .. MaxNestingDepth + 1 : \A value \in Values :
          ValidateValue[depth][value] =
            IF PastDepth(depth) THEN TooDeep
            ELSE IF value.ok THEN ValidateEntries(value, ValidateValue[depth + 1])
            ELSE NotJson
<1> DEFINE M == MaxNestingDepth
           D == 1 .. M + 1
           X == [Values -> Outcomes]
           base == [value \in Values |-> TooDeep]
           turn(deeper) == [value \in Values |->
                              IF value.ok THEN ValidateEntries(value, deeper) ELSE NotJson]
           Step == [k \in Nat |-> [deeper \in X |-> turn(deeper)]]
           level(depth, deeper) == [value \in Values |->
                                      IF PastDepth(depth) THEN TooDeep
                                      ELSE IF value.ok THEN ValidateEntries(value, deeper)
                                      ELSE NotJson]
<1>0. M \in Nat
  BY BatchLimitsAssumption
<1>1. base \in X
  BY DEF Outcomes
<1>2. ASSUME NEW deeper \in X PROVE turn(deeper) \in X
  <2>1. \A value \in Values : ValidateEntries(value, deeper) \in Outcomes
    BY ValidateEntriesIs
  <2>2. NotJson \in Outcomes
    BY DEF Outcomes
  <2> QED
    BY <2>1, <2>2
<1> HIDE DEF turn, base, X
<1>3. Step \in [Nat -> [X -> X]]
  BY <1>2
<1>4. PICK f : IsIteration(f, X, base, Step)
  <2> HIDE DEF Step
  <2> QED
    BY <1>1, <1>3, Iteration
<1>4a. /\ f \in [Nat -> X] /\ f[0] = base
       /\ \A n \in Nat : f[n + 1] = Step[n][f[n]]
  BY <1>4 DEF IsIteration
<1> DEFINE g == [depth \in D |-> f[M + 1 - depth]]
<1>5. ASSUME NEW depth \in D PROVE g[depth] = level(depth, g[depth + 1])
  <2>1. CASE depth = M + 1
    <3>1. g[depth] = base
      BY <1>0, <1>4a, <2>1
    <3>2. PastDepth(depth)
      BY <1>0, <2>1 DEF PastDepth
    <3> QED
      BY <3>1, <3>2 DEF base
  <2>2. CASE depth # M + 1
    <3>1. /\ depth + 1 \in D /\ M + 1 - (depth + 1) \in Nat
          /\ (M + 1 - (depth + 1)) + 1 = M + 1 - depth
          /\ ~PastDepth(depth)
      BY <1>0, <2>2 DEF PastDepth
    <3>2. g[depth] = Step[M + 1 - (depth + 1)][g[depth + 1]] /\ g[depth + 1] \in X
      BY <1>4a, <3>1
    <3>3. g[depth] = turn(g[depth + 1])
      BY <3>1, <3>2
    <3> QED
      BY <3>1, <3>3 DEF turn
  <2> QED
    BY <2>1, <2>2
<1>6. g \in [D -> X]
  <2>1. \A depth \in D : M + 1 - depth \in Nat
    BY <1>0
  <2> QED
    BY <1>4a, <2>1
<1> DEFINE Is(v) == v = [depth \in D |-> level(depth, v[depth + 1])]
<1>7. Is(g)
  BY <1>5
<1>8. ValidateValue = CHOOSE v : Is(v)
  BY DEF ValidateValue
<1>9. Is(ValidateValue)
  <2> HIDE DEF g, level
  <2> QED
    BY <1>7, <1>8
<1>10. /\ DOMAIN ValidateValue = D
       /\ \A depth \in D : ValidateValue[depth] = level(depth, ValidateValue[depth + 1])
  <2> HIDE DEF level, D
  <2> QED
    BY <1>9
<1> DEFINE T == {k \in Nat : k <= M => ValidateValue[M + 1 - k] \in X}
<1>11. 0 \in T
  <2>1. M + 1 \in D /\ PastDepth(M + 1) /\ M + 1 - 0 = M + 1
    BY <1>0 DEF PastDepth
  <2>2. ValidateValue[M + 1] = base
    BY <1>10, <2>1 DEF base
  <2> QED
    BY <1>1, <2>1, <2>2
<1>12. ASSUME NEW k \in Nat, k \in T PROVE k + 1 \in T
  <2> SUFFICES ASSUME k + 1 <= M PROVE ValidateValue[M + 1 - (k + 1)] \in X
    OBVIOUS
  <2> DEFINE depth == M + 1 - (k + 1)
  <2>1. /\ k <= M /\ depth \in D /\ depth + 1 = M + 1 - k /\ ~PastDepth(depth)
    BY <1>0 DEF PastDepth
  <2>2. ValidateValue[depth + 1] \in X
    BY <1>12, <2>1
  <2>3. ValidateValue[depth] = turn(ValidateValue[depth + 1])
    <3> HIDE DEF D
    <3> QED
      BY <1>10, <2>1 DEF turn
  <2> QED
    BY <1>2, <2>2, <2>3
<1>13. Nat \subseteq T
  <2> HIDE DEF T
  <2> QED
    BY <1>11, <1>12, Induction
<1>14. ASSUME NEW depth \in D PROVE ValidateValue[depth] \in X
  <2>1. M + 1 - depth \in Nat /\ M + 1 - depth <= M /\ M + 1 - (M + 1 - depth) = depth
    BY <1>0
  <2>2. M + 1 - depth \in T
    BY <1>13, <2>1
  <2> QED
    BY <2>1, <2>2
<1>15. ValidateValue \in [D -> X]
  <2> HIDE DEF D, level
  <2>1. ValidateValue = [depth \in D |-> ValidateValue[depth]]
    BY <1>9
  <2> QED
    BY <1>14, <2>1
<1>16. ASSUME NEW depth \in D, NEW value \in Values
       PROVE  ValidateValue[depth][value] =
                IF PastDepth(depth) THEN TooDeep
                ELSE IF value.ok THEN ValidateEntries(value, ValidateValue[depth + 1])
                ELSE NotJson
  <2> HIDE DEF D
  <2> QED
    BY <1>10
<1> QED
  BY <1>15, <1>16 DEF X

LEMMA WellFormedIs ==
    \A n \in Nat :
        WellFormed[n] =
          {value \in Values :
             /\ value.ok
             /\ \A i \in DOMAIN value.entries :
                   value.entries[i].ok /\ n > 0 /\ value.entries[i].value \in WellFormed[n - 1]}
<1> DEFINE X == SUBSET Values
           level(n, below) ==
             {value \in Values :
                /\ value.ok
                /\ \A i \in DOMAIN value.entries :
                      value.entries[i].ok /\ n > 0 /\ value.entries[i].value \in below}
           base == level(0, {})
           Step == [n \in Nat |-> [below \in X |-> level(n + 1, below)]]
           Is(w) == w = [n \in Nat |-> level(n, w[n - 1])]
<1>1. \A n, below : level(n, below) \in X
  OBVIOUS
<1>2. \A below : level(0, below) = base
  OBVIOUS
<1> HIDE DEF level, X
<1>3. base \in X /\ Step \in [Nat -> [X -> X]]
  BY <1>1
<1>4. PICK f : IsIteration(f, X, base, Step)
  <2> HIDE DEF Step, base
  <2> QED
    BY <1>3, Iteration
<1>5. f \in [Nat -> X] /\ f[0] = base /\ \A n \in Nat : f[n + 1] = level(n + 1, f[n])
  BY <1>4 DEF IsIteration
<1>6. ASSUME NEW n \in Nat PROVE f[n] = level(n, f[n - 1])
  <2>1. CASE n = 0
    BY <1>2, <1>5, <2>1
  <2>2. CASE n # 0
    <3>1. n - 1 \in Nat /\ (n - 1) + 1 = n
      BY <2>2
    <3> QED
      BY <1>5, <3>1
  <2> QED
    BY <2>1, <2>2
<1>7. Is(f)
  BY <1>5, <1>6
<1>8. WellFormed = CHOOSE w : Is(w)
  BY DEF WellFormed, level
<1>9. Is(WellFormed)
  BY <1>7, <1>8
<1>10. \A n \in Nat : WellFormed[n] = level(n, WellFormed[n - 1])
  BY <1>9
<1> QED
  BY <1>10 DEF level

-----------------------------------------------------------------------------
(* What is checked on the way down is what holds all the way down.         *)

LEMMA ErrorsDiffer ==
    /\ Valid # NotJson /\ Valid # TooDeep
    /\ \A index \in Nat : /\ NotAnObject(index) # Valid
                          /\ NotAnObject(index) # NotJson
                          /\ NotAnObject(index) # TooDeep
<1>1. \A index \in Nat : NotAnObject(index).error = "not an object"
  BY DEF NotAnObject
<1>2. Valid.error = "none" /\ NotJson.error = "not json" /\ TooDeep.error = "too deep"
  BY DEF Valid, NotJson, TooDeep
<1>3. Valid # NotJson /\ Valid # TooDeep
  BY <1>2
<1>4. ASSUME NEW index \in Nat
      PROVE  /\ NotAnObject(index) # Valid
             /\ NotAnObject(index) # NotJson
             /\ NotAnObject(index) # TooDeep
  BY <1>1, <1>2
<1> QED
  BY <1>3, <1>4

(* With k levels left, validate_value() accepts a value exactly when it is *)
(* without a fault and has at most k levels below it.                      *)
LEMMA ValidIsWellFormed ==
    \A k \in 0 .. MaxNestingDepth - 1 : \A value \in Values :
        ValidateValue[MaxNestingDepth - k][value] = Valid <=> value \in WellFormed[k]
<1> DEFINE M == MaxNestingDepth
           Agree(k) == \A value \in Values :
                          ValidateValue[M - k][value] = Valid <=> value \in WellFormed[k]
           T == {k \in Nat : k < M => Agree(k)}
<1>0. M \in Nat /\ M > 0
  BY BatchLimitsAssumption
<1>1. ASSUME NEW k \in Nat, k < M, NEW value \in Values
      PROVE  /\ ValidateValue[(M - k) + 1] \in [Values -> Outcomes]
             /\ ValidateValue[M - k][value] = Valid <=>
                  /\ value.ok
                  /\ \A i \in DOMAIN value.entries :
                        /\ value.entries[i].ok
                        /\ ValidateValue[(M - k) + 1][value.entries[i].value] = Valid
  <2>1. M - k \in 1 .. M + 1 /\ (M - k) + 1 \in 1 .. M + 1 /\ ~PastDepth(M - k)
    BY <1>0, <1>1 DEF PastDepth
  <2>2. ValidateValue[(M - k) + 1] \in [Values -> Outcomes]
    BY <2>1, ValidateValueIs
  <2>3. ValidateValue[M - k][value] =
          IF value.ok THEN ValidateEntries(value, ValidateValue[(M - k) + 1]) ELSE NotJson
    BY <2>1, ValidateValueIs
  <2>4. value.ok \in BOOLEAN
    BY ValuesAssumption
  <2> QED
    BY <2>2, <2>3, <2>4, ValidateEntriesIs, ErrorsDiffer
<1>2. 0 \in T
  <2>1. ASSUME NEW value \in Values
        PROVE  ValidateValue[M - 0][value] = Valid <=> value \in WellFormed[0]
    <3>1. (M - 0) + 1 \in 1 .. M + 1 /\ PastDepth((M - 0) + 1)
      BY <1>0 DEF PastDepth
    <3>2. \A v \in Values : ValidateValue[(M - 0) + 1][v] # Valid
      BY <3>1, ValidateValueIs, ErrorsDiffer
    <3>3. ValidateValue[M - 0][value] = Valid <=> value.ok /\ DOMAIN value.entries = {}
      BY <1>0, <1>1, <3>2, EntryTypes
    <3>4. value \in WellFormed[0] <=> value.ok /\ DOMAIN value.entries = {}
      BY WellFormedIs
    <3> QED
      BY <3>3, <3>4
  <2> QED
    BY <2>1
<1>3. ASSUME NEW k \in Nat, k \in T PROVE k + 1 \in T
  <2> SUFFICES ASSUME k + 1 < M, NEW value \in Values
               PROVE  ValidateValue[M - (k + 1)][value] = Valid <=> value \in WellFormed[k + 1]
    OBVIOUS
  <2>1. k < M /\ (M - (k + 1)) + 1 = M - k /\ k + 1 > 0 /\ (k + 1) - 1 = k /\ k + 1 \in Nat
    BY <1>0
  <2>2. Agree(k)
    BY <1>3, <2>1
  <2>3. ValidateValue[M - (k + 1)][value] = Valid <=>
          /\ value.ok
          /\ \A i \in DOMAIN value.entries :
                /\ value.entries[i].ok
                /\ ValidateValue[M - k][value.entries[i].value] = Valid
    BY <1>1, <2>1
  <2>4. value \in WellFormed[k + 1] <=>
          /\ value.ok
          /\ \A i \in DOMAIN value.entries :
                value.entries[i].ok /\ value.entries[i].value \in WellFormed[k]
    BY <2>1, WellFormedIs
  <2> QED
    BY <2>2, <2>3, <2>4, EntryTypes
<1>4. Nat \subseteq T
  <2> HIDE DEF T
  <2> QED
    BY <1>2, <1>3, Induction
<1> QED
  BY <1>0, <1>4

(* The field pass takes a field exactly when its value is without a fault  *)
(* and leaves room for the levels below.                                   *)
LEMMA FieldOutcomeIs ==
    ASSUME NEW entry \in Entries
    PROVE  /\ FieldOutcome(entry) \in Outcomes
           /\ FieldOutcome(entry) = Valid <=>
                entry.ok /\ entry.value \in WellFormed[MaxNestingDepth - 1]
<1> DEFINE value == entry.value
<1>0. entry.ok \in BOOLEAN /\ value \in Values /\ value.ok \in BOOLEAN
  BY ValuesAssumption DEF Entries
<1>1. /\ 1 \in 1 .. MaxNestingDepth + 1
      /\ MaxNestingDepth - 1 \in 0 .. MaxNestingDepth - 1
      /\ MaxNestingDepth - (MaxNestingDepth - 1) = 1
      /\ MaxNestingDepth - 1 \in Nat
  BY BatchLimitsAssumption
<1>2. value \in WellFormed[MaxNestingDepth - 1] => value.ok
  BY <1>1, WellFormedIs
<1>3. CASE ~entry.ok \/ value.kind = "junk"
  BY <1>0, <1>2, <1>3, ValuesAssumption, ErrorsDiffer DEF FieldOutcome, Outcomes
<1>4. CASE entry.ok /\ value.kind # "junk" /\ value.kind # "string"
  <2>1. FieldOutcome(entry) = ValidateValue[1][value]
    BY <1>4 DEF FieldOutcome, ValidateField
  <2>2. ValidateValue[1][value] \in Outcomes
    BY <1>0, <1>1, ValidateValueIs
  <2>3. ValidateValue[1][value] = Valid <=> value \in WellFormed[MaxNestingDepth - 1]
    BY <1>0, <1>1, ValidIsWellFormed
  <2> QED
    BY <1>4, <2>1, <2>2, <2>3
<1>5. CASE entry.ok /\ value.kind = "string"
  <2>1. FieldOutcome(entry) = IF value.ok THEN Valid ELSE NotJson
    BY <1>5 DEF FieldOutcome
  <2>2. value.entries = <<>>
    BY <1>0, <1>5, ValuesAssumption
  <2>3. value.ok => value \in WellFormed[MaxNestingDepth - 1]
    BY <1>0, <1>1, <2>2, WellFormedIs
  <2> QED
    BY <1>0, <1>2, <1>5, <2>1, <2>3, ErrorsDiffer DEF Outcomes
<1> QED
  BY <1>0, <1>3, <1>4, <1>5

(* What a turn of read_documents makes of an element. *)
Outcome(entry, index) == IF entry.ok THEN ReadDocument(entry.value, index) ELSE NotJson

LEMMA OutcomeIs ==
    ASSUME NEW entry \in Entries, NEW index \in Nat
    PROVE  /\ Outcome(entry, index) = Valid <=> IsDocument(entry)
           /\ Outcome(entry, index) \in {Valid, NotJson, TooDeep, NotAnObject(index)}
           /\ Outcome(entry, index) = NotAnObject(index) => entry.value.kind # "object"
<1> DEFINE value == entry.value
           outcomes == [i \in DOMAIN value.entries |-> FieldOutcome(value.entries[i])]
<1>0. entry.ok \in BOOLEAN /\ value \in Values /\ value.ok \in BOOLEAN
  BY ValuesAssumption DEF Entries
<1>1. MaxNestingDepth \in Nat /\ MaxNestingDepth > 0
  BY BatchLimitsAssumption
<1>2. IsDocument(entry) <=>
        /\ entry.ok /\ value.kind = "object" /\ value.ok
        /\ \A i \in DOMAIN value.entries :
              value.entries[i].ok /\ value.entries[i].value \in WellFormed[MaxNestingDepth - 1]
  <2>1. value \in WellFormed[MaxNestingDepth] <=>
          /\ value.ok
          /\ \A i \in DOMAIN value.entries :
                value.entries[i].ok /\ value.entries[i].value \in WellFormed[MaxNestingDepth - 1]
    BY <1>0, <1>1, WellFormedIs
  <2> QED
    BY <2>1 DEF IsDocument, Storable
<1>3. \A i \in DOMAIN value.entries : value.entries[i] \in Entries
  BY <1>0, EntryTypes
<1>4. \A i \in DOMAIN value.entries : outcomes[i] \in Outcomes
  BY <1>3, FieldOutcomeIs
<1>5. outcomes \in Seq(Outcomes)
  <2>1. outcomes \in [1 .. Len(value.entries) -> Outcomes] /\ Len(value.entries) \in Nat
    BY <1>0, <1>4, EntryTypes
  <2> HIDE DEF outcomes
  <2> QED
    BY <2>1, FunctionIsSeq
<1>6. FirstError(outcomes) \in Outcomes
      /\ (FirstError(outcomes) = Valid <=> \A i \in DOMAIN outcomes : outcomes[i] = Valid)
  <2>1. Outcomes \cup {Valid} = Outcomes
    BY DEF Outcomes
  <2> HIDE DEF outcomes
  <2> QED
    BY <1>5, <2>1, FirstErrorIs
<1>7. (\A i \in DOMAIN outcomes : outcomes[i] = Valid) <=>
        \A i \in DOMAIN value.entries :
           value.entries[i].ok /\ value.entries[i].value \in WellFormed[MaxNestingDepth - 1]
  BY <1>3, FieldOutcomeIs
<1>8. Outcome(entry, index) =
        IF ~entry.ok THEN NotJson
        ELSE IF value.kind # "object" THEN NotAnObject(index)
        ELSE IF ~value.ok THEN NotJson
        ELSE FirstError(outcomes)
  BY <1>0 DEF Outcome, ReadDocument
<1> HIDE DEF outcomes, value
<1> QED
  BY <1>0, <1>2, <1>6, <1>7, <1>8, ErrorsDiffer DEF Outcomes, value

-----------------------------------------------------------------------------
(* The texts of a document.                                                *)

Texts == {value.text : value \in Values}

(* The texts are the strings among the first n entries, in their order. *)
AreFirst(texts, entries, n) ==
    /\ texts \in Seq(Texts)
    /\ \E at \in [1 .. Len(texts) -> 1 .. n] :
          /\ \A j, k \in 1 .. Len(texts) : j < k => at[j] < at[k]
          /\ \A i \in 1 .. n :
                entries[i].value.kind = "string" <=> \E k \in 1 .. Len(texts) : at[k] = i
          /\ \A k \in 1 .. Len(texts) : texts[k] = entries[at[k]].value.text

LEMMA OtherField ==
    ASSUME NEW texts, NEW entries \in Seq(Entries), NEW n \in Nat, n + 1 <= Len(entries),
           AreFirst(texts, entries, n), entries[n + 1].value.kind # "string"
    PROVE  AreFirst(texts, entries, n + 1)
<1>1. texts \in Seq(Texts) /\ Len(texts) \in Nat
  BY DEF AreFirst
<1>2. PICK at \in [1 .. Len(texts) -> 1 .. n] :
         /\ \A j, k \in 1 .. Len(texts) : j < k => at[j] < at[k]
         /\ \A i \in 1 .. n :
               entries[i].value.kind = "string" <=> \E k \in 1 .. Len(texts) : at[k] = i
         /\ \A k \in 1 .. Len(texts) : texts[k] = entries[at[k]].value.text
  BY DEF AreFirst
<1>3. at \in [1 .. Len(texts) -> 1 .. n + 1]
  BY <1>2
<1>4. \A k \in 1 .. Len(texts) : at[k] # n + 1
  BY <1>2
<1>5. \A i \in 1 .. n + 1 :
         entries[i].value.kind = "string" <=> \E k \in 1 .. Len(texts) : at[k] = i
  <2>1. \A i \in 1 .. n + 1 : i \in 1 .. n \/ i = n + 1
    OBVIOUS
  <2> QED
    BY <1>2, <1>4, <2>1
<1> QED
  BY <1>1, <1>2, <1>3, <1>5 DEF AreFirst

LEMMA StringField ==
    ASSUME NEW texts, NEW entries \in Seq(Entries), NEW n \in Nat, n + 1 <= Len(entries),
           AreFirst(texts, entries, n), entries[n + 1].value.kind = "string"
    PROVE  AreFirst(Append(texts, entries[n + 1].value.text), entries, n + 1)
<1> DEFINE text == entries[n + 1].value.text
           more == Append(texts, text)
           m == Len(texts)
<1>0. text \in Texts
  <2>1. n + 1 \in 1 .. Len(entries)
    OBVIOUS
  <2>2. entries[n + 1] \in Entries
    BY <2>1
  <2> QED
    BY <2>2 DEF Entries, Texts
<1>1. texts \in Seq(Texts) /\ m \in Nat
  BY DEF AreFirst
<1>2. PICK at \in [1 .. m -> 1 .. n] :
         /\ \A j, k \in 1 .. m : j < k => at[j] < at[k]
         /\ \A i \in 1 .. n :
               entries[i].value.kind = "string" <=> \E k \in 1 .. m : at[k] = i
         /\ \A k \in 1 .. m : texts[k] = entries[at[k]].value.text
  BY DEF AreFirst
<1>3. /\ more \in Seq(Texts) /\ Len(more) = m + 1 /\ more[m + 1] = text
      /\ \A k \in 1 .. m : more[k] = texts[k]
  BY <1>0, <1>1
<1> DEFINE to == [k \in 1 .. m + 1 |-> IF k = m + 1 THEN n + 1 ELSE at[k]]
<1>4. /\ to[m + 1] = n + 1
      /\ \A k \in 1 .. m : to[k] = at[k] /\ at[k] \in 1 .. n
      /\ \A k \in 1 .. m + 1 : k \in 1 .. m \/ k = m + 1
      /\ m + 1 \in 1 .. m + 1
      /\ \A k \in 1 .. m : k \in 1 .. m + 1
  BY <1>1, <1>2
<1>5. to \in [1 .. m + 1 -> 1 .. n + 1]
  BY <1>1, <1>2
<1> HIDE DEF to, text, more, m
<1>6. ASSUME NEW j \in 1 .. m + 1, NEW k \in 1 .. m + 1, j < k PROVE to[j] < to[k]
  <2>1. j \in 1 .. m
    BY <1>1, <1>6
  <2>2. CASE k = m + 1
    BY <1>4, <2>1, <2>2
  <2>3. CASE k \in 1 .. m
    BY <1>2, <1>4, <1>6, <2>1, <2>3
  <2> QED
    BY <1>4, <2>2, <2>3
<1>7. ASSUME NEW i \in 1 .. n + 1
      PROVE  entries[i].value.kind = "string" <=> \E k \in 1 .. m + 1 : to[k] = i
  <2>1. CASE i = n + 1
    BY <1>4, <2>1
  <2>2. CASE i \in 1 .. n
    <3>1. i # n + 1
      BY <2>2
    <3>2. (\E k \in 1 .. m + 1 : to[k] = i) <=> \E k \in 1 .. m : at[k] = i
      BY <1>4, <3>1
    <3> QED
      BY <1>2, <2>2, <3>2
  <2> QED
    BY <2>1, <2>2
<1>8. ASSUME NEW k \in 1 .. m + 1 PROVE more[k] = entries[to[k]].value.text
  <2>1. CASE k = m + 1
    BY <1>3, <1>4, <2>1 DEF text
  <2>2. CASE k \in 1 .. m
    BY <1>2, <1>3, <1>4, <2>2
  <2> QED
    BY <1>4, <2>1, <2>2
<1>9. AreFirst(more, entries, n + 1)
  <2>1. 1 .. Len(more) = 1 .. m + 1
    BY <1>3
  <2>2. /\ to \in [1 .. Len(more) -> 1 .. n + 1]
        /\ \A j, k \in 1 .. Len(more) : j < k => to[j] < to[k]
        /\ \A i \in 1 .. n + 1 :
              entries[i].value.kind = "string" <=> \E k \in 1 .. Len(more) : to[k] = i
        /\ \A k \in 1 .. Len(more) : more[k] = entries[to[k]].value.text
    BY <1>5, <1>6, <1>7, <1>8, <2>1, Zenon
  <2> QED
    BY <1>3, <2>2, Zenon DEF AreFirst
<1> QED
  BY <1>9 DEF more, text

(* Behind every field the pass has gathered the strings so far.            *)
LEMMA SearchableTextIs ==
    ASSUME NEW object \in Values
    PROVE  AreTheStrings(SearchableText(object), object)
<1> DEFINE entries == object.entries
           N == Len(entries)
           X == Seq(Texts)
           turn(n, texts) == IF entries[n].value.kind # "string" THEN texts
                             ELSE Append(texts, entries[n].value.text)
           Step == [n \in Nat |-> [texts \in X |->
                      IF n + 1 <= N THEN turn(n + 1, texts) ELSE texts]]
           Is(w) == w = [n \in 0 .. N |-> IF n = 0 THEN <<>>
                           ELSE IF entries[n].value.kind # "string" THEN w[n - 1]
                           ELSE Append(w[n - 1], entries[n].value.text)]
           after == CHOOSE w : Is(w)
<1>0. entries \in Seq(Entries) /\ N \in Nat /\ DOMAIN entries = 1 .. N
  BY EntryTypes
<1>1. <<>> \in X
  OBVIOUS
<1>2. ASSUME NEW n \in Nat, n + 1 <= N, NEW texts \in X PROVE turn(n + 1, texts) \in X
  <2>1. n + 1 \in DOMAIN entries
    BY <1>0, <1>2
  <2>2. entries[n + 1].value.text \in Texts
    BY <2>1, EntryTypes DEF Texts
  <2> QED
    BY <2>2
<1>3. Step \in [Nat -> [X -> X]]
  <2> HIDE DEF turn, X
  <2> QED
    BY <1>2
<1>4. PICK f : IsIteration(f, X, <<>>, Step)
  <2> HIDE DEF Step, X
  <2> QED
    BY <1>1, <1>3, Iteration
<1>5. /\ f \in [Nat -> X] /\ f[0] = <<>>
      /\ \A n \in Nat : n + 1 <= N => f[n + 1] = turn(n + 1, f[n])
  <2> HIDE DEF X, turn
  <2> QED
    BY <1>4 DEF IsIteration
<1> DEFINE g == [n \in 0 .. N |-> f[n]]
<1>6. ASSUME NEW n \in 0 .. N, n # 0 PROVE g[n] = turn(n, g[n - 1])
  <2>1. n - 1 \in Nat /\ (n - 1) + 1 = n /\ n <= N /\ n - 1 \in 0 .. N
    BY <1>0, <1>6
  <2> HIDE DEF turn
  <2> QED
    BY <1>5, <2>1
<1>7. g[0] = <<>>
  BY <1>0, <1>5
<1>8. Is(g)
  <2>1. \A n \in 0 .. N : g[n] = IF n = 0 THEN <<>>
                           ELSE IF entries[n].value.kind # "string" THEN g[n - 1]
                           ELSE Append(g[n - 1], entries[n].value.text)
    BY <1>6, <1>7
  <2>2. g = [n \in 0 .. N |-> g[n]]
    OBVIOUS
  <2> HIDE DEF g
  <2> QED
    BY <2>1, <2>2
<1>9. Is(after)
  <2> HIDE DEF g
  <2> QED
    BY <1>8
<1>10. SearchableText(object) = after[N]
  BY DEF SearchableText
<1> HIDE DEF after
<1>11. /\ after[0] = <<>>
       /\ \A n \in 1 .. N : after[n] = turn(n, after[n - 1])
  <2>1. \A n \in 0 .. N : after[n] = IF n = 0 THEN <<>>
                           ELSE IF entries[n].value.kind # "string" THEN after[n - 1]
                           ELSE Append(after[n - 1], entries[n].value.text)
    <3> HIDE DEF N, entries
    <3> QED
      BY <1>9
  <2>2. 0 \in 0 .. N /\ \A n \in 1 .. N : n \in 0 .. N /\ n # 0
    BY <1>0
  <2> QED
    BY <2>1, <2>2
<1> DEFINE T == {n \in Nat : n <= N => AreFirst(after[n], entries, n)}
<1>12. 0 \in T
  <2>1. <<>> \in Seq(Texts) /\ Len(<<>>) = 0
    OBVIOUS
  <2>2. [k \in 1 .. 0 |-> 0] \in [1 .. Len(<<>>) -> 1 .. 0]
    BY <2>1
  <2>3. AreFirst(<<>>, entries, 0)
    <3>1. 1 .. 0 = {} /\ 1 .. Len(<<>>) = {}
      BY <2>1
    <3> QED
      BY <2>1, <2>2, <3>1, Zenon DEF AreFirst
  <2> QED
    BY <1>11, <2>3
<1>13. ASSUME NEW n \in Nat, n \in T PROVE n + 1 \in T
  <2> SUFFICES ASSUME n + 1 <= N PROVE AreFirst(after[n + 1], entries, n + 1)
    OBVIOUS
  <2>1. n <= N /\ n + 1 \in 1 .. N /\ (n + 1) - 1 = n
    BY <1>0
  <2>2. AreFirst(after[n], entries, n)
    BY <1>13, <2>1
  <2>3. after[n + 1] = turn(n + 1, after[n])
    BY <1>11, <2>1
  <2> QED
    BY <1>0, <2>1, <2>2, <2>3, OtherField, StringField
<1>14. Nat \subseteq T
  <2> HIDE DEF T
  <2> QED
    BY <1>12, <1>13, Induction
<1>15. AreFirst(after[N], entries, N)
  BY <1>0, <1>14
<1>16. DOMAIN after[N] = 1 .. Len(after[N])
  BY <1>15 DEF AreFirst
<1> DEFINE texts == after[N]
<1>17. PICK at \in [1 .. Len(texts) -> 1 .. N] :
          /\ \A j, k \in 1 .. Len(texts) : j < k => at[j] < at[k]
          /\ \A i \in 1 .. N :
                entries[i].value.kind = "string" <=> \E k \in 1 .. Len(texts) : at[k] = i
          /\ \A k \in 1 .. Len(texts) : texts[k] = entries[at[k]].value.text
  BY <1>15 DEF AreFirst
<1> HIDE DEF texts
<1>18. /\ at \in [DOMAIN texts -> DOMAIN object.entries]
       /\ \A j, k \in DOMAIN texts : j < k => at[j] < at[k]
       /\ \A i \in DOMAIN object.entries :
             object.entries[i].value.kind = "string" <=> \E k \in DOMAIN texts : at[k] = i
       /\ \A k \in DOMAIN texts : texts[k] = object.entries[at[k]].value.text
  <2>1. DOMAIN texts = 1 .. Len(texts) /\ DOMAIN object.entries = 1 .. N
    BY <1>0, <1>16 DEF texts
  <2> HIDE DEF N
  <2> QED
    BY <1>17, <2>1, Zenon
<1>19. AreTheStrings(texts, object)
  BY <1>18, Zenon DEF AreTheStrings
<1> QED
  BY <1>10, <1>19 DEF texts

-----------------------------------------------------------------------------
(* The batch.                                                              *)

LEMMA BodyTypes ==
    ASSUME body \in Bodies
    PROVE  /\ body.uidOk \in BOOLEAN /\ body.trailing \in BOOLEAN
           /\ body.json \in {"unreadable", "other", "array"}
           /\ body.elements \in Seq(Entries)
           /\ Len(body.elements) \in Nat
           /\ DOMAIN body.elements = 1 .. Len(body.elements)
           /\ \A i \in 1 .. Len(body.elements) : body.elements[i] \in Entries
<1>1. body.elements \in Seq(Entries)
  BY BodiesAssumption
<1> QED
  BY <1>1, BodiesAssumption

(* Between two turns nothing of the body changes. *)
LEMMA ConcludedStands ==
    ASSUME Inv, UNCHANGED <<body, documents>>, pc' \in {"iterate", "elements", "at end", "done"},
           pc' \in {"iterate", "elements", "at end"} => body.uidOk,
           pc' \in {"elements", "at end"} => body.json = "array",
           pc' = "at end" => ArrayDone /\ documents # <<>>,
           pc' = "done" => Concluded'
    PROVE  Inv'
  BY DEF Inv, ReadSoFar, ArrayDone, Index

LEMMA NextInv == Inv /\ [Next]_vars => Inv'
<1> SUFFICES ASSUME Inv, [Next]_vars PROVE Inv'
  OBVIOUS
<1>0. body \in Bodies /\ ReadSoFar
  BY DEF Inv
<1>1. CASE ParseUid
  <2>1. CASE body.uidOk
    BY <1>1, <2>1, ConcludedStands DEF ParseUid, Continue
  <2>2. CASE ~body.uidOk
    <3>1. pc' = "done" /\ result' = InvalidUid /\ UNCHANGED <<body, documents>>
      BY <1>1, <2>2 DEF ParseUid, Refuse
    <3>2. Concluded'
      BY <2>2, <3>1 DEF Concluded, InvalidUid
    <3> QED
      BY <3>1, <3>2, ConcludedStands
  <2> QED
    BY <2>1, <2>2
<1>2. CASE Iterate
  <2>0. pc = "iterate" /\ body.uidOk
    BY <1>2 DEF Iterate, Inv
  <2>1. CASE body.json = "unreadable"
    <3>1. pc' = "done" /\ result' = NotJson /\ UNCHANGED <<body, documents>>
      BY <1>2, <2>1 DEF Iterate, Refuse
    <3>2. Concluded'
      BY <2>1, <3>1 DEF Concluded, NotJson
    <3> QED
      BY <3>1, <3>2, ConcludedStands
  <2>2. CASE body.json = "other"
    <3>1. pc' = "done" /\ result' = NotAnArray /\ UNCHANGED <<body, documents>>
      BY <1>2, <2>2 DEF Iterate, Refuse
    <3>2. Concluded'
      BY <2>2, <3>1 DEF Concluded, NotAnArray
    <3> QED
      BY <3>1, <3>2, ConcludedStands
  <2>3. CASE body.json = "array"
    <3>1. pc' = "elements" /\ UNCHANGED <<body, documents>>
      BY <1>2, <2>3 DEF Iterate, Continue
    <3> QED
      BY <2>0, <2>3, <3>1, ConcludedStands
  <2> QED
    BY <1>0, <2>1, <2>2, <2>3, BodyTypes
<1>3. CASE ReadElement
  <2> DEFINE entry == body.elements[Index + 1]
  <2>0. pc = "elements" /\ ~ArrayDone /\ body.uidOk /\ body.json = "array"
    BY <1>3 DEF ReadElement, Inv
  <2>1. /\ Index \in Nat /\ Index + 1 \in 1 .. Len(body.elements) /\ entry \in Entries
    <3>1. Len(documents) \in Nat /\ Len(documents) <= Len(body.elements)
      BY <1>0 DEF ReadSoFar
    <3>2. Index + 1 \in 1 .. Len(body.elements)
      BY <1>0, <2>0, <3>1, BodyTypes DEF Index, ArrayDone
    <3> QED
      BY <1>0, <3>1, <3>2, BodyTypes DEF Index
  <2>2. CASE Full
    <3>1. pc' = "done" /\ result' = TooMany /\ UNCHANGED <<body, documents>>
      BY <1>3, <2>2 DEF ReadElement, Refuse
    <3>2. Faults'
      BY <2>0, <2>2, <3>1 DEF Faults, ArrayDone, Full, Index, TooMany
    <3>3. Concluded'
      BY <2>0, <3>1, <3>2 DEF Concluded
    <3> QED
      BY <3>1, <3>3, ConcludedStands
  <2>3. CASE ~Full /\ Outcome(entry, Index) # Valid
    <3>1. /\ pc' = "done" /\ result' = Outcome(entry, Index)
          /\ UNCHANGED <<body, documents>>
      BY <1>3, <2>3 DEF ReadElement, Refuse, Outcome
    <3>2. /\ ~IsDocument(entry)
          /\ Outcome(entry, Index) \in {NotJson, TooDeep, NotAnObject(Index)}
          /\ Outcome(entry, Index) = NotAnObject(Index) => entry.value.kind # "object"
      BY <2>1, <2>3, OutcomeIs
    <3>3. Index' = Index /\ entry' = entry /\ ArrayDone' = ArrayDone /\ Full' = Full
      BY <3>1 DEF Index, ArrayDone, Full
    <3>4. IsDocument(entry)' <=> IsDocument(entry)
      BY <3>3 DEF IsDocument
    <3>5. NotAnObject(Index)' = NotAnObject(Index) /\ NotJson' = NotJson /\ TooDeep' = TooDeep
      BY <3>3 DEF NotAnObject, NotJson, TooDeep
    <3>6. Faults'
      BY <2>0, <2>3, <3>1, <3>2, <3>3, <3>4, <3>5 DEF Faults
    <3>7. Concluded'
      BY <2>0, <3>1, <3>6 DEF Concluded
    <3> QED
      BY <3>1, <3>7, ConcludedStands
  <2>4. CASE ~Full /\ Outcome(entry, Index) = Valid
    <3>1. /\ documents' = Append(documents, SearchableText(entry.value))
          /\ UNCHANGED <<pc, body, result>>
      BY <1>3, <2>4 DEF ReadElement, Outcome
    <3>2. IsDocument(entry) /\ entry.value \in Storable
      BY <2>1, <2>4, OutcomeIs DEF IsDocument
    <3> DEFINE S == {SearchableText(value) : value \in Storable}
               text == SearchableText(entry.value)
    <3>3. text \in S /\ documents \in Seq(S)
      BY <1>0, <3>2 DEF ReadSoFar
    <3> HIDE DEF S, text
    <3>4. /\ documents' \in Seq(S) /\ Len(documents') = Index + 1
          /\ documents'[Index + 1] = text
          /\ \A i \in 1 .. Index : documents'[i] = documents[i]
          /\ DOMAIN documents' = 1 .. Index + 1 /\ DOMAIN documents = 1 .. Index
      BY <3>1, <3>3 DEF Index, text
    <3>5. Index + 1 <= Len(body.elements) /\ Index + 1 <= MaxBatchDocuments
      <4>1. Index <= MaxBatchDocuments /\ Index # MaxBatchDocuments /\ MaxBatchDocuments \in Nat
        BY <1>0, <2>4, BatchLimitsAssumption DEF ReadSoFar, Index, Full
      <4> QED
        BY <1>0, <2>1, <4>1, BodyTypes
    <3>6. ASSUME NEW i \in 1 .. Index + 1
          PROVE  /\ IsDocument(body.elements[i])
                 /\ documents'[i] = SearchableText(body.elements[i].value)
      <4>1. CASE i = Index + 1
        BY <3>2, <3>4, <4>1 DEF text
      <4>2. CASE i \in 1 .. Index
        BY <1>0, <3>4, <4>2 DEF ReadSoFar
      <4> QED
        BY <2>1, <4>1, <4>2
    <3>7. ReadSoFar'
      BY <3>1, <3>4, <3>5, <3>6 DEF ReadSoFar, S
    <3> QED
      BY <1>0, <2>0, <3>1, <3>7 DEF Inv
  <2> QED
    BY <2>2, <2>3, <2>4
<1>4. CASE EndElements
  <2>0. pc = "elements" /\ ArrayDone /\ body.uidOk /\ body.json = "array"
    BY <1>4 DEF EndElements, Inv
  <2>1. CASE documents = <<>>
    <3>1. pc' = "done" /\ result' = NoDocument /\ UNCHANGED <<body, documents>>
      BY <1>4, <2>1 DEF EndElements, Refuse
    <3>2. Concluded'
      BY <2>0, <2>1, <3>1 DEF Concluded, Faults, ArrayDone, Index, NoDocument
    <3> QED
      BY <3>1, <3>2, ConcludedStands
  <2>2. CASE documents # <<>>
    <3>1. pc' = "at end" /\ UNCHANGED <<body, documents>>
      BY <1>4, <2>2 DEF EndElements, Continue
    <3> QED
      BY <2>0, <2>2, <3>1, ConcludedStands
  <2> QED
    BY <2>1, <2>2
<1>5. CASE CheckEnd
  <2>0. /\ pc = "at end" /\ ArrayDone /\ documents # <<>>
        /\ body.uidOk /\ body.json = "array" /\ body.trailing \in BOOLEAN
    BY <1>0, <1>5, BodyTypes DEF CheckEnd, Inv
  <2>1. /\ pc' = "done" /\ UNCHANGED <<body, documents>>
        /\ result' = IF body.trailing THEN NotJson ELSE Valid
    BY <1>5 DEF CheckEnd, Refuse
  <2>2. Concluded'
    BY <2>0, <2>1 DEF Concluded, Faults, ArrayDone, Index, NotJson, Valid
  <2> QED
    BY <2>1, <2>2, ConcludedStands
<1>6. CASE UNCHANGED vars
  BY <1>6 DEF vars, Inv, ReadSoFar, Concluded, Faults, ArrayDone, Full, Index
<1> QED
  BY <1>1, <1>2, <1>3, <1>4, <1>5, <1>6 DEF Next

(* The inductive invariant: the documents read so far are the first        *)
(* elements of the body, each of them a document, and the loop ends with   *)
(* every element read or at the first fault.                               *)
THEOREM BatchInv == Spec => []Inv
<1>1. Init => Inv
  <2> SUFFICES ASSUME Init PROVE Inv
    OBVIOUS
  <2>1. body \in Bodies /\ pc = "uid" /\ documents = <<>>
    BY DEF Init
  <2>2. ReadSoFar
    BY <2>1, BodyTypes, BatchLimitsAssumption DEF ReadSoFar
  <2> QED
    BY <2>1, <2>2 DEF Inv
<1> QED
  BY <1>1, NextInv, PTL DEF Spec

LEMMA ResultsDiffer ==
    /\ Valid # InvalidUid /\ Valid # NotAnArray /\ Valid # NoDocument /\ Valid # TooMany
    /\ Valid # NotJson /\ Valid # TooDeep
<1>1. /\ Valid.error = "none" /\ InvalidUid.error = "invalid uid"
      /\ NotAnArray.error = "not an array" /\ NoDocument.error = "empty"
      /\ TooMany.error = "too many"
  BY DEF Valid, InvalidUid, NotAnArray, NoDocument, TooMany
<1>2. Valid # InvalidUid /\ Valid # NotAnArray /\ Valid # NoDocument /\ Valid # TooMany
  BY <1>1
<1> QED
  BY <1>2, ErrorsDiffer

LEMMA CountTypes ==
    ASSUME Inv
    PROVE  /\ Index \in Nat /\ Index <= Len(body.elements) /\ Index <= MaxBatchDocuments
           /\ Len(body.elements) \in Nat /\ MaxBatchDocuments \in Nat
           /\ DOMAIN documents = 1 .. Index
           /\ DOMAIN body.elements = 1 .. Len(body.elements)
           /\ documents = <<>> <=> Index = 0
           /\ \A i \in 1 .. Index : IsDocument(body.elements[i])
           /\ ArrayDone <=> Index = Len(body.elements)
           /\ Full <=> Index = MaxBatchDocuments
<1>1. body \in Bodies /\ ReadSoFar
  BY DEF Inv
<1>2. documents \in Seq({SearchableText(value) : value \in Storable})
  BY <1>1 DEF ReadSoFar
<1>3. Len(documents) \in Nat /\ DOMAIN documents = 1 .. Len(documents)
      /\ (documents = <<>> <=> Len(documents) = 0)
  BY <1>2
<1> QED
  BY <1>1, <1>3, BodyTypes, BatchLimitsAssumption DEF ReadSoFar, Index, ArrayDone, Full

(* A valid result is that of a whole batch. *)
LEMMA ValidIsRead ==
    ASSUME Inv, pc = "done", result = Valid
    PROVE  /\ body.uidOk /\ body.json = "array" /\ ArrayDone
           /\ documents # <<>> /\ ~body.trailing
<1>1. Concluded
  BY DEF Inv
<1>2. NotAnObject(Index) # Valid
  BY CountTypes, ErrorsDiffer
<1>3. ~Faults
  BY <1>2, ResultsDiffer DEF Faults
<1> QED
  BY <1>1, <1>3, ResultsDiffer DEF Concluded

(* FR-14: whatever the body, read_documents() with its on-demand parser    *)
(* and validate_value() accept exactly the batches.                        *)
THEOREM BatchesAreAccepted == Spec => []AcceptsExactlyBatches
<1>1. Inv => AcceptsExactlyBatches
  <2> SUFFICES ASSUME Inv, pc = "done" PROVE result = Valid <=> body.uidOk /\ IsBatch
    BY DEF AcceptsExactlyBatches
  <2>1. ASSUME result = Valid PROVE body.uidOk /\ IsBatch
    <3>1. /\ body.uidOk /\ body.json = "array" /\ ArrayDone
          /\ documents # <<>> /\ ~body.trailing
      BY <2>1, ValidIsRead
    <3>2. Index = Len(body.elements) /\ Len(body.elements) \in 1 .. MaxBatchDocuments
      BY <3>1, CountTypes
    <3>3. \A i \in DOMAIN body.elements : IsDocument(body.elements[i])
      BY <3>2, CountTypes
    <3> QED
      BY <3>1, <3>2, <3>3 DEF IsBatch
  <2>2. ASSUME body.uidOk, IsBatch PROVE result = Valid
    <3>1. Concluded
      BY DEF Inv
    <3>2. /\ body.json = "array" /\ ~body.trailing
          /\ Len(body.elements) \in 1 .. MaxBatchDocuments
          /\ \A i \in 1 .. Len(body.elements) : IsDocument(body.elements[i])
      BY <2>2, CountTypes DEF IsBatch
    <3>3. ~(ArrayDone /\ documents = <<>>)
      BY <3>2, CountTypes
    <3>4. ~(~ArrayDone /\ Full)
      BY <3>2, CountTypes
    <3>5. ~ArrayDone => IsDocument(body.elements[Index + 1])
      <4>1. ~ArrayDone => Index + 1 \in 1 .. Len(body.elements)
        BY CountTypes
      <4> QED
        BY <3>2, <4>1
    <3>6. ~Faults
      BY <3>2, <3>3, <3>4, <3>5 DEF Faults
    <3> QED
      BY <2>2, <3>1, <3>2, <3>6 DEF Concluded
  <2> QED
    BY <2>1, <2>2
<1> QED
  BY <1>1, BatchInv, PTL

(* document.hpp: the searchable texts of each document are its top-level   *)
(* strings, in their order, whatever else it holds.                        *)
THEOREM TextsAreTheStrings == Spec => []TextsAreTopLevelStrings
<1>1. Inv /\ (pc # "done" => result = Pending) => TextsAreTopLevelStrings
  <2> SUFFICES ASSUME Inv, pc # "done" => result = Pending, result = Valid
               PROVE  /\ Len(documents) = Len(body.elements)
                      /\ \A i \in DOMAIN documents :
                            AreTheStrings(documents[i], body.elements[i].value)
    BY DEF TextsAreTopLevelStrings
  <2>1. Pending # Valid
    BY DEF Pending, Valid
  <2>2. ArrayDone
    BY <2>1, ValidIsRead
  <2>3. Len(documents) = Len(body.elements)
    BY <2>2 DEF ArrayDone, Index
  <2>4. ASSUME NEW i \in DOMAIN documents
        PROVE  AreTheStrings(documents[i], body.elements[i].value)
    <3>1. i \in 1 .. Len(body.elements) /\ body \in Bodies
      <4>1. i \in 1 .. Index /\ Index \in Nat /\ Len(body.elements) \in Nat
            /\ Index <= Len(body.elements)
        BY CountTypes
      <4>2. i \in 1 .. Len(body.elements)
        BY <4>1
      <4>3. body \in Bodies
        BY DEF Inv
      <4> QED
        BY <4>2, <4>3
    <3>2. body.elements[i].value \in Values
      BY <3>1, BodyTypes DEF Entries
    <3>3. documents[i] = SearchableText(body.elements[i].value)
      BY DEF Inv, ReadSoFar
    <3> QED
      BY <3>2, <3>3, SearchableTextIs
  <2> QED
    BY <2>3, <2>4
<1>2. Init => (pc # "done" => result = Pending)
  BY DEF Init
<1>3. Inv /\ (pc # "done" => result = Pending) /\ [Next]_vars
        => (pc # "done" => result = Pending)'
  <2>1. \A error : Refuse(error) => pc' = "done"
    BY DEF Refuse
  <2>2. \A place : Continue(place) => result' = result
    BY DEF Continue
  <2>3. ParseUid => pc # "done" /\ (pc' = "done" \/ result' = result)
    BY <2>1, <2>2 DEF ParseUid
  <2>4. Inv /\ Iterate => pc # "done" /\ (pc' = "done" \/ result' = result)
    <3> SUFFICES ASSUME Inv, Iterate PROVE pc # "done" /\ (pc' = "done" \/ result' = result)
      OBVIOUS
    <3>1. body.json \in {"unreadable", "other", "array"}
      BY BodyTypes DEF Inv
    <3> QED
      BY <2>1, <2>2, <3>1 DEF Iterate
  <2>5. ReadElement => pc # "done" /\ (pc' = "done" \/ result' = result)
    BY <2>1 DEF ReadElement
  <2>6. EndElements => pc # "done" /\ (pc' = "done" \/ result' = result)
    BY <2>1, <2>2 DEF EndElements
  <2>7. CheckEnd => pc' = "done"
    BY <2>1 DEF CheckEnd
  <2>8. UNCHANGED vars => pc' = pc /\ result' = result
    BY DEF vars
  <2> QED
    BY <2>3, <2>4, <2>5, <2>6, <2>7, <2>8 DEF Next
<1>4. Spec => [](pc # "done" => result = Pending)
  BY <1>2, <1>3, BatchInv, PTL DEF Spec
<1> QED
  BY <1>1, <1>4, BatchInv, PTL

(* What a client is told is the first thing wrong with its body: every     *)
(* element before it is a document, and it is not one.                     *)
THEOREM FaultsAreTheFirst == Spec => []FirstFaultIsReported
<1>1. Inv => FirstFaultIsReported
  <2> SUFFICES ASSUME Inv, pc = "done", result # Valid, body.uidOk, body.json = "array"
               PROVE  /\ \A i \in DOMAIN documents : IsDocument(body.elements[i])
                      /\ CASE ArrayDone -> \/ result = NoDocument /\ body.elements = <<>>
                                           \/ result = NotJson /\ body.trailing
                           [] ~ArrayDone /\ Index >= MaxBatchDocuments -> result = TooMany
                           [] OTHER ->
                                /\ ~IsDocument(body.elements[Index + 1])
                                /\ result \in {NotJson, TooDeep, NotAnObject(Index)}
                                /\ result = NotAnObject(Index) =>
                                      body.elements[Index + 1].value.kind # "object"
    BY DEF FirstFaultIsReported
  <2>1. \A i \in DOMAIN documents : IsDocument(body.elements[i])
    BY CountTypes
  <2>2. Faults
    <3>1. Concluded
      BY DEF Inv
    <3> QED
      BY <3>1, ResultsDiffer DEF Concluded, InvalidUid, NotJson, NotAnArray
  <2>3. CASE ArrayDone
    <3>1. documents = <<>> => body.elements = <<>>
      <4>1. body.elements \in Seq(Entries)
        BY BodyTypes DEF Inv
      <4>2. documents = <<>> => Len(body.elements) = 0
        BY <2>3, CountTypes
      <4> QED
        BY <4>1, <4>2
    <3>2. \/ result = NoDocument /\ body.elements = <<>>
          \/ result = NotJson /\ body.trailing
      BY <2>2, <2>3, <3>1 DEF Faults
    <3> QED
      BY <2>1, <2>3, <3>2
  <2>4. CASE ~ArrayDone /\ Index >= MaxBatchDocuments
    <3>1. Full
      BY <2>4, CountTypes
    <3>2. result = TooMany
      BY <2>2, <2>4, <3>1 DEF Faults
    <3> QED
      BY <2>1, <2>4, <3>2
  <2>5. CASE ~ArrayDone /\ ~(Index >= MaxBatchDocuments)
    <3>1. ~Full
      BY <2>5, CountTypes
    <3>2. /\ ~IsDocument(body.elements[Index + 1])
          /\ result \in {NotJson, TooDeep, NotAnObject(Index)}
          /\ result = NotAnObject(Index) => body.elements[Index + 1].value.kind # "object"
      BY <2>2, <2>5, <3>1 DEF Faults
    <3> QED
      BY <2>1, <2>5, <3>2
  <2> QED
    BY <2>3, <2>4, <2>5
<1> QED
  BY <1>1, BatchInv, PTL

==============================================================================
