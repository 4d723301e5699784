-------------------- MODULE InMemoryIndexRepositoryProofs --------------------
(***************************************************************************)
(* Theorems about InMemoryIndexRepository, for any set of workers, uids,   *)
(* documents and batches, any number of requests, and with or without      *)
(* allocation failures unless a theorem says otherwise.                    *)
(***************************************************************************)
EXTENDS InMemoryIndexRepository, SequenceTheorems, TLAPS

-----------------------------------------------------------------------------
(* What the operators of ExactMatchIndex return and preserve. *)

(* The empty index is an index, and its (empty) postings are in order. *)
LEMMA EmptyIndexOK ==
    /\ EmptyIndex \in ExactMatchIndices
    /\ Ascending(EmptyIndex)
    /\ IdsBelow(EmptyIndex, 1)
    /\ DocumentCount(EmptyIndex) = 0
BY DEF EmptyIndex, ExactMatchIndices, Ascending, IdsBelow, DocumentCount

(* The fields of an index, and the ids in its lists. *)
LEMMA IndexFields ==
    ASSUME NEW index \in ExactMatchIndices
    PROVE  /\ index.sources \in Seq(Documents)
           /\ index.postings \in [Words -> Seq(DocIds)]
           /\ index = [sources |-> index.sources, postings |-> index.postings]
           /\ DocumentCount(index) \in Nat
           /\ \A term \in Words :
                /\ index.postings[term] \in Seq(DocIds)
                /\ Len(index.postings[term]) \in Nat
                /\ DOMAIN index.postings[term] = 1 .. Len(index.postings[term])
                /\ \A k \in DOMAIN index.postings[term] :
                     index.postings[term][k] \in DocIds
                       /\ index.postings[term][k] \in Nat
<1>1. /\ index.sources \in Seq(Documents)
      /\ index.postings \in [Words -> Seq(DocIds)]
      /\ index = [sources |-> index.sources, postings |-> index.postings]
  BY DEF ExactMatchIndices
<1>2. DocumentCount(index) \in Nat
  BY <1>1 DEF DocumentCount
<1>3. DocIds \subseteq Nat
  BY DocIdModulusAssumption DEF DocIds
<1>4. ASSUME NEW term \in Words
      PROVE  /\ index.postings[term] \in Seq(DocIds)
             /\ Len(index.postings[term]) \in Nat
             /\ DOMAIN index.postings[term] = 1 .. Len(index.postings[term])
             /\ \A k \in DOMAIN index.postings[term] :
                  index.postings[term][k] \in DocIds
  <2>1. index.postings[term] \in Seq(DocIds)
    BY <1>1
  <2> QED
    BY <2>1
<1> QED
  BY <1>1, <1>2, <1>3, <1>4

(* While an index holds fewer documents than there are DocIds, the cast to *)
(* std::uint32_t loses nothing: the next id is the number of documents.    *)
LEMMA NextDocIdExact ==
    ASSUME NEW index \in ExactMatchIndices, DocumentCount(index) < DocIdModulus
    PROVE  /\ NextDocId(index) = DocumentCount(index)
           /\ NextDocId(index) \in DocIds
<1>1. DocumentCount(index) \in Nat
  BY DEF DocumentCount, ExactMatchIndices
<1>2. \A n \in Nat, m \in Nat \ {0} : n < m => n % m = n
  OBVIOUS
<1>3. NextDocId(index) = DocumentCount(index)
  BY <1>1, <1>2, DocIdModulusAssumption DEF NextDocId
<1> QED
  BY <1>1, <1>3, DocIdModulusAssumption DEF DocIds

(* record() keeps an index an index and leaves the sources alone. *)
LEMMA RecordType ==
    ASSUME NEW index \in ExactMatchIndices, NEW term \in Words, NEW id \in DocIds
    PROVE  /\ Record(index, term, id) \in ExactMatchIndices
           /\ Record(index, term, id).sources = index.sources
           /\ \A other \in Words \ {term} :
                Record(index, term, id).postings[other] = index.postings[other]
<1> DEFINE new == Append(index.postings[term], id)
           postings == [index.postings EXCEPT ![term] = new]
<1>1. new \in Seq(DocIds)
  BY IndexFields
<1>2. postings \in [Words -> Seq(DocIds)]
  BY <1>1, IndexFields
<1>3. \A other \in Words \ {term} : postings[other] = index.postings[other]
  BY IndexFields
<1>4. \/ Record(index, term, id) = index
      \/ Record(index, term, id) = [index EXCEPT !.postings = postings]
  BY IndexFields DEF Record
<1>5. [index EXCEPT !.postings = postings]
        = [sources |-> index.sources, postings |-> postings]
  <2> HIDE DEF postings
  <2> QED
    BY IndexFields
<1>6. [sources |-> index.sources, postings |-> postings] \in ExactMatchIndices
  <2> HIDE DEF postings
  <2> QED
    BY <1>2, IndexFields DEF ExactMatchIndices
<1> QED
  BY <1>3, <1>4, <1>5, <1>6

(* record() leaves the term's list alone or appends the id to it, and the  *)
(* id is the last of the list afterwards.                                  *)
LEMMA RecordAppends ==
    ASSUME NEW index \in ExactMatchIndices, NEW term \in Words, NEW id \in DocIds
    PROVE  LET old == index.postings[term]
               new == Record(index, term, id).postings[term] IN
           /\ \/ new = old /\ old # <<>> /\ old[Len(old)] = id
              \/ new = Append(old, id) /\ (old = <<>> \/ old[Len(old)] # id)
           /\ Len(new) > 0 /\ new[Len(new)] = id
BY DEF Record, ExactMatchIndices

(* record() of an id that no id of the index exceeds keeps every list      *)
(* strictly ascending: comparing with the last id is enough.               *)
LEMMA RecordAscending ==
    ASSUME NEW index \in ExactMatchIndices, NEW term \in Words, NEW id \in DocIds,
           Ascending(index), IdsBelow(index, id + 1)
    PROVE  /\ Ascending(Record(index, term, id))
           /\ IdsBelow(Record(index, term, id), id + 1)
<1> DEFINE new == Record(index, term, id)
           old == index.postings[term]
<1>1. new \in ExactMatchIndices /\ old \in Seq(DocIds)
  BY RecordType DEF ExactMatchIndices
<1>2. \A other \in Words \ {term} : new.postings[other] = index.postings[other]
  BY RecordType
<1>3. \/ new.postings[term] = old
      \/ new.postings[term] = Append(old, id) /\ (old = <<>> \/ old[Len(old)] # id)
  BY RecordAppends
<1>4. CASE new.postings[term] = old
  BY <1>2, <1>4 DEF Ascending, IdsBelow
<1>5. CASE new.postings[term] = Append(old, id) /\ (old = <<>> \/ old[Len(old)] # id)
  <2>1. \A k \in DOMAIN old : old[k] < id + 1 /\ old[k] \in Nat
    BY IndexFields DEF IdsBelow
  <2>2. \A i, j \in DOMAIN old : i < j => old[i] < old[j]
    BY DEF Ascending
  <2>3. \A k \in DOMAIN old : old[k] < id
    <3> SUFFICES ASSUME NEW k \in DOMAIN old PROVE old[k] < id
      OBVIOUS
    <3>1. old[Len(old)] # id /\ Len(old) \in DOMAIN old /\ k <= Len(old)
      BY <1>1, <1>5
    <3>2. old[Len(old)] < id
      BY <2>1, <3>1, <1>1 DEF DocIds
    <3>3. k = Len(old) \/ old[k] < old[Len(old)]
      BY <2>2, <3>1, <1>1
    <3> QED
      BY <2>1, <3>1, <3>2, <3>3, <1>1 DEF DocIds
  <2>4. \A i, j \in DOMAIN Append(old, id) :
          i < j => Append(old, id)[i] < Append(old, id)[j]
    BY <1>1, <2>2, <2>3
  <2>5. \A k \in DOMAIN Append(old, id) : Append(old, id)[k] < id + 1
    BY <1>1, <2>1 DEF DocIds
  <2>6. Ascending(new)
    BY <1>2, <1>5, <2>4 DEF Ascending
  <2>7. IdsBelow(new, id + 1)
    BY <1>2, <1>5, <2>5 DEF IdsBelow
  <2> QED
    BY <2>6, <2>7
<1> QED
  BY <1>3, <1>4, <1>5

(* push_back of a source leaves the postings alone.  One more id is valid. *)
LEMMA PushSourceOK ==
    ASSUME NEW index \in ExactMatchIndices, NEW document \in Documents
    PROVE  LET new == PushSource(index, document) IN
           /\ new \in ExactMatchIndices
           /\ new.postings = index.postings
           /\ new.sources = Append(index.sources, document)
           /\ DocumentCount(new) = DocumentCount(index) + 1
           /\ Ascending(index) => Ascending(new)
           /\ \A limit \in Nat : IdsBelow(index, limit) => IdsBelow(new, limit + 1)
<1> DEFINE new == PushSource(index, document)
<1>1. /\ new \in ExactMatchIndices
      /\ new.postings = index.postings
      /\ new.sources = Append(index.sources, document)
  <2>1. Append(index.sources, document) \in Seq(Documents)
    BY IndexFields
  <2>2. new = [sources |-> Append(index.sources, document),
               postings |-> index.postings]
    <3>1. ASSUME NEW sources
          PROVE  [index EXCEPT !.sources = sources]
                   = [sources |-> sources, postings |-> index.postings]
      BY IndexFields
    <3> QED
      BY <3>1 DEF PushSource
  <2> QED
    BY <2>1, <2>2, IndexFields DEF ExactMatchIndices
<1>2. DocumentCount(new) = DocumentCount(index) + 1
  BY <1>1 DEF DocumentCount, ExactMatchIndices
<1>3. Ascending(index) => Ascending(new)
  BY <1>1 DEF Ascending
<1>4. ASSUME NEW limit \in Nat, IdsBelow(index, limit)
      PROVE  IdsBelow(new, limit + 1)
  <2>1. \A term \in Words : \A k \in DOMAIN index.postings[term] :
          index.postings[term][k] \in Nat
    BY IndexFields
  <2> QED
    BY <1>1, <1>4, <2>1 DEF IdsBelow
<1> QED
  BY <1>1, <1>2, <1>3, <1>4

(* The empty index is exact for every term. *)
LEMMA EmptyIndexExact ==
    ASSUME NEW term \in Words
    PROVE  ExactUpTo(EmptyIndex, term, FALSE)
BY DEF ExactUpTo, EmptyIndex, DocumentsContaining

(* record() of the next id makes exactly that id found in addition, and    *)
(* other terms are not affected.                                           *)
LEMMA RecordExact ==
    ASSUME NEW index \in ExactMatchIndices, NEW term \in Words,
           DocumentCount(index) \in DocIds,
           NEW recorded \in BOOLEAN, ExactUpTo(index, term, recorded)
    PROVE  ExactUpTo(Record(index, term, DocumentCount(index)), term, TRUE)
<1> DEFINE id == DocumentCount(index)
           new == Record(index, term, id)
           old == index.postings[term]
           list == new.postings[term]
<1>1. /\ new.sources = index.sources
      /\ \/ list = old
         \/ list = Append(old, id)
      /\ Len(list) > 0 /\ list[Len(list)] = id
      /\ new \in ExactMatchIndices
  BY RecordType, RecordAppends
<1>2. old \in Seq(DocIds) /\ list \in Seq(DocIds)
  BY <1>1, IndexFields
<1>3. DocumentCount(new) = id
  BY <1>1 DEF DocumentCount
<1>4. /\ \A k \in DOMAIN old : k \in DOMAIN list /\ list[k] = old[k]
      /\ \A k \in DOMAIN list : k \in DOMAIN old \/ list[k] = id
      /\ Len(list) \in DOMAIN list
  <2> HIDE DEF id, new, old, list
  <2>1. CASE list = old
    BY <1>1, <1>2, <2>1
  <2>2. CASE list = Append(old, id)
    BY <1>1, <1>2, <2>2
  <2> QED
    BY <1>1, <2>1, <2>2
<1>5. /\ \A i \in DOMAIN index.sources :
           Contains(index.sources[i], term) => \E k \in DOMAIN old : old[k] = i - 1
      /\ \A k \in DOMAIN old :
           \/ old[k] < id /\ Contains(index.sources[old[k] + 1], term)
           \/ old[k] = id
  BY DEF ExactUpTo, DocumentsContaining, HasSource, Source
<1> HIDE DEF id, new, old, list
<1>6. /\ \A i \in DOMAIN new.sources :
           Contains(new.sources[i], term) => \E k \in DOMAIN list : list[k] = i - 1
      /\ \A k \in DOMAIN list :
           \/ list[k] < id /\ Contains(new.sources[list[k] + 1], term)
           \/ list[k] = id
      /\ \E k \in DOMAIN list : list[k] = id
  BY <1>1, <1>4, <1>5
<1>7. ExactUpTo(new, term, TRUE)
  BY <1>3, <1>6 DEF ExactUpTo, DocumentsContaining, HasSource, Source, list
<1> QED
  BY <1>7 DEF new, id

(* Storing the source of a document all of whose words are recorded leaves *)
(* an index that is exact with nothing under way.                          *)
LEMMA PushSourceExact ==
    ASSUME NEW index \in ExactMatchIndices, NEW document \in Documents,
           NEW term \in Words, ExactUpTo(index, term, Contains(document, term))
    PROVE  ExactUpTo(PushSource(index, document), term, FALSE)
<1> DEFINE new == PushSource(index, document)
           list == index.postings[term]
           count == DocumentCount(index)
<1>1. /\ new.postings[term] = list
      /\ new.sources = Append(index.sources, document)
      /\ DocumentCount(new) = count + 1
  BY PushSourceOK
<1>2. /\ index.sources \in Seq(Documents) /\ count \in Nat
      /\ count = Len(index.sources)
      /\ \A k \in DOMAIN list : list[k] \in Nat
  BY IndexFields DEF DocumentCount
<1>3. /\ DOMAIN new.sources = DOMAIN index.sources \cup {count + 1}
      /\ \A i \in DOMAIN index.sources : new.sources[i] = index.sources[i]
      /\ new.sources[count + 1] = document
      /\ DOMAIN index.sources = 1 .. count
  BY <1>1, <1>2
<1>4. /\ \A i \in DOMAIN index.sources :
           Contains(index.sources[i], term) => \E k \in DOMAIN list : list[k] = i - 1
      /\ \A k \in DOMAIN list :
           \/ list[k] < count /\ Contains(index.sources[list[k] + 1], term)
           \/ list[k] = count /\ Contains(document, term)
      /\ Contains(document, term) => \E k \in DOMAIN list : list[k] = count
  BY DEF ExactUpTo, DocumentsContaining, HasSource, Source
<1> HIDE DEF new, list, count
<1>5. \A i \in DOMAIN new.sources :
        Contains(new.sources[i], term) => \E k \in DOMAIN list : list[k] = i - 1
  BY <1>2, <1>3, <1>4
<1>6. \A k \in DOMAIN list :
        list[k] < count + 1 /\ Contains(new.sources[list[k] + 1], term)
  BY <1>2, <1>3, <1>4
<1>7. ExactUpTo(new, term, FALSE)
  BY <1>1, <1>5, <1>6 DEF ExactUpTo, DocumentsContaining, HasSource, Source, list
<1> QED
  BY <1>7 DEF new

-----------------------------------------------------------------------------
(* The repository. *)

(* What the type lemma carries: types, the locals of a call, the mutex. *)
TypeInv == TypeOK /\ CallsOK /\ MutexOK

-----------------------------------------------------------------------------
(* Types of the values a step computes. *)

(* create_index and add_documents stamp a metadata record. *)
LEMMA NewMetadataType ==
    ASSUME NEW key \in PrimaryKeys, NEW now \in Times
    PROVE  /\ NewMetadata(key, now) \in Metadata
           /\ NewMetadata(key, now) # NoIndex
           /\ NewMetadata(key, now).primaryKey = key
BY NoIndexAssumption DEF NewMetadata, Metadata

(* Every answer a step decides is an answer, and tells its kind. *)
LEMMA AnswerTypes ==
    /\ \A m \in Metadata : /\ Created(m) \in Answers
                           /\ Created(m).status = "created"
                           /\ Created(m).metadata = m
    /\ \A n \in Nat, key \in PrimaryKeys :
         /\ Indexed(n, key) \in Answers
         /\ Indexed(n, key).status = "indexed"
         /\ Indexed(n, key).primaryKey = key
    /\ AlreadyExists \in Answers /\ AlreadyExists.status = "exists"
    /\ InternalError \in Answers /\ InternalError.status = "internal"
    /\ NoAnswer \notin Answers
BY NoAnswerAssumption
   DEF Answers, Created, Indexed, AlreadyExists, InternalError

(* What a request of either kind carries. *)
LEMMA RequestFields ==
    ASSUME NEW r \in Requests
    PROVE  /\ r.op \in {"create", "ingest"}
           /\ r.uid \in Uids
           /\ r.op = "create" => r.primaryKey \in PrimaryKeys
           /\ r.op = "ingest" => /\ r.batch \in Seq(Documents)
                                 /\ r.batch # <<>>
                                 /\ Len(r.batch) \in Nat
<1>1. r \in CreateRequests \/ r \in IngestRequests
  BY DEF Requests
<1>2. CASE r \in CreateRequests
  BY <1>2 DEF CreateRequests
<1>3. CASE r \in IngestRequests
  <2>1. r.op = "ingest" /\ r.uid \in Uids /\ r.batch \in Batches
    BY <1>3 DEF IngestRequests
  <2>2. r.batch \in Seq(Documents) /\ r.batch # <<>>
    BY <2>1, BatchesAssumption
  <2> QED
    BY <2>1, <2>2
<1> QED
  BY <1>1, <1>2, <1>3

(* The document an ingest is at, and its words. *)
LEMMA CurrentTypes ==
    ASSUME TypeInv, NEW w \in Workers, pc[w] = "ingest", ~BatchDone(w)
    PROVE  /\ Uid(w) \in Uids
           /\ CurrentDocument(w) \in Documents
           /\ CurrentWords(w) \in Seq(Words)
           /\ ~WordsDone(w) => CurrentWords(w)[word[w]] \in Words
<1>1. request[w] \in Requests /\ request[w].op = "ingest"
  BY DEF TypeInv, CallsOK
<1>2. doc[w] \in Nat \ {0} /\ word[w] \in Nat \ {0}
  BY DEF TypeInv, TypeOK
<1>3. Uid(w) \in Uids /\ Batch(w) \in Seq(Documents)
  BY <1>1, RequestFields DEF Uid, Batch
<1>4. CurrentDocument(w) \in Documents
  BY <1>2, <1>3 DEF CurrentDocument, BatchDone
<1>5. CurrentWords(w) \in Seq(Words)
  BY <1>4, WordsInAssumption DEF CurrentWords
<1> QED
  BY <1>2, <1>3, <1>4, <1>5 DEF WordsDone

(* try_emplace leaves an index stored under the uid, with the types kept. *)
LEMMA TryEmplaceType ==
    ASSUME TypeOK, NEW uid \in Uids, NEW initial \in Metadata,
           TryEmplace(uid, initial)
    PROVE  /\ metadata' \in [Uids -> Metadata \cup {NoIndex}]
           /\ documents' \in [Uids -> ExactMatchIndices]
           /\ metadata'[uid] = IF metadata[uid] = NoIndex THEN initial
                                                        ELSE metadata[uid]
           /\ documents'[uid] = IF metadata[uid] = NoIndex THEN EmptyIndex
                                                           ELSE documents[uid]
           /\ metadata'[uid] # NoIndex
           /\ \A other \in Uids \ {uid} :
                /\ metadata'[other] = metadata[other]
                /\ documents'[other] = documents[other]
<1>1. CASE metadata[uid] = NoIndex
  BY <1>1, EmptyIndexOK, NoIndexAssumption DEF TryEmplace, TypeOK
<1>2. CASE metadata[uid] # NoIndex
  BY <1>2 DEF TryEmplace, TypeOK, guarded
<1> QED
  BY <1>1, <1>2

-----------------------------------------------------------------------------
(* The initial state has the types, and no call under way. *)
LEMMA InitTypeInv == Init => TypeInv
<1> SUFFICES ASSUME Init PROVE TypeInv
  OBVIOUS
<1>1. TypeOK
  BY EmptyIndexOK DEF Init, TypeOK, Places
<1>2. CallsOK
  BY DEF Init, CallsOK
<1>3. MutexOK
  BY NoWorkerAssumption DEF Init, MutexOK
<1> QED
  BY <1>1, <1>2, <1>3 DEF TypeInv

(* Every step keeps the types, the locals of the calls and the mutex. *)
LEMMA NextTypeInv == TypeInv /\ [Next]_vars => TypeInv'
<1> SUFFICES ASSUME TypeInv, [Next]_vars PROVE TypeInv'
  OBVIOUS
<1> USE DEF TypeInv
<1>1. ASSUME NEW w \in Workers, Receive(w) PROVE TypeInv'
  <2>1. TypeOK'
    BY <1>1 DEF Receive, Goto, TypeOK, Places
  <2>2. CallsOK'
    BY <1>1 DEF Receive, Goto, TypeOK, CallsOK, Uid
  <2>3. MutexOK'
    BY <1>1 DEF Receive, Goto, TypeOK, MutexOK
  <2> QED
    BY <2>1, <2>2, <2>3
<1>2. ASSUME NEW w \in Workers, ReadClock(w) PROVE TypeInv'
  <2>1. TypeOK'
    BY <1>2 DEF ReadClock, Goto, TypeOK, Places
  <2>2. CallsOK'
    BY <1>2 DEF ReadClock, Goto, TypeOK, CallsOK, Uid
  <2>3. MutexOK'
    BY <1>2 DEF ReadClock, Goto, TypeOK, MutexOK
  <2> QED
    BY <2>1, <2>2, <2>3
<1>3. ASSUME NEW w \in Workers, Lock(w) PROVE TypeInv'
  <2>1. TypeOK'
    BY <1>3 DEF Lock, Goto, TypeOK, Places
  <2>2. CallsOK'
    <3>1. request[w].op \in {"create", "ingest"}
      BY <1>3, RequestFields DEF Lock, CallsOK
    <3> QED
      BY <1>3, <3>1 DEF Lock, Goto, TypeOK, CallsOK, Uid
  <2>3. MutexOK'
    BY <1>3, NoWorkerAssumption DEF Lock, Goto, TypeOK, MutexOK
  <2> QED
    BY <2>1, <2>2, <2>3
<1>4. ASSUME NEW w \in Workers, Add(w) PROVE TypeInv'
  <2> DEFINE index == NewMetadata(request[w].primaryKey, stamp[w])
             result == IF metadata[Uid(w)] = NoIndex THEN Created(index)
                                                     ELSE AlreadyExists
  <2>1. pc[w] = "add" /\ Uid(w) \in Uids /\ index \in Metadata
    BY <1>4, RequestFields, NewMetadataType DEF Add, CallsOK, Uid
  <2>2. result \in Answers /\ result # NoAnswer
    BY <2>1, AnswerTypes
  <2>3. TryEmplace(Uid(w), index) /\ Decide(w, result)
    BY <1>4 DEF Add
  <2> HIDE DEF index, result
  <2>4. TypeOK'
    <3>1. /\ metadata' \in [Uids -> Metadata \cup {NoIndex}]
          /\ documents' \in [Uids -> ExactMatchIndices]
      BY <2>1, <2>3, TryEmplaceType
    <3> QED
      BY <1>4, <2>2, <2>3, <3>1 DEF Add, Goto, Release, Decide, TypeOK, Places
  <2>5. CallsOK'
    <3>1. \A uid \in Uids : metadata[uid] # NoIndex => metadata'[uid] # NoIndex
      BY <2>1, <2>3, TryEmplaceType
    <3>2. \A v \in Workers : pc[v] = "ingest" => Uid(v) \in Uids
      BY RequestFields DEF CallsOK, Uid
    <3> QED
      BY <1>4, <2>2, <2>3, <3>1, <3>2
      DEF Add, Goto, Decide, TypeOK, CallsOK, Uid
  <2>6. MutexOK'
    BY <1>4, NoWorkerAssumption DEF Add, Goto, Release, TypeOK, MutexOK
  <2> QED
    BY <2>4, <2>5, <2>6
<1>5. ASSUME NEW w \in Workers, EmplaceIndex(w) PROVE TypeInv'
  <2> DEFINE initial == NewMetadata(NoKey, stamp[w])
  <2>1. pc[w] = "emplace" /\ Uid(w) \in Uids /\ initial \in Metadata
    BY <1>5, RequestFields, NewMetadataType
    DEF EmplaceIndex, CallsOK, Uid, PrimaryKeys
  <2>2. TryEmplace(Uid(w), initial)
    BY <1>5 DEF EmplaceIndex
  <2> HIDE DEF initial
  <2>3. TypeOK'
    <3>1. /\ metadata' \in [Uids -> Metadata \cup {NoIndex}]
          /\ documents' \in [Uids -> ExactMatchIndices]
      BY <2>1, <2>2, TryEmplaceType
    <3> QED
      BY <1>5, <3>1 DEF EmplaceIndex, Goto, TypeOK, Places
  <2>4. CallsOK'
    <3>1. /\ metadata'[Uid(w)] # NoIndex
          /\ \A uid \in Uids : metadata[uid] # NoIndex => metadata'[uid] # NoIndex
      BY <2>1, <2>2, TryEmplaceType
    <3>2. \A v \in Workers : pc[v] = "ingest" => Uid(v) \in Uids
      BY RequestFields DEF CallsOK, Uid
    <3> QED
      BY <1>5, <3>1, <3>2 DEF EmplaceIndex, Goto, TypeOK, CallsOK, Uid
  <2>5. MutexOK'
    BY <1>5 DEF EmplaceIndex, Goto, TypeOK, MutexOK
  <2> QED
    BY <2>3, <2>4, <2>5
<1>6. ASSUME NEW w \in Workers, RecordWord(w) PROVE TypeInv'
  <2> DEFINE index == documents[Uid(w)]
             new == Record(index, CurrentWords(w)[word[w]], NextDocId(index))
  <2>1. Uid(w) \in Uids /\ CurrentWords(w)[word[w]] \in Words
    BY <1>6, CurrentTypes DEF RecordWord
  <2>2. index \in ExactMatchIndices /\ NextDocId(index) \in DocIds
    <3>1. index \in ExactMatchIndices
      BY <2>1 DEF TypeOK
    <3>2. DocumentCount(index) < DocIdModulus
      BY <1>6, <3>1, IndexFields, MaxDocumentsAssumption, DocIdModulusAssumption
      DEF RecordWord, RoomFor
    <3> QED
      BY <3>1, <3>2, NextDocIdExact
  <2>3. new \in ExactMatchIndices
    BY <2>1, <2>2, RecordType
  <2>4. documents' = [documents EXCEPT ![Uid(w)] = new]
    BY <1>6 DEF RecordWord
  <2> HIDE DEF index, new
  <2>5. TypeOK'
    BY <1>6, <2>1, <2>3, <2>4 DEF RecordWord, TypeOK
  <2>6. CallsOK' /\ MutexOK'
    BY <1>6 DEF RecordWord, CallsOK, MutexOK, Uid
  <2> QED
    BY <2>5, <2>6
<1>7. ASSUME NEW w \in Workers, StoreSource(w) PROVE TypeInv'
  <2> DEFINE new == PushSource(documents[Uid(w)], CurrentDocument(w))
  <2>1. Uid(w) \in Uids /\ CurrentDocument(w) \in Documents
    BY <1>7, CurrentTypes DEF StoreSource
  <2>2. new \in ExactMatchIndices
    BY <2>1, PushSourceOK DEF TypeOK
  <2>3. documents' = [documents EXCEPT ![Uid(w)] = new]
    BY <1>7 DEF StoreSource
  <2> HIDE DEF new
  <2>4. TypeOK'
    BY <1>7, <2>1, <2>2, <2>3 DEF StoreSource, TypeOK
  <2>5. CallsOK' /\ MutexOK'
    BY <1>7 DEF StoreSource, CallsOK, MutexOK, Uid
  <2> QED
    BY <2>4, <2>5
<1>8. ASSUME NEW w \in Workers, FinishBatch(w) PROVE TypeInv'
  <2> DEFINE result == Indexed(Len(Batch(w)), metadata[Uid(w)].primaryKey)
  <2>1. result \in Answers /\ result # NoAnswer
    <3>1. Uid(w) \in Uids /\ Len(Batch(w)) \in Nat /\ metadata[Uid(w)] # NoIndex
      BY <1>8, RequestFields DEF FinishBatch, CallsOK, Uid, Batch
    <3>2. metadata[Uid(w)].primaryKey \in PrimaryKeys
      BY <3>1 DEF TypeOK, Metadata
    <3> QED
      BY <3>1, <3>2, AnswerTypes
  <2>2. Decide(w, result)
    BY <1>8 DEF FinishBatch
  <2> HIDE DEF result
  <2>3. TypeOK'
    BY <1>8, <2>1, <2>2 DEF FinishBatch, Goto, Release, Decide, TypeOK, Places
  <2>4. CallsOK'
    BY <1>8, <2>1, <2>2 DEF FinishBatch, Goto, Decide, TypeOK, CallsOK, Uid
  <2>5. MutexOK'
    BY <1>8, NoWorkerAssumption DEF FinishBatch, Goto, Release, TypeOK, MutexOK
  <2> QED
    BY <2>3, <2>4, <2>5
<1>9. ASSUME NEW w \in Workers, Throw(w) PROVE TypeInv'
  <2>1. TypeOK'
    BY <1>9, AnswerTypes DEF Throw, Goto, Decide, TypeOK, Places
  <2>2. CallsOK'
    BY <1>9, AnswerTypes DEF Throw, Goto, Decide, TypeOK, CallsOK, Uid
  <2>3. MutexOK'
    BY <1>9, NoWorkerAssumption DEF Throw, Goto, TypeOK, MutexOK
  <2> QED
    BY <2>1, <2>2, <2>3
<1>10. ASSUME NEW w \in Workers, Respond(w) PROVE TypeInv'
  <2>1. TypeOK'
    <3>1. [request |-> request[w], answer |-> answer[w]] \in Exchanges
      BY <1>10 DEF Respond, TypeOK, CallsOK, Exchanges
    <3>2. history' \in Seq(Exchanges)
      BY <1>10, <3>1 DEF Respond, TypeOK
    <3> QED
      BY <1>10, <3>2 DEF Respond, Goto, TypeOK, Places
  <2>2. CallsOK'
    BY <1>10 DEF Respond, Goto, TypeOK, CallsOK, Uid
  <2>3. MutexOK'
    BY <1>10 DEF Respond, Goto, TypeOK, MutexOK
  <2> QED
    BY <2>1, <2>2, <2>3
<1>11. CASE UNCHANGED vars
  BY <1>11 DEF vars, TypeOK, CallsOK, MutexOK, Uid
<1> QED
  BY <1>1, <1>2, <1>3, <1>4, <1>5, <1>6, <1>7, <1>8, <1>9, <1>10, <1>11
  DEF Next, Step, Done

(* Types hold of every behaviour, and only the worker that holds the mutex *)
(* is inside a member function of the repository.                          *)
THEOREM TypeCorrect == Safety => [](TypeOK /\ CallsOK /\ MutexOK)
<1>1. Init => TypeInv
  BY InitTypeInv
<1>2. TypeInv /\ [Next]_vars => TypeInv'
  BY NextTypeInv
<1>3. TypeInv => TypeOK /\ CallsOK /\ MutexOK
  BY DEF TypeInv
<1> QED
  BY <1>1, <1>2, <1>3, PTL DEF Safety

-----------------------------------------------------------------------------
(* A step writes to at most one index: it creates it empty, records a word *)
(* of the document being added, or stores that document's source.          *)
CreatesIndex(uid, initial) ==
    /\ metadata[uid] = NoIndex
    /\ metadata' = [metadata EXCEPT ![uid] = initial]
    /\ documents' = [documents EXCEPT ![uid] = EmptyIndex]

LEMMA StepKinds ==
    ASSUME TypeInv, [Next]_vars
    PROVE  \/ UNCHANGED <<metadata, documents>>
           \/ \E uid \in Uids, initial \in Metadata : CreatesIndex(uid, initial)
           \/ \E w \in Workers : RecordWord(w) \/ StoreSource(w)
<1>1. ASSUME NEW w \in Workers, Add(w)
      PROVE  \/ UNCHANGED <<metadata, documents>>
             \/ \E uid \in Uids, initial \in Metadata : CreatesIndex(uid, initial)
  <2> DEFINE index == NewMetadata(request[w].primaryKey, stamp[w])
  <2>1. Uid(w) \in Uids /\ index \in Metadata
    BY <1>1, RequestFields, NewMetadataType DEF Add, TypeInv, CallsOK, Uid
  <2>2. TryEmplace(Uid(w), index)
    BY <1>1 DEF Add
  <2> HIDE DEF index
  <2> QED
    BY <2>1, <2>2 DEF TryEmplace, CreatesIndex, guarded
<1>2. ASSUME NEW w \in Workers, EmplaceIndex(w)
      PROVE  \/ UNCHANGED <<metadata, documents>>
             \/ \E uid \in Uids, initial \in Metadata : CreatesIndex(uid, initial)
  <2> DEFINE initial == NewMetadata(NoKey, stamp[w])
  <2>1. Uid(w) \in Uids /\ initial \in Metadata
    BY <1>2, RequestFields, NewMetadataType
    DEF EmplaceIndex, TypeInv, CallsOK, Uid, PrimaryKeys
  <2>2. TryEmplace(Uid(w), initial)
    BY <1>2 DEF EmplaceIndex
  <2> HIDE DEF initial
  <2> QED
    BY <2>1, <2>2 DEF TryEmplace, CreatesIndex, guarded
<1>3. ASSUME NEW w \in Workers,
             \/ Receive(w) \/ ReadClock(w) \/ Lock(w)
             \/ FinishBatch(w) \/ Throw(w) \/ Respond(w)
      PROVE  UNCHANGED <<metadata, documents>>
  BY <1>3 DEF Receive, ReadClock, Lock, FinishBatch, Throw, Respond
<1>4. CASE UNCHANGED vars
  BY <1>4 DEF vars
<1> QED
  BY <1>1, <1>2, <1>3, <1>4 DEF Next, Step, Done

(* What RecordWord works with: an index, a word of the current document,   *)
(* and an id that is exactly the number of documents stored.               *)
LEMMA RecordWordArguments ==
    ASSUME TypeInv, NEW w \in Workers, RecordWord(w)
    PROVE  LET index == documents[Uid(w)]
               term == CurrentWords(w)[word[w]] IN
           /\ Uid(w) \in Uids
           /\ index \in ExactMatchIndices
           /\ term \in Words
           /\ NextDocId(index) \in DocIds
           /\ NextDocId(index) = DocumentCount(index)
           /\ documents' = [documents EXCEPT ![Uid(w)] =
                              Record(index, term, NextDocId(index))]
<1> DEFINE index == documents[Uid(w)]
<1>1. Uid(w) \in Uids /\ CurrentWords(w)[word[w]] \in Words
  BY CurrentTypes DEF RecordWord
<1>2. index \in ExactMatchIndices
  BY <1>1 DEF TypeInv, TypeOK
<1>3. DocumentCount(index) < DocIdModulus
  BY <1>2, IndexFields, MaxDocumentsAssumption, DocIdModulusAssumption
  DEF RecordWord, RoomFor
<1> QED
  BY <1>1, <1>2, <1>3, NextDocIdExact DEF RecordWord

(* What StoreSource works with. *)
LEMMA StoreSourceArguments ==
    ASSUME TypeInv, NEW w \in Workers, StoreSource(w)
    PROVE  /\ Uid(w) \in Uids
           /\ documents[Uid(w)] \in ExactMatchIndices
           /\ CurrentDocument(w) \in Documents
           /\ documents' = [documents EXCEPT ![Uid(w)] =
                              PushSource(documents[Uid(w)], CurrentDocument(w))]
<1>1. Uid(w) \in Uids /\ CurrentDocument(w) \in Documents
  BY CurrentTypes DEF StoreSource
<1> QED
  BY <1>1 DEF StoreSource, TypeInv, TypeOK

(* Postings stay ascending and within the ids, and a uid without an index  *)
(* has no documents.                                                       *)
IndexInv == AbsentOK /\ PostingsOK

LEMMA InitIndexInv == Init => IndexInv
<1> SUFFICES ASSUME Init PROVE IndexInv
  OBVIOUS
<1>1. \A uid \in Uids : documents[uid] = EmptyIndex
  BY DEF Init
<1>2. DocumentCount(EmptyIndex) + 1 = 1
  BY EmptyIndexOK
<1> QED
  BY <1>1, <1>2, EmptyIndexOK DEF IndexInv, AbsentOK, PostingsOK

LEMMA NextIndexInv == TypeInv /\ IndexInv /\ [Next]_vars => IndexInv'
<1> SUFFICES ASSUME TypeInv, IndexInv, [Next]_vars PROVE IndexInv'
  OBVIOUS
<1>1. metadata \in [Uids -> Metadata \cup {NoIndex}]
      /\ documents \in [Uids -> ExactMatchIndices]
  BY DEF TypeInv, TypeOK
<1>2. CASE UNCHANGED <<metadata, documents>>
  BY <1>2 DEF IndexInv, AbsentOK, PostingsOK
<1>3. ASSUME NEW uid \in Uids, NEW initial \in Metadata, CreatesIndex(uid, initial)
      PROVE  IndexInv'
  <2>1. /\ documents'[uid] = EmptyIndex
        /\ \A other \in Uids \ {uid} : /\ documents'[other] = documents[other]
                                       /\ metadata'[other] = metadata[other]
    BY <1>1, <1>3 DEF CreatesIndex
  <2>2. AbsentOK'
    BY <2>1 DEF IndexInv, AbsentOK
  <2>3. DocumentCount(EmptyIndex) + 1 = 1
    BY EmptyIndexOK
  <2>4. PostingsOK'
    BY <2>1, <2>3, EmptyIndexOK DEF IndexInv, PostingsOK
  <2> QED
    BY <2>2, <2>4 DEF IndexInv
<1>4. ASSUME NEW w \in Workers, RecordWord(w) PROVE IndexInv'
  <2> DEFINE index == documents[Uid(w)]
             id == NextDocId(index)
             new == Record(index, CurrentWords(w)[word[w]], id)
  <2>1. /\ Uid(w) \in Uids /\ index \in ExactMatchIndices /\ id \in DocIds
        /\ CurrentWords(w)[word[w]] \in Words /\ id = DocumentCount(index)
        /\ documents' = [documents EXCEPT ![Uid(w)] = new]
    BY <1>4, RecordWordArguments
  <2>2. Ascending(index) /\ IdsBelow(index, id + 1)
    BY <2>1 DEF IndexInv, PostingsOK
  <2>3. Ascending(new) /\ IdsBelow(new, id + 1)
    BY <2>1, <2>2, RecordAscending
  <2>4. DocumentCount(new) = id
    BY <2>1, RecordType DEF DocumentCount
  <2>5. metadata' = metadata /\ metadata[Uid(w)] # NoIndex
    BY <1>4 DEF RecordWord, TypeInv, CallsOK
  <2> HIDE DEF index, id, new
  <2>6. AbsentOK'
    BY <1>1, <2>1, <2>5 DEF IndexInv, AbsentOK
  <2>7. PostingsOK'
    BY <1>1, <2>1, <2>3, <2>4 DEF IndexInv, PostingsOK
  <2> QED
    BY <2>6, <2>7 DEF IndexInv
<1>5. ASSUME NEW w \in Workers, StoreSource(w) PROVE IndexInv'
  <2> DEFINE index == documents[Uid(w)]
             new == PushSource(index, CurrentDocument(w))
  <2>1. /\ Uid(w) \in Uids /\ index \in ExactMatchIndices
        /\ CurrentDocument(w) \in Documents
        /\ documents' = [documents EXCEPT ![Uid(w)] = new]
    BY <1>5, StoreSourceArguments
  <2>2. Ascending(index) /\ IdsBelow(index, DocumentCount(index) + 1)
    BY <2>1 DEF IndexInv, PostingsOK
  <2>3. DocumentCount(index) + 1 \in Nat
    BY <2>1, IndexFields
  <2>4. Ascending(new) /\ IdsBelow(new, DocumentCount(new) + 1)
    BY <2>1, <2>2, <2>3, PushSourceOK
  <2>5. metadata' = metadata /\ metadata[Uid(w)] # NoIndex
    BY <1>5 DEF StoreSource, TypeInv, CallsOK
  <2> HIDE DEF index, new
  <2>6. AbsentOK'
    BY <1>1, <2>1, <2>5 DEF IndexInv, AbsentOK
  <2>7. PostingsOK'
    BY <1>1, <2>1, <2>4 DEF IndexInv, PostingsOK
  <2> QED
    BY <2>6, <2>7 DEF IndexInv
<1> QED
  BY <1>2, <1>3, <1>4, <1>5, StepKinds

(* "in insertion order, each once" (exact_match_index.hpp:31) holds at     *)
(* every moment of every behaviour, allocation failures included.          *)
THEOREM PostingsAlwaysAscending == Safety => []PostingsAscending
<1>1. Init => TypeInv /\ IndexInv
  BY InitTypeInv, InitIndexInv
<1>2. TypeInv /\ IndexInv /\ [Next]_vars => TypeInv' /\ IndexInv'
  BY NextTypeInv, NextIndexInv
<1>3. IndexInv => PostingsAscending
  BY DEF IndexInv, PostingsOK, PostingsAscending
<1> QED
  BY <1>1, <1>2, <1>3, PTL DEF Safety

-----------------------------------------------------------------------------
(* A sequence is a prefix of itself and of what Append makes of it. *)
LEMMA PrefixFacts ==
    ASSUME NEW S, NEW s \in Seq(S), NEW e
    PROVE  Prefix(s, s) /\ Prefix(s, Append(s, e)) /\ Prefix(<<>>, s)
<1>1. Prefix(s, s) /\ Prefix(<<>>, s)
  BY DEF Prefix
<1>2. Prefix(s, Append(s, e))
  BY DEF Prefix
<1> QED
  BY <1>1, <1>2

(* Every step leaves what is stored or adds to it. *)
LEMMA NextGrows == TypeInv /\ IndexInv /\ [Next]_vars => Grows
<1> SUFFICES ASSUME TypeInv, IndexInv, [Next]_vars, NEW u \in Uids
             PROVE  /\ metadata[u] # NoIndex => metadata'[u] = metadata[u]
                    /\ Prefix(documents[u].sources, documents'[u].sources)
                    /\ \A term \in Words : Prefix(documents[u].postings[term],
                                                   documents'[u].postings[term])
  BY DEF Grows
<1>1. /\ metadata \in [Uids -> Metadata \cup {NoIndex}]
      /\ documents \in [Uids -> ExactMatchIndices]
  BY DEF TypeInv, TypeOK
<1>2. /\ Prefix(documents[u].sources, documents[u].sources)
      /\ \A term \in Words : Prefix(documents[u].postings[term],
                                     documents[u].postings[term])
  BY <1>1, IndexFields, PrefixFacts
<1>3. CASE UNCHANGED <<metadata, documents>>
  BY <1>2, <1>3
<1>4. ASSUME NEW uid \in Uids, NEW initial \in Metadata, CreatesIndex(uid, initial)
      PROVE  /\ metadata[u] # NoIndex => metadata'[u] = metadata[u]
             /\ documents'[u] = documents[u]
  BY <1>1, <1>4 DEF CreatesIndex, IndexInv, AbsentOK
<1>5. ASSUME NEW w \in Workers, RecordWord(w)
      PROVE  /\ metadata' = metadata
             /\ Prefix(documents[u].sources, documents'[u].sources)
             /\ \A term \in Words : Prefix(documents[u].postings[term],
                                            documents'[u].postings[term])
  <2> DEFINE index == documents[Uid(w)]
             recorded == CurrentWords(w)[word[w]]
             new == Record(index, recorded, NextDocId(index))
  <2>1. /\ Uid(w) \in Uids /\ index \in ExactMatchIndices
        /\ recorded \in Words /\ NextDocId(index) \in DocIds
        /\ documents' = [documents EXCEPT ![Uid(w)] = new]
    BY <1>5, RecordWordArguments
  <2>2. /\ new.sources = index.sources
        /\ \A other \in Words \ {recorded} :
             new.postings[other] = index.postings[other]
    BY <2>1, RecordType
  <2>3. \/ new.postings[recorded] = index.postings[recorded]
        \/ new.postings[recorded] = Append(index.postings[recorded], NextDocId(index))
    <3> HIDE DEF index, recorded
    <3> QED
      BY <2>1, RecordAppends
  <2>4. ASSUME NEW term \in Words
        PROVE  Prefix(index.postings[term], new.postings[term])
    <3> HIDE DEF index, recorded, new
    <3>1. index.postings[term] \in Seq(DocIds)
      BY <2>1, IndexFields
    <3>2. /\ Prefix(index.postings[term], index.postings[term])
          /\ Prefix(index.postings[term],
                    Append(index.postings[term], NextDocId(index)))
      BY <3>1, PrefixFacts
    <3> QED
      BY <2>2, <2>3, <3>2
  <2>5. Prefix(index.sources, new.sources)
    BY <2>1, <2>2, IndexFields, PrefixFacts
  <2>6. metadata' = metadata
    BY <1>5 DEF RecordWord
  <2> HIDE DEF index, new
  <2>7. CASE u = Uid(w)
    BY <1>1, <2>1, <2>4, <2>5, <2>6, <2>7 DEF index
  <2>8. CASE u # Uid(w)
    BY <1>1, <1>2, <2>1, <2>6, <2>8
  <2> QED
    BY <2>7, <2>8
<1>6. ASSUME NEW w \in Workers, StoreSource(w)
      PROVE  /\ metadata' = metadata
             /\ Prefix(documents[u].sources, documents'[u].sources)
             /\ \A term \in Words : Prefix(documents[u].postings[term],
                                            documents'[u].postings[term])
  <2> DEFINE index == documents[Uid(w)]
             new == PushSource(index, CurrentDocument(w))
  <2>1. /\ Uid(w) \in Uids /\ index \in ExactMatchIndices
        /\ CurrentDocument(w) \in Documents
        /\ documents' = [documents EXCEPT ![Uid(w)] = new]
    BY <1>6, StoreSourceArguments
  <2>2. /\ new.postings = index.postings
        /\ new.sources = Append(index.sources, CurrentDocument(w))
    BY <2>1, PushSourceOK
  <2>3. \A term \in Words : Prefix(index.postings[term], new.postings[term])
    BY <2>1, <2>2, IndexFields, PrefixFacts
  <2>4. Prefix(index.sources, new.sources)
    BY <2>1, <2>2, IndexFields, PrefixFacts
  <2>5. metadata' = metadata
    BY <1>6 DEF StoreSource
  <2> HIDE DEF index, new
  <2>6. CASE u = Uid(w)
    BY <1>1, <2>1, <2>3, <2>4, <2>5, <2>6 DEF index
  <2>7. CASE u # Uid(w)
    BY <1>1, <1>2, <2>1, <2>5, <2>7
  <2> QED
    BY <2>6, <2>7
<1> QED
  BY <1>2, <1>3, <1>4, <1>5, <1>6, StepKinds

(* No step takes back an index, a source or a posting, or changes the      *)
(* metadata of an index, whatever fails.                                   *)
THEOREM StoreOnlyGrows == Safety => OnlyGrows
<1>1. Init => TypeInv /\ IndexInv
  BY InitTypeInv, InitIndexInv
<1>2. TypeInv /\ IndexInv /\ [Next]_vars => TypeInv' /\ IndexInv'
  BY NextTypeInv, NextIndexInv
<1>3. TypeInv /\ IndexInv /\ [Next]_vars => [Grows]_vars
  BY NextGrows
<1> QED
  BY <1>1, <1>2, <1>3, PTL DEF Safety, OnlyGrows

-----------------------------------------------------------------------------
(* A step may receive, decide or give one answer, or none. *)
LEMMA AnswerKinds ==
    ASSUME [Next]_vars
    PROVE  \/ UNCHANGED <<request, answer, history>>
           \/ \E w \in Workers : \/ Receive(w) \/ Add(w) \/ FinishBatch(w)
                                 \/ Throw(w) \/ Respond(w)
BY DEF Next, Step, Done, vars, ReadClock, Lock, EmplaceIndex, RecordWord, StoreSource

(* What was true of the store when an answer was decided stays true of it. *)
LEMMA ReportsStable ==
    ASSUME TypeInv, Grows, NEW r \in Requests, NEW result \in Answers,
           Reports(r, result)
    PROVE  /\ result.status # "internal" => metadata'[r.uid] # NoIndex
           /\ result.status = "created" => metadata'[r.uid] = result.metadata
           /\ result.status = "indexed" =>
                 result.primaryKey = metadata'[r.uid].primaryKey
<1>1. r.uid \in Uids
  BY RequestFields
<1>2. metadata[r.uid] # NoIndex => metadata'[r.uid] = metadata[r.uid]
  BY <1>1 DEF Grows
<1>3. result.status = "created" => result.status # "internal"
  OBVIOUS
<1>4. result.status = "indexed" => result.status # "internal"
  OBVIOUS
<1> QED
  BY <1>2, <1>3, <1>4 DEF Reports

(* The requests and answers that AnswersOK speaks of are typed. *)
LEMMA ExchangeTypes ==
    ASSUME TypeInv
    PROVE  /\ \A w \in Workers : answer[w] # NoAnswer =>
                 request[w] \in Requests /\ answer[w] \in Answers
           /\ \A i \in DOMAIN history :
                 history[i].request \in Requests /\ history[i].answer \in Answers
<1>1. ASSUME NEW w \in Workers, answer[w] # NoAnswer
      PROVE  request[w] \in Requests /\ answer[w] \in Answers
  BY <1>1 DEF TypeInv, TypeOK, CallsOK
<1>2. ASSUME NEW i \in DOMAIN history
      PROVE  history[i].request \in Requests /\ history[i].answer \in Answers
  <2>1. history[i] \in Exchanges
    BY DEF TypeInv, TypeOK
  <2> QED
    BY <2>1 DEF Exchanges
<1> QED
  BY <1>1, <1>2

(* What Add decides, and when it decides that the index was created. *)
LEMMA AddDecides ==
    ASSUME TypeInv, NEW w \in Workers, Add(w)
    PROVE  /\ request[w] \in Requests /\ Uid(w) \in Uids
           /\ request' = request /\ history' = history
           /\ answer[w] = NoAnswer
           /\ answer' = [answer EXCEPT ![w] = answer'[w]]
           /\ answer'[w] # NoAnswer
           /\ \/ /\ metadata[Uid(w)] = NoIndex
                 /\ answer'[w].status = "created"
                 /\ answer'[w].metadata = metadata'[Uid(w)]
              \/ /\ metadata[Uid(w)] # NoIndex
                 /\ answer'[w].status = "exists"
           /\ metadata'[Uid(w)] # NoIndex
<1> DEFINE index == NewMetadata(request[w].primaryKey, stamp[w])
           result == IF metadata[Uid(w)] = NoIndex THEN Created(index)
                                                   ELSE AlreadyExists
<1>1. /\ request[w] \in Requests /\ Uid(w) \in Uids /\ index \in Metadata
      /\ answer[w] = NoAnswer
  BY RequestFields, NewMetadataType DEF Add, TypeInv, CallsOK, Uid
<1>2. /\ TryEmplace(Uid(w), index) /\ Decide(w, result)
      /\ request' = request /\ history' = history
  BY DEF Add
<1>3. result # NoAnswer
  BY <1>1, AnswerTypes
<1>4. metadata[Uid(w)] = NoIndex =>
        result.status = "created" /\ result.metadata = index
  BY <1>1, AnswerTypes
<1>5. metadata[Uid(w)] # NoIndex => result.status = "exists"
  BY AnswerTypes
<1> HIDE DEF index, result
<1>6. answer' = [answer EXCEPT ![w] = result] /\ answer'[w] = result
  BY <1>2 DEF Decide, TypeInv, TypeOK
<1>7. /\ metadata'[Uid(w)] # NoIndex
      /\ metadata[Uid(w)] = NoIndex => metadata'[Uid(w)] = index
  BY <1>1, <1>2, TryEmplaceType DEF TypeInv
<1> QED
  BY <1>1, <1>2, <1>3, <1>4, <1>5, <1>6, <1>7

(* What FinishBatch decides. *)
LEMMA FinishDecides ==
    ASSUME TypeInv, NEW w \in Workers, FinishBatch(w)
    PROVE  /\ request' = request /\ history' = history /\ metadata' = metadata
           /\ answer' = [answer EXCEPT ![w] = answer'[w]]
           /\ answer'[w].status = "indexed"
           /\ answer'[w].primaryKey = metadata[Uid(w)].primaryKey
           /\ metadata[Uid(w)] # NoIndex
<1> DEFINE result == Indexed(Len(Batch(w)), metadata[Uid(w)].primaryKey)
<1>1. Uid(w) \in Uids /\ Len(Batch(w)) \in Nat /\ metadata[Uid(w)] # NoIndex
  BY RequestFields DEF FinishBatch, TypeInv, CallsOK, Uid, Batch
<1>2. metadata[Uid(w)].primaryKey \in PrimaryKeys
  BY <1>1 DEF TypeInv, TypeOK, Metadata
<1>3. /\ result.status = "indexed"
      /\ result.primaryKey = metadata[Uid(w)].primaryKey
  BY <1>1, <1>2, AnswerTypes
<1>4. /\ Decide(w, result)
      /\ request' = request /\ history' = history /\ metadata' = metadata
  BY DEF FinishBatch
<1> HIDE DEF result
<1>5. answer' = [answer EXCEPT ![w] = result] /\ answer'[w] = result
  BY <1>4 DEF Decide, TypeInv, TypeOK
<1> QED
  BY <1>1, <1>3, <1>4, <1>5

(* Answers decided and given report what is stored. *)
LEMMA NextAnswersOK ==
    TypeInv /\ IndexInv /\ AnswersOK /\ [Next]_vars => AnswersOK'
<1> SUFFICES ASSUME TypeInv, IndexInv, AnswersOK, [Next]_vars PROVE AnswersOK'
  OBVIOUS
<1> DEFINE ReportsNext(r, result) ==
             /\ result.status # "internal" => metadata'[r.uid] # NoIndex
             /\ result.status = "created" => metadata'[r.uid] = result.metadata
             /\ result.status = "indexed" =>
                   result.primaryKey = metadata'[r.uid].primaryKey
<1>1. /\ \A v \in Workers : answer[v] # NoAnswer =>
                              ReportsNext(request[v], answer[v])
      /\ \A i \in DOMAIN history :
           ReportsNext(history[i].request, history[i].answer)
  BY NextGrows, ReportsStable, ExchangeTypes DEF AnswersOK
<1>2. SUFFICES
        /\ \A v \in Workers : answer'[v] # NoAnswer =>
                              ReportsNext(request'[v], answer'[v])
        /\ \A i \in DOMAIN history' :
              ReportsNext(history'[i].request, history'[i].answer)
  BY DEF AnswersOK, Reports
<1> HIDE DEF ReportsNext
<1>3. CASE UNCHANGED <<request, answer, history>>
  BY <1>1, <1>3
<1>4. ASSUME NEW w \in Workers, Receive(w)
      PROVE  /\ \A v \in Workers : answer'[v] # NoAnswer =>
                                   ReportsNext(request'[v], answer'[v])
             /\ \A i \in DOMAIN history' :
                  ReportsNext(history'[i].request, history'[i].answer)
  <2>1. answer[w] = NoAnswer
    BY <1>4 DEF Receive, TypeInv, CallsOK
  <2> QED
    BY <1>1, <1>4, <2>1 DEF Receive, TypeInv, TypeOK
<1>5. ASSUME NEW w \in Workers, Add(w)
      PROVE  /\ \A v \in Workers : answer'[v] # NoAnswer =>
                                   ReportsNext(request'[v], answer'[v])
             /\ \A i \in DOMAIN history' :
                  ReportsNext(history'[i].request, history'[i].answer)
  <2>1. ReportsNext(request'[w], answer'[w])
    BY <1>5, AddDecides DEF ReportsNext, Uid
  <2>2. \A v \in Workers \ {w} : answer'[v] = answer[v]
    BY <1>5 DEF Add, Decide, TypeInv, TypeOK
  <2> QED
    BY <1>1, <1>5, <2>1, <2>2, AddDecides
<1>6. ASSUME NEW w \in Workers, FinishBatch(w)
      PROVE  /\ \A v \in Workers : answer'[v] # NoAnswer =>
                                   ReportsNext(request'[v], answer'[v])
             /\ \A i \in DOMAIN history' :
                  ReportsNext(history'[i].request, history'[i].answer)
  <2>1. ReportsNext(request'[w], answer'[w])
    BY <1>6, FinishDecides DEF ReportsNext, Uid
  <2>2. \A v \in Workers \ {w} : answer'[v] = answer[v]
    BY <1>6 DEF FinishBatch, Decide, TypeInv, TypeOK
  <2> QED
    BY <1>1, <1>6, <2>1, <2>2, FinishDecides
<1>7. ASSUME NEW w \in Workers, Throw(w)
      PROVE  /\ \A v \in Workers : answer'[v] # NoAnswer =>
                                   ReportsNext(request'[v], answer'[v])
             /\ \A i \in DOMAIN history' :
                  ReportsNext(history'[i].request, history'[i].answer)
  <2>1. ReportsNext(request'[w], InternalError)
    BY AnswerTypes DEF ReportsNext
  <2>2. /\ answer'[w] = InternalError
        /\ \A v \in Workers \ {w} : answer'[v] = answer[v]
        /\ request' = request /\ history' = history
    BY <1>7 DEF Throw, Decide, TypeInv, TypeOK
  <2> QED
    BY <1>1, <2>1, <2>2
<1>8. ASSUME NEW w \in Workers, Respond(w)
      PROVE  /\ \A v \in Workers : answer'[v] # NoAnswer =>
                                   ReportsNext(request'[v], answer'[v])
             /\ \A i \in DOMAIN history' :
                  ReportsNext(history'[i].request, history'[i].answer)
  <2> DEFINE exchange == [request |-> request[w], answer |-> answer[w]]
  <2>1. answer[w] # NoAnswer
    BY <1>8 DEF Respond, TypeInv, CallsOK
  <2>2. ReportsNext(exchange.request, exchange.answer)
    BY <1>1, <2>1
  <2>3. /\ history' = Append(history, exchange)
        /\ answer'[w] = NoAnswer
        /\ \A v \in Workers \ {w} :
             answer'[v] = answer[v] /\ request'[v] = request[v]
    BY <1>8 DEF Respond, TypeInv, TypeOK
  <2>4. history \in Seq(Exchanges)
    BY DEF TypeInv, TypeOK
  <2> HIDE DEF exchange
  <2>5. ASSUME NEW i \in DOMAIN history'
        PROVE  ReportsNext(history'[i].request, history'[i].answer)
    <3>1. \/ i \in DOMAIN history /\ history'[i] = history[i]
          \/ history'[i] = exchange
      BY <2>3, <2>4
    <3> QED
      BY <1>1, <2>2, <3>1
  <2> QED
    BY <1>1, <2>3, <2>5
<1> QED
  BY <1>3, <1>4, <1>5, <1>6, <1>7, <1>8, AnswerKinds

(* No uid is created twice among the answers decided and given. *)
LEMMA NextCreationsOK ==
    TypeInv /\ IndexInv /\ AnswersOK /\ CreationsOK /\ [Next]_vars => CreationsOK'
<1> SUFFICES ASSUME TypeInv, IndexInv, AnswersOK, CreationsOK, [Next]_vars
             PROVE  CreationsOK'
  OBVIOUS
<1>1. CASE UNCHANGED <<request, answer, history>>
  BY <1>1 DEF CreationsOK, Creates, HasCreated, Uid
<1>2. ASSUME NEW w \in Workers, Receive(w) PROVE CreationsOK'
  <2>1. answer[w] = NoAnswer
    BY <1>2 DEF Receive, TypeInv, CallsOK
  <2>2. /\ answer' = answer /\ history' = history
        /\ \A v \in Workers \ {w} : request'[v] = request[v]
    BY <1>2 DEF Receive, TypeInv, TypeOK
  <2> QED
    BY <2>1, <2>2 DEF CreationsOK, Creates, HasCreated, Uid
<1>3. ASSUME NEW w \in Workers, Add(w) PROVE CreationsOK'
  <2>1. /\ request' = request /\ history' = history
        /\ \A v \in Workers \ {w} : answer'[v] = answer[v]
    BY <1>3 DEF Add, Decide, TypeInv, TypeOK
  <2>2. answer'[w].status = "created" => metadata[Uid(w)] = NoIndex
    BY <1>3, AddDecides
  <2>3. \A v \in Workers : Creates(v, Uid(w)) => metadata[Uid(w)] # NoIndex
    BY DEF AnswersOK, Reports, Creates, Uid
  <2>4. \A i \in DOMAIN history : HasCreated(i, Uid(w)) => metadata[Uid(w)] # NoIndex
    BY DEF AnswersOK, Reports, HasCreated
  <2> QED
    BY <2>1, <2>2, <2>3, <2>4 DEF CreationsOK, Creates, HasCreated, Uid
<1>4. ASSUME NEW w \in Workers, FinishBatch(w) \/ Throw(w) PROVE CreationsOK'
  <2>1. /\ request' = request /\ history' = history
        /\ \A v \in Workers \ {w} : answer'[v] = answer[v]
    BY <1>4 DEF FinishBatch, Throw, Decide, TypeInv, TypeOK
  <2>2. answer'[w].status # "created"
    <3>1. CASE FinishBatch(w)
      BY <3>1, FinishDecides
    <3>2. CASE Throw(w)
      BY <3>2, AnswerTypes DEF Throw, Decide, TypeInv, TypeOK
    <3> QED
      BY <1>4, <3>1, <3>2
  <2> QED
    BY <2>1, <2>2 DEF CreationsOK, Creates, HasCreated, Uid
<1>5. ASSUME NEW w \in Workers, Respond(w) PROVE CreationsOK'
  <2> DEFINE exchange == [request |-> request[w], answer |-> answer[w]]
  <2>1. answer[w] # NoAnswer
    BY <1>5 DEF Respond, TypeInv, CallsOK
  <2>2. /\ history' = Append(history, exchange)
        /\ answer'[w] = NoAnswer
        /\ \A v \in Workers \ {w} :
             answer'[v] = answer[v] /\ request'[v] = request[v]
    BY <1>5 DEF Respond, TypeInv, TypeOK
  <2>3. PICK last \in Nat :
          /\ DOMAIN history' = DOMAIN history \cup {last}
          /\ last \notin DOMAIN history
          /\ \A i \in DOMAIN history : history'[i] = history[i]
          /\ history'[last] = exchange
    <3>1. history \in Seq(Exchanges)
      BY DEF TypeInv, TypeOK
    <3> HIDE DEF exchange
    <3>2. Len(history) + 1 \in Nat
      BY <3>1
    <3> QED
      BY <2>2, <3>1, <3>2
  <2>4. \A uid \in Uids : HasCreated(last, uid)' <=> Creates(w, uid)
    BY <2>1, <2>3 DEF HasCreated, Creates, Uid
  <2>5. /\ \A uid \in Uids : ~Creates(w, uid)'
        /\ \A v \in Workers \ {w} : \A uid \in Uids :
             Creates(v, uid)' <=> Creates(v, uid)
        /\ \A i \in DOMAIN history : \A uid \in Uids :
             HasCreated(i, uid)' <=> HasCreated(i, uid)
    BY <2>2, <2>3 DEF Creates, HasCreated, Uid
  <2> HIDE DEF exchange
  <2>6. ASSUME NEW uid \in Uids
        PROVE  /\ \A u, v \in Workers : Creates(u, uid)' /\ Creates(v, uid)' => u = v
               /\ \A v \in Workers : \A i \in DOMAIN history' :
                    ~(Creates(v, uid)' /\ HasCreated(i, uid)')
               /\ \A i, j \in DOMAIN history' :
                    HasCreated(i, uid)' /\ HasCreated(j, uid)' => i = j
    BY <2>3, <2>4, <2>5 DEF CreationsOK
  <2> QED
    BY <2>6 DEF CreationsOK
<1> QED
  BY <1>1, <1>2, <1>3, <1>4, <1>5, AnswerKinds

(* The inductive invariant that holds whether or not allocations fail. *)
THEOREM InvHolds == Safety => []Inv
<1>1. Init => Inv
  <2>1. Init => AnswersOK /\ CreationsOK
    BY DEF Init, AnswersOK, CreationsOK, Creates, HasCreated
  <2> QED
    BY <2>1, InitTypeInv, InitIndexInv DEF Inv, TypeInv, IndexInv
<1>2. Inv /\ [Next]_vars => Inv'
  <2> SUFFICES ASSUME Inv, [Next]_vars PROVE Inv'
    OBVIOUS
  <2>1. TypeInv /\ IndexInv /\ AnswersOK /\ CreationsOK
    BY DEF Inv, TypeInv, IndexInv
  <2>2. TypeInv' /\ IndexInv' /\ AnswersOK' /\ CreationsOK'
    BY <2>1, NextTypeInv, NextIndexInv, NextAnswersOK, NextCreationsOK
  <2> QED
    BY <2>2 DEF Inv, TypeInv, IndexInv
<1> QED
  BY <1>1, <1>2, PTL DEF Safety

(* One uid is created at most once (index_repository.hpp:25). *)
THEOREM CreatesOnce == Safety => []CreatedOnce
<1>1. Inv => CreatedOnce
  <2> SUFFICES ASSUME Inv, NEW i \in Answered("created"), NEW j \in Answered("created"),
                      history[i].request.uid = history[j].request.uid
               PROVE  i = j
    BY DEF CreatedOnce
  <2>1. i \in DOMAIN history /\ j \in DOMAIN history
    BY DEF Answered
  <2>2. history[i].request.uid \in Uids
    BY <2>1, ExchangeTypes, RequestFields DEF Inv, TypeInv
  <2> QED
    BY <2>1, <2>2 DEF Inv, CreationsOK, HasCreated, Answered
<1> QED
  BY <1>1, InvHolds, PTL

(* What a client was told stays true of the store. *)
THEOREM AnswersStayTrue == Safety => []AnswersReportStored
<1>1. Inv => AnswersReportStored
  BY DEF Inv, AnswersOK, Reports, AnswersReportStored
<1> QED
  BY <1>1, InvHolds, PTL

-----------------------------------------------------------------------------
(* Nothing is recorded of a document unless its ingest holds the mutex and *)
(* has a document of the batch left.                                       *)
LEMMA NothingRecorded ==
    ASSUME NEW uid \in Uids, NEW term \in Words,
           \/ mutex = NoWorker
           \/ pc[mutex] # "ingest"
           \/ BatchDone(mutex)
    PROVE  Recorded(uid, term) = FALSE
BY DEF Recorded

(* Without allocation failures every index stays exact, the document being *)
(* added counted as far as its words are recorded.                         *)
LEMMA NextIngestOK ==
    ASSUME ~MayFail, TypeInv, IndexInv, IngestOK, [Next]_vars
    PROVE  IngestOK'
<1> SUFFICES ASSUME NEW u \in Uids, NEW term \in Words
             PROVE  ExactUpTo(documents'[u], term, Recorded(u, term)')
  BY DEF IngestOK
<1>1. ExactUpTo(documents[u], term, Recorded(u, term))
  BY DEF IngestOK
<1>2. documents \in [Uids -> ExactMatchIndices] /\ documents[u] \in ExactMatchIndices
  BY DEF TypeInv, TypeOK
<1>3. ASSUME NEW w \in Workers, Receive(w) \/ ReadClock(w) \/ Respond(w)
      PROVE  ExactUpTo(documents'[u], term, Recorded(u, term)')
  <2>1. mutex # w
    BY <1>3 DEF Receive, ReadClock, Respond, TypeInv, MutexOK
  <2>2. mutex' = mutex /\ documents' = documents
    BY <1>3 DEF Receive, ReadClock, Respond
  <2>3. \A v \in Workers \ {w} : /\ pc'[v] = pc[v]
                                /\ request'[v] = request[v]
                                /\ doc'[v] = doc[v]
                                /\ word'[v] = word[v]
    BY <1>3 DEF Receive, ReadClock, Respond, Goto, TypeInv, TypeOK
  <2>4. Recorded(u, term)' = Recorded(u, term)
    <3>1. mutex = NoWorker \/ mutex \in Workers \ {w}
      BY <2>1 DEF TypeInv, TypeOK
    <3>2. CASE mutex = NoWorker
      BY <2>2, <3>2 DEF Recorded
    <3>3. CASE mutex \in Workers \ {w}
      BY <2>2, <2>3, <3>3 DEF Recorded, Uid, BatchDone, Batch, CurrentWords,
                              CurrentDocument
    <3> QED
      BY <3>1, <3>2, <3>3
  <2> QED
    BY <1>1, <2>2, <2>4
<1>4. ASSUME NEW w \in Workers, Lock(w)
      PROVE  ExactUpTo(documents'[u], term, Recorded(u, term)')
  <2>1. mutex = NoWorker /\ mutex' = w /\ documents' = documents /\ pc'[w] # "ingest"
    BY <1>4 DEF Lock, Goto, TypeInv, TypeOK
  <2>2. Recorded(u, term) = FALSE /\ Recorded(u, term)' = FALSE
    BY <2>1 DEF Recorded
  <2> QED
    BY <1>1, <2>1, <2>2
<1>5. ASSUME NEW w \in Workers, Add(w)
      PROVE  ExactUpTo(documents'[u], term, Recorded(u, term)')
  <2> DEFINE index == NewMetadata(request[w].primaryKey, stamp[w])
  <2>1. pc[w] = "add" /\ mutex = w /\ mutex' = NoWorker /\ TryEmplace(Uid(w), index)
    BY <1>5 DEF Add, Release, TypeInv, MutexOK
  <2>2. documents'[u] = documents[u]
    BY <1>2, <2>1 DEF TryEmplace, IndexInv, AbsentOK, guarded
  <2>3. Recorded(u, term) = FALSE /\ Recorded(u, term)' = FALSE
    BY <2>1 DEF Recorded
  <2> QED
    BY <1>1, <2>2, <2>3
<1>6. ASSUME NEW w \in Workers, EmplaceIndex(w)
      PROVE  ExactUpTo(documents'[u], term, Recorded(u, term)')
  <2> DEFINE initial == NewMetadata(NoKey, stamp[w])
  <2>1. /\ pc[w] = "emplace" /\ mutex = w /\ mutex' = w /\ word'[w] = 1
        /\ TryEmplace(Uid(w), initial)
    BY <1>6 DEF EmplaceIndex, TypeInv, TypeOK, MutexOK
  <2>2. documents'[u] = documents[u]
    BY <1>2, <2>1 DEF TryEmplace, IndexInv, AbsentOK, guarded
  <2>3. Recorded(u, term) = FALSE
    BY <2>1 DEF Recorded
  <2>4. Recorded(u, term)' = FALSE
    BY <2>1 DEF Recorded
  <2> QED
    BY <1>1, <2>2, <2>3, <2>4
<1>7. ASSUME NEW w \in Workers, RecordWord(w)
      PROVE  ExactUpTo(documents'[u], term, Recorded(u, term)')
  <2> DEFINE index == documents[Uid(w)]
             now == CurrentWords(w)[word[w]]
             id == NextDocId(index)
             new == Record(index, now, id)
  <2>1. /\ Uid(w) \in Uids /\ index \in ExactMatchIndices /\ id \in DocIds
        /\ now \in Words /\ id = DocumentCount(index)
        /\ documents' = [documents EXCEPT ![Uid(w)] = new]
    BY <1>7, RecordWordArguments
  <2>2. /\ pc[w] = "ingest" /\ ~BatchDone(w) /\ mutex = w /\ w # NoWorker
        /\ mutex' = mutex /\ pc' = pc /\ request' = request /\ doc' = doc
        /\ word'[w] = word[w] + 1 /\ word[w] \in Nat \ {0}
    BY <1>7, NoWorkerAssumption DEF RecordWord, TypeInv, TypeOK, MutexOK
  <2>3. ~BatchDone(w)' /\ Uid(w)' = Uid(w) /\ CurrentWords(w)' = CurrentWords(w)
    BY <2>2 DEF BatchDone, Uid, CurrentWords, CurrentDocument, Batch
  <2>4. Recorded(u, term)' <=>
          \/ Recorded(u, term)
          \/ u = Uid(w) /\ term = now
    <3>1. Recorded(u, term) <=>
            /\ u = Uid(w)
            /\ \E i \in 1 .. Len(CurrentWords(w)) :
                 i < word[w] /\ CurrentWords(w)[i] = term
      BY <2>2 DEF Recorded
    <3>2. Recorded(u, term)' <=>
            /\ u = Uid(w)
            /\ \E i \in 1 .. Len(CurrentWords(w)) :
                 i < word'[w] /\ CurrentWords(w)[i] = term
      BY <2>2, <2>3 DEF Recorded
    <3>3. /\ CurrentWords(w) \in Seq(Words) /\ word[w] \in 1 .. Len(CurrentWords(w))
          /\ \A i \in 1 .. Len(CurrentWords(w)) :
               i < word'[w] <=> i < word[w] \/ i = word[w]
      BY <1>7, <2>2, CurrentTypes DEF RecordWord, WordsDone
    <3> QED
      BY <3>1, <3>2, <3>3
  <2>5. Recorded(u, term) \in BOOLEAN /\ Recorded(u, term)' \in BOOLEAN
    BY DEF Recorded
  <2> HIDE DEF index, now, id, new
  <2>6. CASE u = Uid(w) /\ term = now
    <3>1. ExactUpTo(Record(index, term, DocumentCount(index)), term, TRUE)
      BY <1>1, <2>1, <2>5, <2>6, RecordExact DEF index
    <3>2. documents'[u] = Record(index, term, DocumentCount(index))
      BY <1>2, <2>1, <2>6 DEF new
    <3>3. Recorded(u, term)' = TRUE
      BY <2>4, <2>5, <2>6
    <3> QED
      BY <3>1, <3>2, <3>3
  <2>7. CASE u = Uid(w) /\ term # now
    <3>1. /\ documents'[u] = new
          /\ new.sources = documents[u].sources
          /\ new.postings[term] = documents[u].postings[term]
      BY <1>2, <2>1, <2>7, RecordType DEF new, index
    <3>2. Recorded(u, term)' = Recorded(u, term)
      BY <2>4, <2>5, <2>7
    <3>3. ExactUpTo(documents'[u], term, Recorded(u, term))
      BY <1>1, <3>1 DEF ExactUpTo, DocumentsContaining, HasSource, Source,
                        DocumentCount
    <3> QED
      BY <3>2, <3>3
  <2>8. CASE u # Uid(w)
    <3>1. documents'[u] = documents[u]
      BY <1>2, <2>1, <2>8
    <3>2. Recorded(u, term)' = Recorded(u, term)
      BY <2>4, <2>5, <2>8
    <3> QED
      BY <1>1, <3>1, <3>2
  <2> QED
    BY <2>6, <2>7, <2>8
<1>8. ASSUME NEW w \in Workers, StoreSource(w)
      PROVE  ExactUpTo(documents'[u], term, Recorded(u, term)')
  <2> DEFINE index == documents[Uid(w)]
             new == PushSource(index, CurrentDocument(w))
  <2>1. /\ Uid(w) \in Uids /\ index \in ExactMatchIndices
        /\ CurrentDocument(w) \in Documents
        /\ documents' = [documents EXCEPT ![Uid(w)] = new]
    BY <1>8, StoreSourceArguments
  <2>2. /\ pc[w] = "ingest" /\ ~BatchDone(w) /\ WordsDone(w)
        /\ mutex = w /\ mutex' = w /\ w # NoWorker
        /\ word'[w] = 1 /\ word[w] \in Nat \ {0}
    BY <1>8, NoWorkerAssumption DEF StoreSource, TypeInv, TypeOK, MutexOK
  <2>3. Recorded(u, term)' = FALSE
    BY <2>2 DEF Recorded
  <2>4. Recorded(u, term) = (u = Uid(w) /\ Contains(CurrentDocument(w), term))
    <3>1. Recorded(u, term) <=>
            /\ u = Uid(w)
            /\ \E i \in 1 .. Len(CurrentWords(w)) :
                 i < word[w] /\ CurrentWords(w)[i] = term
      BY <2>2 DEF Recorded
    <3>2. ASSUME u = Uid(w), Recorded(u, term)
          PROVE  Contains(CurrentDocument(w), term)
      <4>1. CurrentWords(w) \in Seq(Words)
        BY <2>2, CurrentTypes
      <4>2. DOMAIN CurrentWords(w) = 1 .. Len(CurrentWords(w))
        BY <4>1
      <4> QED
        BY <3>1, <3>2, <4>2 DEF Contains, CurrentWords
    <3>3. ASSUME u = Uid(w), Contains(CurrentDocument(w), term)
          PROVE  Recorded(u, term)
      <4>1. CurrentWords(w) \in Seq(Words)
        BY <2>2, CurrentTypes
      <4>2. /\ DOMAIN CurrentWords(w) = 1 .. Len(CurrentWords(w))
            /\ \A i \in DOMAIN CurrentWords(w) : i < word[w]
        BY <2>2, <4>1 DEF WordsDone
      <4> QED
        BY <3>1, <3>3, <4>2 DEF Contains, CurrentWords
    <3>4. /\ Recorded(u, term) \in BOOLEAN
          /\ Contains(CurrentDocument(w), term) \in BOOLEAN
      BY DEF Recorded, Contains
    <3> QED
      BY <3>1, <3>2, <3>3, <3>4
  <2> HIDE DEF index, new
  <2>5. CASE u = Uid(w)
    <3>1. Contains(CurrentDocument(w), term) = Recorded(u, term)
      BY <2>4, <2>5 DEF Contains
    <3>2. ExactUpTo(index, term, Contains(CurrentDocument(w), term))
      BY <1>1, <2>5, <3>1 DEF index
    <3>3. ExactUpTo(new, term, FALSE)
      BY <2>1, <3>2, PushSourceExact DEF new
    <3>4. documents'[u] = new
      BY <1>2, <2>1, <2>5
    <3> QED
      BY <2>3, <3>3, <3>4
  <2>6. CASE u # Uid(w)
    <3>1. documents'[u] = documents[u] /\ Recorded(u, term) = FALSE
      BY <1>2, <2>1, <2>4, <2>6
    <3> QED
      BY <1>1, <2>3, <3>1
  <2> QED
    BY <2>5, <2>6
<1>9. ASSUME NEW w \in Workers, FinishBatch(w)
      PROVE  ExactUpTo(documents'[u], term, Recorded(u, term)')
  <2>1. /\ pc[w] = "ingest" /\ BatchDone(w) /\ mutex = w /\ mutex' = NoWorker
        /\ documents' = documents
    BY <1>9 DEF FinishBatch, Release, TypeInv, MutexOK
  <2>2. Recorded(u, term) = FALSE /\ Recorded(u, term)' = FALSE
    BY <2>1 DEF Recorded
  <2> QED
    BY <1>1, <2>1, <2>2
<1>10. CASE UNCHANGED vars
  <2>1. Recorded(u, term)' = Recorded(u, term) /\ documents' = documents
    BY <1>10 DEF vars, Recorded, Uid, BatchDone, Batch, CurrentWords, CurrentDocument
  <2> QED
    BY <1>1, <2>1
<1>11. \A w \in Workers : ~Throw(w)
  BY DEF Throw
<1> QED
  BY <1>3, <1>4, <1>5, <1>6, <1>7, <1>8, <1>9, <1>10, <1>11 DEF Next, Step, Done

(* Without allocation failures the whole invariant holds, each index being *)
(* exact at every moment up to the words its ingest has recorded.          *)
THEOREM InvNoFailureHolds ==
    ASSUME ~MayFail
    PROVE  Safety => []InvNoFailure
<1>1. Init => IngestOK
  <2> SUFFICES ASSUME Init PROVE IngestOK
    OBVIOUS
  <2>1. ASSUME NEW uid \in Uids, NEW term \in Words
        PROVE  ExactUpTo(documents[uid], term, Recorded(uid, term))
    <3>1. documents[uid] = EmptyIndex /\ Recorded(uid, term) = FALSE
      BY DEF Init, Recorded
    <3> QED
      BY <3>1, EmptyIndexExact
  <2> QED
    BY <2>1 DEF IngestOK
<1>2. Inv /\ IngestOK /\ [Next]_vars => IngestOK'
  BY NextIngestOK DEF Inv, TypeInv, IndexInv
<1>3. Inv /\ IngestOK => InvNoFailure
  BY DEF InvNoFailure
<1> QED
  BY <1>1, <1>2, <1>3, InvHolds, PTL DEF Safety

(* Without allocation failures, whoever takes the mutex finds every word   *)
(* of every stored document and finds nothing else (exact_match_index.hpp).*)
THEOREM FindsExactly ==
    ASSUME ~MayFail
    PROVE  Safety => []FindableExactly
<1>1. InvNoFailure => FindableExactly
  <2> SUFFICES ASSUME InvNoFailure, mutex = NoWorker, NEW uid \in Uids
               PROVE  Complete(documents[uid]) /\ Sound(documents[uid])
    BY DEF FindableExactly
  <2>1. \A term \in Words : ExactUpTo(documents[uid], term, FALSE)
    BY NothingRecorded DEF InvNoFailure, IngestOK
  <2> QED
    BY <2>1 DEF ExactUpTo, Complete, Sound
<1> QED
  BY <1>1, InvNoFailureHolds, PTL
-----------------------------------------------------------------------------
(* Acknowledged batches: each has its place, and the one being stored is   *)
(* behind the others of its index.                                         *)

(* Whose batch is placed, and where. *)
LEMMA BatchTypes ==
    ASSUME TypeInv
    PROVE  /\ \A w \in Workers : Stores(w) =>
                 pc[w] # "idle" /\ request[w] \in Requests /\ Uid(w) \in Uids
           /\ \A i \in Answered("indexed") :
                 i \in DOMAIN history /\ UidOf(i) \in Uids
           /\ \A uid \in Uids : DocumentCount(documents[uid]) \in Nat
<1>1. ASSUME NEW w \in Workers, Stores(w)
      PROVE  pc[w] # "idle" /\ request[w] \in Requests /\ Uid(w) \in Uids
  <2>1. pc[w] # "idle" /\ request[w] \in Requests
    BY <1>1 DEF Stores, Indexes, TypeInv, CallsOK
  <2> QED
    BY <2>1, RequestFields DEF Uid
<1>2. ASSUME NEW i \in Answered("indexed")
      PROVE  i \in DOMAIN history /\ UidOf(i) \in Uids
  BY ExchangeTypes, RequestFields DEF Answered, UidOf
<1>3. ASSUME NEW uid \in Uids PROVE DocumentCount(documents[uid]) \in Nat
  BY IndexFields DEF TypeInv, TypeOK
<1> QED
  BY <1>1, <1>2, <1>3

(* The length of a placed batch and of the part that is stored. *)
LEMMA BatchLengths ==
    ASSUME TypeInv, NEW at, NEW here, Placed(at, here)
    PROVE  /\ \A w \in Workers : Stores(w) => StoredBy(w) \in Nat
           /\ \A i \in Answered("indexed") : Len(BatchOf(i)) \in Nat
<1>1. ASSUME NEW w \in Workers, Stores(w) PROVE StoredBy(w) \in Nat
  <2>1. request[w] \in Requests /\ request[w].op = "ingest"
    BY <1>1, BatchTypes DEF Placed, HeldPlaced
  <2>2. Len(Batch(w)) \in Nat /\ doc[w] \in Nat \ {0}
    BY <2>1, RequestFields DEF Batch, TypeInv, TypeOK
  <2> QED
    BY <2>2 DEF StoredBy
<1>2. ASSUME NEW i \in Answered("indexed") PROVE Len(BatchOf(i)) \in Nat
  BY ExchangeTypes, RequestFields DEF Placed, GivenPlaced, Answered, BatchOf
<1> QED
  BY <1>1, <1>2

(* Only StoreSource adds to the sources of an index. *)
LEMMA SourcesStand ==
    ASSUME TypeInv, IndexInv, [Next]_vars, \A w \in Workers : ~StoreSource(w)
    PROVE  \A uid \in Uids : documents'[uid].sources = documents[uid].sources
<1>1. CASE UNCHANGED <<metadata, documents>>
  BY <1>1
<1>2. ASSUME NEW uid \in Uids, NEW initial \in Metadata, CreatesIndex(uid, initial)
      PROVE  \A u \in Uids : documents'[u].sources = documents[u].sources
  BY <1>2 DEF CreatesIndex, IndexInv, AbsentOK, TypeInv, TypeOK
<1>3. ASSUME NEW w \in Workers, RecordWord(w)
      PROVE  \A u \in Uids : documents'[u].sources = documents[u].sources
  <2> DEFINE index == documents[Uid(w)]
             term == CurrentWords(w)[word[w]]
             id == NextDocId(index)
  <2>1. /\ Uid(w) \in Uids /\ index \in ExactMatchIndices
        /\ term \in Words /\ id \in DocIds
        /\ documents' = [documents EXCEPT ![Uid(w)] = Record(index, term, id)]
    BY <1>3, RecordWordArguments
  <2>2. Record(index, term, id).sources = index.sources
    BY <2>1, RecordType
  <2> HIDE DEF term, id
  <2> QED
    BY <2>1, <2>2 DEF TypeInv, TypeOK
<1> QED
  BY <1>1, <1>2, <1>3, StepKinds

(* Places stand while no source is added and no batch begun or answered;   *)
(* a batch that fails gives up its place.                                  *)
LEMMA PlacedStands ==
    ASSUME TypeInv, NEW at, NEW here, Placed(at, here),
           \A uid \in Uids : documents'[uid].sources = documents[uid].sources,
           history' = history,
           \A v \in Workers : Stores(v)' =>
              Stores(v) /\ request'[v] = request[v] /\ StoredBy(v)' = StoredBy(v),
           \A v \in Workers : pc'[v] = "ingest" =>
              pc[v] = "ingest" /\ doc'[v] = doc[v]
    PROVE  Placed(at, here)'
<1>1. /\ Answered("indexed")' = Answered("indexed")
      /\ \A i \in Answered("indexed") :
            /\ UidOf(i)' = UidOf(i) /\ BatchOf(i)' = BatchOf(i)
            /\ GivenEnd(at, i)' = GivenEnd(at, i)
  BY DEF Answered, UidOf, BatchOf, GivenEnd
<1>2. \A v \in Workers : Stores(v)' =>
         /\ Stores(v) /\ request'[v] = request[v]
         /\ Uid(v)' = Uid(v) /\ Batch(v)' = Batch(v)
         /\ StoredBy(v)' = StoredBy(v)
         /\ HeldEnd(here, v)' = HeldEnd(here, v)
  BY DEF Uid, Batch, HeldEnd
<1>3. \A uid \in Uids : \A batch, n, offset :
         PartAt(uid, batch, n, offset) => PartAt(uid, batch, n, offset)'
  BY DEF PartAt, DocumentCount
<1>4. GivenPlaced(at)'
  BY <1>1, <1>3, BatchTypes DEF Placed, GivenPlaced
<1>5. HeldPlaced(here)'
  BY <1>2, <1>3, BatchTypes DEF Placed, HeldPlaced
<1>6. GivenApart(at)'
  BY <1>1 DEF Placed, GivenApart
<1>7. HeldApart(at, here)'
  BY <1>1, <1>2 DEF Placed, HeldApart
<1>8. StoringLast(at, here)'
  <2>1. \A v \in Workers : pc'[v] = "ingest" => Stores(v)'
    BY DEF Stores
  <2>2. \A v \in Workers : pc'[v] = "ingest" =>
           DocumentCount(documents[Uid(v)])' = DocumentCount(documents[Uid(v)])
    BY <1>2, <2>1, BatchTypes DEF DocumentCount
  <2> QED
    BY <1>1, <1>2, <2>1, <2>2 DEF Placed, StoringLast
<1> QED
  BY <1>4, <1>5, <1>6, <1>7, <1>8 DEF Placed

(* A worker that finds or creates its index begins at the end of it. *)
LEMMA PlacedBegins ==
    ASSUME TypeInv, IndexInv, NEW w \in Workers, EmplaceIndex(w),
           NEW at, NEW here \in [Workers -> Nat], Placed(at, here),
           NEW count, count = DocumentCount(documents[Uid(w)]),
           NEW begun, begun = [here EXCEPT ![w] = count],
           \A uid \in Uids : documents'[uid].sources = documents[uid].sources
    PROVE  Placed(at, begun)'
<1>1. /\ request[w] \in Requests /\ request[w].op = "ingest" /\ Uid(w) \in Uids
      /\ Len(Batch(w)) \in Nat /\ mutex = w
  BY RequestFields DEF EmplaceIndex, TypeInv, CallsOK, MutexOK, Uid, Batch
<1>2. count \in Nat
  BY <1>1, BatchTypes
<1>3. /\ Answered("indexed")' = Answered("indexed")
      /\ \A i \in Answered("indexed") :
            /\ UidOf(i)' = UidOf(i) /\ BatchOf(i)' = BatchOf(i)
            /\ history'[i] = history[i]
            /\ GivenEnd(at, i)' = GivenEnd(at, i)
  BY DEF EmplaceIndex, Answered, UidOf, BatchOf, GivenEnd
<1>4. /\ Stores(w)' /\ pc'[w] = "ingest" /\ doc'[w] = 1 /\ StoredBy(w)' = 0
      /\ request'[w] = request[w] /\ Uid(w)' = Uid(w) /\ Batch(w)' = Batch(w)
  BY DEF EmplaceIndex, Goto, Stores, StoredBy, Uid, Batch, TypeInv, TypeOK
<1>5. \A v \in Workers \ {w} :
         /\ pc[v] # "ingest" /\ pc'[v] # "ingest" /\ (Stores(v)' <=> Stores(v))
         /\ request'[v] = request[v] /\ Uid(v)' = Uid(v) /\ Batch(v)' = Batch(v)
         /\ StoredBy(v)' = StoredBy(v)
  BY <1>1 DEF EmplaceIndex, Goto, Stores, StoredBy, Uid, Batch, TypeInv, TypeOK, MutexOK
<1>6. \A uid \in Uids : \A batch, n, offset :
         PartAt(uid, batch, n, offset) => PartAt(uid, batch, n, offset)'
  BY DEF PartAt, DocumentCount
<1>7. /\ begun \in [Workers -> Nat] /\ begun[w] = count
      /\ \A v \in Workers \ {w} : begun[v] = here[v]
  BY <1>2
<1>8. /\ HeldEnd(begun, w)' = count
      /\ \A v \in Workers \ {w} : HeldEnd(begun, v)' = HeldEnd(here, v)
  BY <1>2, <1>4, <1>5, <1>7 DEF HeldEnd
(* All that is placed ends within the index. *)
<1>9. /\ \A i \in Answered("indexed") : UidOf(i) = Uid(w) => GivenEnd(at, i) <= count
      /\ \A v \in Workers : Stores(v) /\ Uid(v) = Uid(w) => HeldEnd(here, v) <= count
  BY DEF Placed, GivenPlaced, HeldPlaced, PartAt, GivenEnd, HeldEnd
<1>10. GivenPlaced(at)'
  BY <1>3, <1>6, BatchTypes DEF Placed, GivenPlaced
<1>11. HeldPlaced(begun)'
  <2>1. PartAt(Uid(w), Batch(w), 0, count)'
    BY <1>1, <1>2, <1>4 DEF PartAt, DocumentCount
  <2>2. ASSUME NEW v \in Workers, v # w, Stores(v)'
        PROVE  /\ request'[v].op = "ingest"
               /\ PartAt(Uid(v), Batch(v), StoredBy(v), begun[v])'
    BY <2>2, <1>5, <1>6, <1>7, BatchTypes DEF Placed, HeldPlaced
  <2> QED
    BY <1>1, <1>4, <1>7, <2>1, <2>2 DEF HeldPlaced
<1>12. GivenApart(at)'
  BY <1>3 DEF Placed, GivenApart
<1>13. /\ \A i \in Answered("indexed") : UidOf(i) # Uid(w)' \/ GivenEnd(at, i) <= begun[w]
       /\ \A u \in Workers \ {w} : Stores(u)' =>
             Uid(u)' # Uid(w)' \/ HeldEnd(begun, u)' <= begun[w]
  <2>1. ASSUME NEW i \in Answered("indexed"), UidOf(i) = Uid(w)'
        PROVE  GivenEnd(at, i) <= begun[w]
    BY <2>1, <1>4, <1>7, <1>9
  <2>2. ASSUME NEW u \in Workers \ {w}, Stores(u)', Uid(u)' = Uid(w)'
        PROVE  HeldEnd(begun, u)' <= begun[w]
    <3>1. Stores(u) /\ Uid(u) = Uid(w)
      BY <2>2, <1>4, <1>5
    <3>2. HeldEnd(here, u) <= count
      BY <3>1, <1>9
    <3> QED
      BY <3>2, <1>7, <1>8
  <2> QED
    BY <2>1, <2>2
<1>14. HeldApart(at, begun)'
  <2>1. ASSUME NEW v \in Workers \ {w}, Stores(v)'
        PROVE  /\ \A i \in Answered("indexed") :
                    \/ UidOf(i) # Uid(v)'
                    \/ GivenEnd(at, i) <= begun[v] \/ HeldEnd(begun, v)' <= at[i]
               /\ \A u \in Workers \ {w} : Stores(u)' =>
                    \/ u = v \/ Uid(u)' # Uid(v)'
                    \/ HeldEnd(begun, u)' <= begun[v] \/ HeldEnd(begun, v)' <= begun[u]
    <3>1. Stores(v) /\ Uid(v)' = Uid(v) /\ begun[v] = here[v]
      BY <2>1, <1>5, <1>7
    <3>2. \A i \in Answered("indexed") :
             \/ UidOf(i) # Uid(v)
             \/ GivenEnd(at, i) <= here[v] \/ HeldEnd(here, v) <= at[i]
      BY <3>1 DEF Placed, HeldApart
    <3>3. \A u \in Workers : Stores(u) =>
             \/ u = v \/ Uid(u) # Uid(v)
             \/ HeldEnd(here, u) <= here[v] \/ HeldEnd(here, v) <= here[u]
      BY <3>1 DEF Placed, HeldApart
    <3>4. HeldEnd(begun, v)' = HeldEnd(here, v)
      BY <1>8
    <3>5. ASSUME NEW u \in Workers \ {w}, Stores(u)', u # v, Uid(u)' = Uid(v)'
          PROVE  HeldEnd(begun, u)' <= begun[v] \/ HeldEnd(begun, v)' <= begun[u]
      <4>1. Stores(u) /\ Uid(u) = Uid(v) /\ begun[u] = here[u]
        BY <3>1, <3>5, <1>5, <1>7
      <4>2. HeldEnd(here, u) <= here[v] \/ HeldEnd(here, v) <= here[u]
        BY <3>3, <3>5, <4>1
      <4>3. HeldEnd(begun, u)' = HeldEnd(here, u)
        BY <1>8
      <4> QED
        BY <3>1, <3>4, <4>1, <4>2, <4>3
    <3> QED
      BY <3>1, <3>2, <3>4, <3>5
  <2> QED
    BY <1>3, <1>13, <2>1 DEF HeldApart
<1>15. StoringLast(at, begun)'
  <2>1. DocumentCount(documents'[Uid(w)]) = count
    BY <1>1 DEF DocumentCount
  <2>2. doc'[w] <= Len(Batch(w)') + 1
    BY <1>1, <1>4
  <2>3. HeldEnd(begun, w)' = DocumentCount(documents[Uid(w)])'
    BY <1>4, <1>8, <2>1
  <2>4. \A v \in Workers : pc'[v] = "ingest" => v = w
    BY <1>5
  <2> SUFFICES /\ doc'[w] <= Len(Batch(w)') + 1
               /\ HeldEnd(begun, w)' = DocumentCount(documents[Uid(w)])'
               /\ \A i \in Answered("indexed")' :
                     UidOf(i)' = Uid(w)' => GivenEnd(at, i)' <= begun[w]
               /\ \A u \in Workers : Stores(u)' /\ u # w /\ Uid(u)' = Uid(w)' =>
                     HeldEnd(begun, u)' <= begun[w]
    BY <2>4 DEF StoringLast
  <2>5. ASSUME NEW i \in Answered("indexed")', UidOf(i)' = Uid(w)'
        PROVE  GivenEnd(at, i)' <= begun[w]
    <3>1. /\ i \in Answered("indexed") /\ UidOf(i)' = UidOf(i)
          /\ GivenEnd(at, i)' = GivenEnd(at, i)
      BY <1>3
    <3>2. GivenEnd(at, i) <= begun[w]
      BY <1>13, <2>5, <3>1
    <3> QED
      BY <3>1, <3>2
  <2> QED
    BY <1>13, <2>2, <2>3, <2>5
<1> QED
  BY <1>10, <1>11, <1>12, <1>14, <1>15 DEF Placed

(* A document stored extends the batch at the end of its index. *)
LEMMA PlacedExtends ==
    ASSUME TypeInv, NEW w \in Workers, StoreSource(w),
           NEW at \in [DOMAIN history -> Nat], NEW here \in [Workers -> Nat],
           Placed(at, here)
    PROVE  Placed(at, here)'
<1> DEFINE old == documents[Uid(w)].sources
           new == documents'[Uid(w)].sources
<1>1. /\ request[w] \in Requests /\ request[w].op = "ingest" /\ Uid(w) \in Uids
      /\ Batch(w) \in Seq(Documents) /\ Len(Batch(w)) \in Nat /\ mutex = w
      /\ doc[w] \in Nat \ {0} /\ doc[w] <= Len(Batch(w)) /\ pc[w] = "ingest"
  BY RequestFields
  DEF StoreSource, BatchDone, TypeInv, TypeOK, CallsOK, MutexOK, Uid, Batch
<1>2. /\ old \in Seq(Documents) /\ Len(old) \in Nat
      /\ new = Append(old, Batch(w)[doc[w]])
      /\ \A uid \in Uids \ {Uid(w)} : documents'[uid] = documents[uid]
  <2> DEFINE index == documents[Uid(w)]
  <2>1. /\ index \in ExactMatchIndices /\ CurrentDocument(w) \in Documents
        /\ documents' = [documents EXCEPT ![Uid(w)] = PushSource(index, CurrentDocument(w))]
    BY StoreSourceArguments
  <2>2. PushSource(index, CurrentDocument(w)).sources = Append(old, Batch(w)[doc[w]])
    BY <2>1, PushSourceOK DEF CurrentDocument
  <2>3. old \in Seq(Documents)
    BY <2>1, IndexFields
  <2>4. documents'[Uid(w)] = PushSource(index, CurrentDocument(w))
    BY <1>1, <2>1 DEF TypeInv, TypeOK
  <2>5. \A uid \in Uids \ {Uid(w)} : documents'[uid] = documents[uid]
    BY <2>1 DEF TypeInv, TypeOK
  <2> QED
    BY <2>2, <2>3, <2>4, <2>5
<1>3. /\ Len(new) = Len(old) + 1 /\ new[Len(old) + 1] = Batch(w)[doc[w]]
      /\ \A k \in 1 .. Len(old) : new[k] = old[k]
  BY <1>2
<1>4. /\ DocumentCount(documents'[Uid(w)]) = DocumentCount(documents[Uid(w)]) + 1
      /\ DocumentCount(documents[Uid(w)]) = Len(old)
  BY <1>3 DEF DocumentCount
<1> HIDE DEF old, new
<1>5. /\ Answered("indexed")' = Answered("indexed")
      /\ \A i \in Answered("indexed") :
            /\ UidOf(i)' = UidOf(i) /\ BatchOf(i)' = BatchOf(i)
            /\ history'[i] = history[i]
            /\ GivenEnd(at, i)' = GivenEnd(at, i)
  BY DEF StoreSource, Answered, UidOf, BatchOf, GivenEnd
<1>6. /\ Stores(w) /\ Stores(w)' /\ pc'[w] = "ingest" /\ doc'[w] = doc[w] + 1
      /\ StoredBy(w) = doc[w] - 1 /\ StoredBy(w)' = doc[w]
      /\ request'[w] = request[w] /\ Uid(w)' = Uid(w) /\ Batch(w)' = Batch(w)
  BY <1>1 DEF StoreSource, Stores, StoredBy, Uid, Batch, TypeInv, TypeOK
<1>7. \A v \in Workers \ {w} :
         /\ pc[v] # "ingest" /\ pc'[v] # "ingest" /\ (Stores(v)' <=> Stores(v))
         /\ request'[v] = request[v] /\ Uid(v)' = Uid(v) /\ Batch(v)' = Batch(v)
         /\ StoredBy(v)' = StoredBy(v) /\ HeldEnd(here, v)' = HeldEnd(here, v)
  BY <1>1 DEF StoreSource, Stores, StoredBy, Uid, Batch, HeldEnd, TypeInv, TypeOK, MutexOK
<1>8. \A uid \in Uids : \A batch : \A n, offset \in Nat :
         PartAt(uid, batch, n, offset) => PartAt(uid, batch, n, offset)'
  <2> SUFFICES ASSUME NEW uid \in Uids, NEW batch, NEW n \in Nat, NEW offset \in Nat,
                      PartAt(uid, batch, n, offset)
               PROVE  PartAt(uid, batch, n, offset)'
    OBVIOUS
  <2>1. CASE uid = Uid(w)
    BY <2>1, <1>2, <1>3, <1>4 DEF PartAt, old, new
  <2>2. CASE uid # Uid(w)
    BY <2>2, <1>2 DEF PartAt
  <2> QED
    BY <2>1, <2>2
<1>9. /\ here[w] \in Nat /\ HeldEnd(here, w) = Len(old)
      /\ here[w] + (doc[w] - 1) = Len(old) /\ HeldEnd(here, w)' = Len(old) + 1
  BY <1>1, <1>4, <1>6 DEF Placed, StoringLast, HeldEnd
<1>10. GivenPlaced(at)'
  <2> SUFFICES ASSUME NEW i \in Answered("indexed")
               PROVE  /\ history[i].request.op = "ingest"
                      /\ PartAt(UidOf(i), BatchOf(i), Len(BatchOf(i)), at[i])'
    BY <1>5 DEF GivenPlaced
  <2> QED
    BY <1>5, <1>8, BatchTypes, BatchLengths DEF Placed, GivenPlaced
<1>11. HeldPlaced(here)'
  <2>1. /\ request'[w].op = "ingest"
        /\ PartAt(Uid(w), Batch(w), StoredBy(w), here[w])'
    <3>1. PartAt(Uid(w), Batch(w), doc[w] - 1, here[w])
      BY <1>6 DEF Placed, HeldPlaced
    <3>2. \A k \in 1 .. doc[w] - 1 : old[here[w] + k] = Batch(w)[k]
      BY <3>1 DEF PartAt, old
    <3>3. ASSUME NEW k \in 1 .. doc[w] PROVE new[here[w] + k] = Batch(w)[k]
      <4>1. CASE k = doc[w]
        BY <4>1, <1>1, <1>3, <1>9
      <4>2. CASE k # doc[w]
        <5>1. k \in 1 .. doc[w] - 1 /\ here[w] + k \in 1 .. Len(old)
          BY <4>2, <1>1, <1>2, <1>9
        <5> QED
          BY <5>1, <3>2, <1>3
      <4> QED
        BY <4>1, <4>2
    <3>4. here[w] + doc[w] <= DocumentCount(documents'[Uid(w)])
      BY <1>1, <1>2, <1>4, <1>9
    <3> QED
      BY <3>3, <3>4, <1>1, <1>6 DEF PartAt, new
  <2>2. ASSUME NEW v \in Workers \ {w}, Stores(v)'
        PROVE  /\ request'[v].op = "ingest"
               /\ PartAt(Uid(v), Batch(v), StoredBy(v), here[v])'
    <3>1. /\ Stores(v) /\ request'[v] = request[v] /\ Uid(v)' = Uid(v)
          /\ Batch(v)' = Batch(v) /\ StoredBy(v)' = StoredBy(v)
      BY <2>2, <1>7
    <3>2. /\ request[v].op = "ingest"
          /\ PartAt(Uid(v), Batch(v), StoredBy(v), here[v])
      BY <3>1 DEF Placed, HeldPlaced
    <3>3. Uid(v) \in Uids /\ StoredBy(v) \in Nat /\ here[v] \in Nat
      BY <3>1, BatchTypes, BatchLengths
    <3>4. PartAt(Uid(v), Batch(v), StoredBy(v), here[v])'
      BY <1>8, <3>1, <3>2, <3>3
    <3> QED
      BY <3>1, <3>2, <3>4
  <2> QED
    BY <2>1, <2>2 DEF HeldPlaced
<1>12. GivenApart(at)'
  BY <1>5 DEF Placed, GivenApart
(* The batch being stored begins behind the end of all others. *)
<1>13. /\ \A i \in Answered("indexed") : UidOf(i) # Uid(w)' \/ GivenEnd(at, i) <= here[w]
       /\ \A u \in Workers \ {w} : Stores(u)' =>
             Uid(u)' # Uid(w)' \/ HeldEnd(here, u)' <= here[w]
  <2>1. ASSUME NEW i \in Answered("indexed"), UidOf(i) = Uid(w)'
        PROVE  GivenEnd(at, i) <= here[w]
    BY <2>1, <1>1, <1>6 DEF Placed, StoringLast
  <2>2. ASSUME NEW u \in Workers \ {w}, Stores(u)', Uid(u)' = Uid(w)'
        PROVE  HeldEnd(here, u)' <= here[w]
    <3>1. Stores(u) /\ Uid(u) = Uid(w) /\ HeldEnd(here, u)' = HeldEnd(here, u)
      BY <2>2, <1>6, <1>7
    <3>2. HeldEnd(here, u) <= here[w]
      BY <3>1, <1>1 DEF Placed, StoringLast
    <3> QED
      BY <3>1, <3>2
  <2> QED
    BY <2>1, <2>2
<1>14. HeldApart(at, here)'
  <2>1. ASSUME NEW v \in Workers \ {w}, Stores(v)'
        PROVE  /\ \A i \in Answered("indexed") :
                    \/ UidOf(i) # Uid(v)'
                    \/ GivenEnd(at, i) <= here[v] \/ HeldEnd(here, v)' <= at[i]
               /\ \A u \in Workers \ {w} : Stores(u)' =>
                    \/ u = v \/ Uid(u)' # Uid(v)'
                    \/ HeldEnd(here, u)' <= here[v] \/ HeldEnd(here, v)' <= here[u]
    <3>1. Stores(v) /\ Uid(v)' = Uid(v) /\ HeldEnd(here, v)' = HeldEnd(here, v)
      BY <2>1, <1>7
    <3>2. \A i \in Answered("indexed") :
             \/ UidOf(i) # Uid(v)
             \/ GivenEnd(at, i) <= here[v] \/ HeldEnd(here, v) <= at[i]
      BY <3>1 DEF Placed, HeldApart
    <3>3. ASSUME NEW u \in Workers \ {w}, Stores(u)', u # v, Uid(u)' = Uid(v)'
          PROVE  HeldEnd(here, u)' <= here[v] \/ HeldEnd(here, v)' <= here[u]
      <4>1. Stores(u) /\ Uid(u) = Uid(v) /\ HeldEnd(here, u)' = HeldEnd(here, u)
        BY <3>1, <3>3, <1>7
      <4>2. HeldEnd(here, u) <= here[v] \/ HeldEnd(here, v) <= here[u]
        BY <3>1, <3>3, <4>1 DEF Placed, HeldApart
      <4> QED
        BY <3>1, <4>1, <4>2
    <3> QED
      BY <3>1, <3>2, <3>3
  <2> QED
    BY <1>5, <1>13, <2>1 DEF HeldApart
<1>15. StoringLast(at, here)'
  <2>1. doc'[w] <= Len(Batch(w)') + 1
    BY <1>1, <1>6
  <2>2. HeldEnd(here, w)' = DocumentCount(documents[Uid(w)])'
    BY <1>4, <1>6, <1>9
  <2>3. \A v \in Workers : pc'[v] = "ingest" => v = w
    BY <1>7
  <2> QED
    BY <1>5, <1>13, <2>1, <2>2, <2>3 DEF StoringLast
<1> QED
  BY <1>10, <1>11, <1>12, <1>14, <1>15 DEF Placed

(* The place of a batch that is answered goes with the answer. *)
LEMMA PlacedAnswered ==
    ASSUME TypeInv, NEW w \in Workers, Respond(w),
           NEW at, NEW here \in [Workers -> Nat], Placed(at, here),
           NEW given,
           given = [i \in DOMAIN history' |-> IF i \in DOMAIN history THEN at[i] ELSE here[w]],
           \A uid \in Uids : documents'[uid].sources = documents[uid].sources
    PROVE  Placed(given, here)'
<1> DEFINE last == Len(history) + 1
(* An answered batch was answered before, or w stored it. *)
<1> DEFINE Before(i) == /\ i \in Answered("indexed") /\ history'[i] = history[i]
                        /\ UidOf(i)' = UidOf(i) /\ BatchOf(i)' = BatchOf(i)
                        /\ given[i] = at[i] /\ GivenEnd(given, i)' = GivenEnd(at, i)
           Now(i) == /\ i = last /\ Stores(w) /\ history'[i].request = request[w]
                     /\ UidOf(i)' = Uid(w) /\ BatchOf(i)' = Batch(w)
                     /\ StoredBy(w) = Len(Batch(w))
                     /\ given[i] = here[w] /\ GivenEnd(given, i)' = HeldEnd(here, w)
<1>1. /\ history \in Seq(Exchanges) /\ pc[w] = "answer" /\ answer[w] # NoAnswer
      /\ history' = Append(history, [request |-> request[w], answer |-> answer[w]])
  BY DEF Respond, TypeInv, TypeOK, CallsOK
<1>2. /\ DOMAIN history = 1 .. Len(history) /\ Len(history) \in Nat
      /\ DOMAIN history' = 1 .. last
      /\ history'[last] = [request |-> request[w], answer |-> answer[w]]
      /\ \A i \in DOMAIN history : history'[i] = history[i]
  BY <1>1
<1>3. ASSUME NEW i \in Answered("indexed")' PROVE Before(i) \/ Now(i)
  <2>1. i \in 1 .. last /\ history'[i].answer.status = "indexed"
    BY <1>2 DEF Answered
  <2>2. CASE i \in DOMAIN history
    <3>1. history'[i] = history[i] /\ i \in Answered("indexed") /\ given[i] = at[i]
      BY <1>2, <2>1, <2>2 DEF Answered
    <3> QED
      BY <3>1 DEF UidOf, BatchOf, GivenEnd
  <2>3. CASE i \notin DOMAIN history
    <3>1. i = last /\ given[i] = here[w]
      BY <1>2, <2>1, <2>3
    <3>2. history'[i].request = request[w] /\ Indexes(answer[w])
      BY <1>1, <1>2, <2>1, <3>1 DEF Indexes
    <3>3. Stores(w) /\ StoredBy(w) = Len(Batch(w))
      BY <1>1, <3>2 DEF Stores, StoredBy
    <3>4. UidOf(i)' = Uid(w) /\ BatchOf(i)' = Batch(w)
      BY <3>2 DEF UidOf, BatchOf, Uid, Batch
    <3>5. GivenEnd(given, i)' = HeldEnd(here, w)
      BY <3>1, <3>3, <3>4 DEF GivenEnd, HeldEnd
    <3> QED
      BY <3>1, <3>2, <3>3, <3>4, <3>5
  <2> QED
    BY <2>2, <2>3
<1> HIDE DEF last
<1>4. ASSUME NEW v \in Workers, Stores(v)'
      PROVE  /\ v # w /\ Stores(v) /\ request'[v] = request[v]
             /\ Uid(v)' = Uid(v) /\ Batch(v)' = Batch(v)
             /\ StoredBy(v)' = StoredBy(v) /\ HeldEnd(here, v)' = HeldEnd(here, v)
             /\ (pc'[v] = "ingest" => pc[v] = "ingest" /\ doc'[v] = doc[v])
  <2>1. v # w
    BY <1>4 DEF Stores, Indexes, Respond, Goto, TypeInv, TypeOK
  <2>2. /\ pc'[v] = pc[v] /\ answer'[v] = answer[v] /\ request'[v] = request[v]
        /\ doc'[v] = doc[v]
    BY <2>1 DEF Respond, Goto, TypeInv, TypeOK
  <2> QED
    BY <1>4, <2>1, <2>2 DEF Stores, StoredBy, Uid, Batch, HeldEnd
<1>5. \A uid \in Uids : \A batch, n, offset :
         PartAt(uid, batch, n, offset) => PartAt(uid, batch, n, offset)'
  BY DEF PartAt, DocumentCount
<1>6. GivenPlaced(given)'
  <2> SUFFICES ASSUME NEW i \in Answered("indexed")'
               PROVE  /\ history'[i].request.op = "ingest"
                      /\ PartAt(UidOf(i), BatchOf(i), Len(BatchOf(i)), given[i])'
    BY DEF GivenPlaced
  <2>1. CASE Before(i)
    BY <2>1, <1>5, BatchTypes DEF Placed, GivenPlaced
  <2>2. CASE Now(i)
    BY <2>2, <1>5, BatchTypes DEF Placed, HeldPlaced
  <2> QED
    BY <1>3, <2>1, <2>2
<1>7. HeldPlaced(here)'
  <2> SUFFICES ASSUME NEW v \in Workers, Stores(v)'
               PROVE  /\ request'[v].op = "ingest"
                      /\ PartAt(Uid(v), Batch(v), StoredBy(v), here[v])'
    BY DEF HeldPlaced
  <2> QED
    BY <1>4, <1>5, BatchTypes DEF Placed, HeldPlaced
<1>8. GivenApart(given)'
  <2> SUFFICES ASSUME NEW i \in Answered("indexed")', NEW j \in Answered("indexed")',
                      i # j, UidOf(i)' = UidOf(j)'
               PROVE  \/ GivenEnd(given, i)' <= given[j]
                      \/ GivenEnd(given, j)' <= given[i]
    BY DEF GivenApart
  <2>1. CASE Before(i) /\ Before(j)
    BY <2>1 DEF Placed, GivenApart
  <2>2. CASE Before(i) /\ Now(j)
    BY <2>2 DEF Placed, HeldApart
  <2>3. CASE Now(i) /\ Before(j)
    BY <2>3 DEF Placed, HeldApart
  <2> QED
    BY <1>3, <2>1, <2>2, <2>3
<1>9. HeldApart(given, here)'
  <2> SUFFICES ASSUME NEW v \in Workers, Stores(v)'
               PROVE  /\ \A i \in Answered("indexed")' :
                           \/ UidOf(i)' # Uid(v)'
                           \/ GivenEnd(given, i)' <= here[v]
                           \/ HeldEnd(here, v)' <= given[i]
                      /\ \A u \in Workers : Stores(u)' =>
                           \/ u = v \/ Uid(u)' # Uid(v)'
                           \/ HeldEnd(here, u)' <= here[v] \/ HeldEnd(here, v)' <= here[u]
    BY DEF HeldApart
  <2>1. /\ v # w /\ Stores(v) /\ Uid(v)' = Uid(v)
        /\ HeldEnd(here, v)' = HeldEnd(here, v)
    BY <1>4
  <2>2. ASSUME NEW i \in Answered("indexed")', UidOf(i)' = Uid(v)'
        PROVE  GivenEnd(given, i)' <= here[v] \/ HeldEnd(here, v)' <= given[i]
    <3>1. CASE Before(i)
      BY <2>1, <2>2, <3>1 DEF Placed, HeldApart
    <3>2. CASE Now(i)
      <4>1. HeldEnd(here, w) <= here[v] \/ HeldEnd(here, v) <= here[w]
        BY <2>1, <2>2, <3>2 DEF Placed, HeldApart
      <4> QED
        BY <2>1, <3>2, <4>1
    <3> QED
      BY <1>3, <3>1, <3>2
  <2>3. ASSUME NEW u \in Workers, Stores(u)', u # v, Uid(u)' = Uid(v)'
        PROVE  HeldEnd(here, u)' <= here[v] \/ HeldEnd(here, v)' <= here[u]
    <3>1. Stores(u) /\ Uid(u) = Uid(v) /\ HeldEnd(here, u)' = HeldEnd(here, u)
      BY <2>1, <2>3, <1>4
    <3>2. HeldEnd(here, u) <= here[v] \/ HeldEnd(here, v) <= here[u]
      BY <2>1, <2>3, <3>1 DEF Placed, HeldApart
    <3> QED
      BY <2>1, <3>1, <3>2
  <2> QED
    BY <2>2, <2>3
<1>10. StoringLast(given, here)'
  <2> SUFFICES ASSUME NEW v \in Workers, pc'[v] = "ingest"
               PROVE  /\ doc'[v] <= Len(Batch(v)') + 1
                      /\ HeldEnd(here, v)' = DocumentCount(documents[Uid(v)])'
                      /\ \A i \in Answered("indexed")' :
                            UidOf(i)' = Uid(v)' => GivenEnd(given, i)' <= here[v]
                      /\ \A u \in Workers : Stores(u)' /\ u # v /\ Uid(u)' = Uid(v)' =>
                            HeldEnd(here, u)' <= here[v]
    BY DEF StoringLast
  <2>1. Stores(v)'
    BY DEF Stores
  <2>2. /\ v # w /\ Stores(v) /\ Uid(v)' = Uid(v) /\ Batch(v)' = Batch(v)
        /\ HeldEnd(here, v)' = HeldEnd(here, v)
        /\ pc[v] = "ingest" /\ doc'[v] = doc[v]
    BY <1>4, <2>1
  <2>3. DocumentCount(documents[Uid(v)])' = DocumentCount(documents[Uid(v)])
    BY <2>2, BatchTypes DEF DocumentCount
  <2>4. /\ doc'[v] <= Len(Batch(v)') + 1
        /\ HeldEnd(here, v)' = DocumentCount(documents[Uid(v)])'
    BY <2>2, <2>3 DEF Placed, StoringLast
  <2>5. ASSUME NEW i \in Answered("indexed")', UidOf(i)' = Uid(v)'
        PROVE  GivenEnd(given, i)' <= here[v]
    <3>1. CASE Before(i)
      BY <2>2, <2>5, <3>1 DEF Placed, StoringLast
    <3>2. CASE Now(i)
      BY <2>2, <2>5, <3>2 DEF Placed, StoringLast
    <3> QED
      BY <1>3, <3>1, <3>2
  <2>6. ASSUME NEW u \in Workers, Stores(u)', u # v, Uid(u)' = Uid(v)'
        PROVE  HeldEnd(here, u)' <= here[v]
    <3>1. Stores(u) /\ Uid(u) = Uid(v) /\ HeldEnd(here, u)' = HeldEnd(here, u)
      BY <2>2, <2>6, <1>4
    <3> QED
      BY <2>2, <2>6, <3>1 DEF Placed, StoringLast
  <2> QED
    BY <2>4, <2>5, <2>6
<1> QED
  BY <1>6, <1>7, <1>8, <1>9, <1>10 DEF Placed

(* The other steps leave what each worker stores alone: a batch is done    *)
(* when its last document is stored, and an exception gives up its place.  *)
LEMMA StoringStands ==
    ASSUME TypeInv, NEW at, NEW here, Placed(at, here), [Next]_vars,
           \A w \in Workers : ~(EmplaceIndex(w) \/ StoreSource(w) \/ Respond(w))
    PROVE  /\ history' = history
           /\ \A v \in Workers : Stores(v)' =>
                 Stores(v) /\ request'[v] = request[v] /\ StoredBy(v)' = StoredBy(v)
           /\ \A v \in Workers : pc'[v] = "ingest" =>
                 pc[v] = "ingest" /\ doc'[v] = doc[v]
<1> DEFINE Stands(v) ==
             /\ Stores(v)' =>
                  Stores(v) /\ request'[v] = request[v] /\ StoredBy(v)' = StoredBy(v)
             /\ pc'[v] = "ingest" => pc[v] = "ingest" /\ doc'[v] = doc[v]
(* A worker that does not move, or whose step neither ingests nor answers. *)
<1>1. ASSUME NEW v \in Workers, pc'[v] = pc[v], request'[v] = request[v],
             doc'[v] = doc[v], answer'[v] = answer[v]
      PROVE  Stands(v)
  BY <1>1 DEF Stores, StoredBy, Batch
<1>2. ASSUME NEW v \in Workers, pc'[v] # "ingest", ~Indexes(answer'[v])
      PROVE  Stands(v)
  BY <1>2 DEF Stores
<1>3. ASSUME NEW w \in Workers, Receive(w) \/ ReadClock(w) \/ Lock(w)
      PROVE  history' = history /\ \A v \in Workers : Stands(v)
  <2>1. /\ history' = history /\ doc' = doc /\ answer' = answer
        /\ pc[w] # "answer" /\ pc'[w] # "ingest"
    BY <1>3 DEF Receive, ReadClock, Lock, Goto, TypeInv, TypeOK
  <2>2. answer[w] = NoAnswer
    BY <2>1 DEF TypeInv, CallsOK
  <2>3. \A v \in Workers \ {w} : pc'[v] = pc[v] /\ request'[v] = request[v]
    BY <1>3 DEF Receive, ReadClock, Lock, Goto, TypeInv, TypeOK
  <2>4. Stands(w)
    BY <1>2, <2>1, <2>2 DEF Indexes
  <2>5. \A v \in Workers \ {w} : Stands(v)
    BY <1>1, <2>1, <2>3
  <2> QED
    BY <2>1, <2>4, <2>5
<1>4. ASSUME NEW w \in Workers, Add(w)
      PROVE  history' = history /\ \A v \in Workers : Stands(v)
  <2>1. ~Indexes(answer'[w]) /\ history' = history
    BY <1>4, AddDecides DEF Indexes
  <2>2. /\ pc'[w] # "ingest" /\ request' = request /\ doc' = doc
        /\ \A v \in Workers \ {w} : pc'[v] = pc[v] /\ answer'[v] = answer[v]
    BY <1>4 DEF Add, Goto, Decide, TypeInv, TypeOK
  <2>3. Stands(w)
    BY <1>2, <2>1, <2>2
  <2>4. \A v \in Workers \ {w} : Stands(v)
    BY <1>1, <2>2
  <2> QED
    BY <2>1, <2>3, <2>4
<1>5. ASSUME NEW w \in Workers, RecordWord(w)
      PROVE  history' = history /\ \A v \in Workers : Stands(v)
  BY <1>1, <1>5 DEF RecordWord
<1>6. ASSUME NEW w \in Workers, FinishBatch(w)
      PROVE  history' = history /\ \A v \in Workers : Stands(v)
  <2>1. /\ pc[w] = "ingest" /\ pc'[w] = "answer" /\ BatchDone(w)
        /\ history' = history /\ request' = request /\ doc' = doc
        /\ \A v \in Workers \ {w} : pc'[v] = pc[v] /\ answer'[v] = answer[v]
    BY <1>6 DEF FinishBatch, Goto, Decide, TypeInv, TypeOK
  <2>2. Len(Batch(w)) \in Nat /\ doc[w] \in Nat
    BY <2>1, RequestFields DEF TypeInv, TypeOK, CallsOK, Batch
  <2>3. doc[w] - 1 = Len(Batch(w))
    BY <2>1, <2>2 DEF Placed, StoringLast, BatchDone
  <2>4. Stores(w) /\ StoredBy(w) = Len(Batch(w)) /\ StoredBy(w)' = Len(Batch(w))
    BY <2>1, <2>3 DEF Stores, StoredBy, Batch
  <2>5. Stands(w)
    BY <2>1, <2>4
  <2>6. \A v \in Workers \ {w} : Stands(v)
    BY <1>1, <2>1
  <2> QED
    BY <2>1, <2>5, <2>6
<1>7. ASSUME NEW w \in Workers, Throw(w)
      PROVE  history' = history /\ \A v \in Workers : Stands(v)
  <2>1. /\ pc'[w] = "answer" /\ answer'[w] = InternalError
        /\ history' = history /\ request' = request /\ doc' = doc
        /\ \A v \in Workers \ {w} : pc'[v] = pc[v] /\ answer'[v] = answer[v]
    BY <1>7 DEF Throw, Goto, Decide, TypeInv, TypeOK
  <2>2. ~Indexes(answer'[w])
    BY <2>1, AnswerTypes DEF Indexes
  <2>3. Stands(w)
    BY <1>2, <2>1, <2>2
  <2>4. \A v \in Workers \ {w} : Stands(v)
    BY <1>1, <2>1
  <2> QED
    BY <2>1, <2>3, <2>4
<1>8. ASSUME UNCHANGED vars
      PROVE  history' = history /\ \A v \in Workers : Stands(v)
  BY <1>1, <1>8 DEF vars
<1> HIDE DEF Stands
<1>9. history' = history /\ \A v \in Workers : Stands(v)
  BY <1>3, <1>4, <1>5, <1>6, <1>7, <1>8 DEF Next, Step, Done
<1> QED
  BY <1>9 DEF Stands

LEMMA InitBatchesOK == Init => BatchesOK
<1> SUFFICES ASSUME Init PROVE BatchesOK
  OBVIOUS
<1>1. \A uid \in Uids : DocumentCount(documents[uid]) = 0
  BY EmptyIndexOK DEF Init, DocumentCount
<1>2. Answered("indexed") = {} /\ \A w \in Workers : ~Stores(w) /\ pc[w] # "ingest"
  BY DEF Init, Answered, Stores, Indexes
<1> DEFINE at == [i \in DOMAIN history |-> 0]
           here == [w \in Workers |-> 0]
<1>3. Placed(at, here)
  BY <1>2 DEF Placed, GivenPlaced, HeldPlaced, GivenApart, HeldApart, StoringLast
<1>4. /\ at \in [DOMAIN history -> 0 .. MaxDocuments]
      /\ here \in [Workers -> 0 .. MaxDocuments]
  BY MaxDocumentsAssumption
<1> HIDE DEF at, here
<1> QED
  BY <1>1, <1>3, <1>4, MaxDocumentsAssumption DEF BatchesOK

LEMMA NextBatchesOK ==
    TypeInv /\ IndexInv /\ BatchesOK /\ [Next]_vars => BatchesOK'
<1> SUFFICES ASSUME TypeInv, IndexInv, BatchesOK, [Next]_vars PROVE BatchesOK'
  OBVIOUS
<1>1. PICK at \in [DOMAIN history -> 0 .. MaxDocuments],
           here \in [Workers -> 0 .. MaxDocuments] : Placed(at, here)
  BY DEF BatchesOK
<1>2. at \in [DOMAIN history -> Nat] /\ here \in [Workers -> Nat]
  BY <1>1, MaxDocumentsAssumption
<1>3. ASSUME NEW w \in Workers, StoreSource(w) PROVE BatchesOK'
  <2>1. Placed(at, here)' /\ history' = history
    BY <1>1, <1>2, <1>3, PlacedExtends DEF StoreSource
  <2>2. \A uid \in Uids : DocumentCount(documents'[uid]) <= MaxDocuments
    <3> DEFINE index == documents[Uid(w)]
    <3>1. /\ Uid(w) \in Uids /\ index \in ExactMatchIndices
          /\ CurrentDocument(w) \in Documents /\ DocumentCount(index) < MaxDocuments
          /\ documents' = [documents EXCEPT ![Uid(w)] = PushSource(index, CurrentDocument(w))]
      BY <1>3, StoreSourceArguments DEF StoreSource, RoomFor
    <3>2. /\ DocumentCount(index) \in Nat
          /\ DocumentCount(PushSource(index, CurrentDocument(w))) = DocumentCount(index) + 1
      BY <3>1, PushSourceOK, IndexFields DEF DocumentCount
    <3> HIDE DEF index
    <3>3. DocumentCount(PushSource(index, CurrentDocument(w))) <= MaxDocuments
      BY <3>1, <3>2, MaxDocumentsAssumption
    <3> QED
      BY <3>1, <3>3 DEF BatchesOK, TypeInv, TypeOK
  <2> QED
    BY <2>1, <2>2 DEF BatchesOK
<1>4. CASE \A w \in Workers : ~StoreSource(w)
  <2>1. \A uid \in Uids : documents'[uid].sources = documents[uid].sources
    BY <1>4, SourcesStand
  <2>2. \A uid \in Uids : DocumentCount(documents'[uid]) <= MaxDocuments
    BY <2>1 DEF BatchesOK, DocumentCount
  <2>3. ASSUME NEW w \in Workers, EmplaceIndex(w) PROVE BatchesOK'
    <3> DEFINE count == DocumentCount(documents[Uid(w)])
               begun == [here EXCEPT ![w] = count]
    <3>1. history' = history /\ Uid(w) \in Uids
      BY <2>3, RequestFields DEF EmplaceIndex, TypeInv, CallsOK, Uid
    <3>2. count \in 0 .. MaxDocuments
      BY <3>1, BatchTypes, MaxDocumentsAssumption DEF BatchesOK
    <3> HIDE DEF count
    <3>3. begun \in [Workers -> 0 .. MaxDocuments]
      BY <3>2
    <3> HIDE DEF begun
    <3>4. PICK b \in [Workers -> 0 .. MaxDocuments] : b = begun
      BY <3>3
    <3>5. Placed(at, b)'
      <4>1. b = [here EXCEPT ![w] = DocumentCount(documents[Uid(w)])]
        BY <3>4 DEF begun, count
      <4> QED
        BY <1>1, <1>2, <2>1, <2>3, <4>1, PlacedBegins
    <3> QED
      BY <2>2, <3>1, <3>5 DEF BatchesOK
  <2>4. ASSUME NEW w \in Workers, Respond(w) PROVE BatchesOK'
    <3> DEFINE given == [i \in DOMAIN history' |->
                           IF i \in DOMAIN history THEN at[i] ELSE here[w]]
    <3>1. PICK g \in [DOMAIN history' -> 0 .. MaxDocuments] : g = given
      OBVIOUS
    <3> HIDE DEF given
    <3>2. Placed(g, here)'
      <4>1. g = [i \in DOMAIN history' |->
                   IF i \in DOMAIN history THEN at[i] ELSE here[w]]
        BY <3>1 DEF given
      <4> QED
        BY <1>1, <1>2, <2>1, <2>4, <4>1, PlacedAnswered
    <3> QED
      BY <2>2, <3>2 DEF BatchesOK
  <2>5. CASE \A w \in Workers : ~(EmplaceIndex(w) \/ StoreSource(w) \/ Respond(w))
    <3>1. /\ history' = history
          /\ \A v \in Workers : Stores(v)' =>
                Stores(v) /\ request'[v] = request[v] /\ StoredBy(v)' = StoredBy(v)
          /\ \A v \in Workers : pc'[v] = "ingest" =>
                pc[v] = "ingest" /\ doc'[v] = doc[v]
      BY <1>1, <2>5, StoringStands
    <3>2. Placed(at, here)'
      BY <1>1, <2>1, <3>1, PlacedStands
    <3> QED
      BY <2>2, <3>1, <3>2 DEF BatchesOK
  <2> QED
    BY <1>4, <2>3, <2>4, <2>5
<1> QED
  BY <1>3, <1>4

(* Every batch acknowledged, stored or being stored has a place of its own *)
(* in its index, whatever fails and however ingests are interleaved.       *)
THEOREM BatchesKeepTheirPlaces == Safety => []BatchesOK
<1>1. Inv => TypeInv /\ IndexInv
  BY DEF Inv, TypeInv, IndexInv
<1>2. Inv /\ BatchesOK /\ [Next]_vars => BatchesOK'
  BY <1>1, NextBatchesOK
<1> QED
  BY <1>2, InitBatchesOK, InvHolds, PTL DEF Safety

(* A part that is stored whole is what AcknowledgedBatchesStored asks for. *)
LEMMA PartIsStored ==
    ASSUME TypeInv, NEW uid \in Uids, NEW batch \in Seq(Documents),
           NEW offset \in Nat, PartAt(uid, batch, Len(batch), offset)
    PROVE  StoredAt(uid, batch, offset)
<1> DEFINE sources == documents[uid].sources
           sub == SubSeq(sources, offset + 1, offset + Len(batch))
<1>1. sources \in Seq(Documents) /\ Len(sources) \in Nat /\ Len(batch) \in Nat
  BY IndexFields DEF TypeInv, TypeOK
<1>2. /\ offset + Len(batch) <= Len(sources)
      /\ \A k \in 1 .. Len(batch) : sources[offset + k] = batch[k]
  BY DEF PartAt, DocumentCount
<1> HIDE DEF sources
<1>3. sub \in Seq(Documents) /\ Len(sub) = Len(batch)
  BY <1>1, <1>2
<1>4. ASSUME NEW k \in 1 .. Len(batch) PROVE sub[k] = batch[k]
  BY <1>1, <1>2
<1> HIDE DEF sub
<1>5. sub = batch
  <2>1. sub = [k \in 1 .. Len(batch) |-> sub[k]]
    BY <1>1, <1>3
  <2>2. batch = [k \in 1 .. Len(batch) |-> batch[k]]
    BY <1>1
  <2> QED
    BY <2>1, <2>2, <1>4
<1> QED
  BY <1>2, <1>5 DEF StoredAt, sources, sub

(* An acknowledged batch is stored whole, in its order, and shares no      *)
(* document with another one, whatever fails and however the ingests of    *)
(* the pool's threads are interleaved.                                     *)
THEOREM AcknowledgedStayStored == Safety => []AcknowledgedBatchesStored
<1>1. Inv /\ BatchesOK => AcknowledgedBatchesStored
  <2> SUFFICES ASSUME Inv, BatchesOK PROVE AcknowledgedBatchesStored
    OBVIOUS
  <2> DEFINE acknowledged == Answered("indexed")
  <2>1. TypeInv
    BY DEF Inv, TypeInv
  <2>2. PICK at \in [DOMAIN history -> 0 .. MaxDocuments],
             here \in [Workers -> 0 .. MaxDocuments] : Placed(at, here)
    BY DEF BatchesOK
  <2> DEFINE place == [i \in acknowledged |-> at[i]]
  <2>3. acknowledged \subseteq DOMAIN history
    BY DEF Answered
  <2>4. place \in [acknowledged -> 0 .. MaxDocuments]
    BY <2>2, <2>3
  <2>5. ASSUME NEW i \in acknowledged
        PROVE  StoredAt(history[i].request.uid, history[i].request.batch, place[i])
    <3>1. /\ history[i].request \in Requests /\ history[i].request.op = "ingest"
          /\ PartAt(UidOf(i), BatchOf(i), Len(BatchOf(i)), at[i])
      BY <2>1, <2>2, <2>3, ExchangeTypes DEF Placed, GivenPlaced
    <3>2. UidOf(i) \in Uids /\ BatchOf(i) \in Seq(Documents) /\ at[i] \in Nat
      BY <2>2, <2>3, <3>1, RequestFields, MaxDocumentsAssumption DEF UidOf, BatchOf
    <3>3. StoredAt(UidOf(i), BatchOf(i), at[i])
      BY <2>1, <3>1, <3>2, PartIsStored
    <3> QED
      BY <3>3 DEF UidOf, BatchOf
  <2>6. ASSUME NEW i \in acknowledged, NEW j \in acknowledged
        PROVE  \/ i = j
               \/ history[i].request.uid # history[j].request.uid
               \/ place[i] + Len(history[i].request.batch) <= place[j]
               \/ place[j] + Len(history[j].request.batch) <= place[i]
    BY <2>2 DEF Placed, GivenApart, GivenEnd, UidOf, BatchOf
  <2> HIDE DEF place, acknowledged
  <2> QED
    BY <2>4, <2>5, <2>6 DEF AcknowledgedBatchesStored, acknowledged
<1> QED
  BY <1>1, InvHolds, BatchesKeepTheirPlaces, PTL

-----------------------------------------------------------------------------
(* InMemoryIndexRepository implements IndexStore when no allocation fails: *)
(* every step maps to a step of the port's contract or to a stutter.       *)

(* Moving the next document of a batch to the stored ones. *)
LEMMA MoveOne ==
    ASSUME NEW S, NEW s \in Seq(S), NEW b \in Seq(S), NEW n \in 1 .. Len(b)
    PROVE  Append(s, b[n]) \o SubSeq(b, n + 1, Len(b)) = s \o SubSeq(b, n, Len(b))
<1> DEFINE rest == SubSeq(b, n + 1, Len(b))
           more == SubSeq(b, n, Len(b))
           t == Append(s, b[n])
<1>1. /\ Len(s) \in Nat /\ Len(b) \in Nat /\ n \in Nat /\ n >= 1 /\ n <= Len(b)
      /\ \A i \in 1 .. Len(b) : b[i] \in S
  BY LenProperties
<1>2. /\ rest \in Seq(S) /\ Len(rest) = Len(b) - n
      /\ \A i \in 1 .. Len(b) - n : rest[i] = b[n + i]
  <2>1. \A i \in n + 1 .. Len(b) : b[i] \in S
    BY <1>1
  <2>2. /\ rest \in Seq(S) /\ Len(rest) = IF n + 1 <= Len(b) THEN Len(b) - (n + 1) + 1 ELSE 0
        /\ \A i \in 1 .. Len(b) - (n + 1) + 1 : rest[i] = b[(n + 1) + i - 1]
    BY <1>1, <2>1, SubSeqProperties, n + 1 \in Int, Len(b) \in Int
  <2> QED BY <1>1, <2>2
<1>3. /\ more \in Seq(S) /\ Len(more) = Len(b) - n + 1
      /\ \A i \in 1 .. Len(b) - n + 1 : more[i] = b[n + i - 1]
  <2>1. \A i \in n .. Len(b) : b[i] \in S
    BY <1>1
  <2> QED BY <1>1, <2>1, SubSeqProperties
<1>4. /\ t \in Seq(S) /\ Len(t) = Len(s) + 1 /\ t[Len(s) + 1] = b[n]
      /\ \A i \in 1 .. Len(s) : t[i] = s[i]
  BY <1>1, AppendProperties
<1> HIDE DEF rest, more, t
<1>5. /\ t \o rest \in Seq(S) /\ Len(t \o rest) = Len(t) + Len(rest)
      /\ \A i \in 1 .. Len(t) + Len(rest) :
           (t \o rest)[i] = IF i <= Len(t) THEN t[i] ELSE rest[i - Len(t)]
  BY <1>2, <1>4, ConcatProperties
<1>6. /\ s \o more \in Seq(S) /\ Len(s \o more) = Len(s) + Len(more)
      /\ \A i \in 1 .. Len(s) + Len(more) :
           (s \o more)[i] = IF i <= Len(s) THEN s[i] ELSE more[i - Len(s)]
  BY <1>3, ConcatProperties
<1> DEFINE total == Len(s) + 1 + (Len(b) - n)
<1>7. Len(t) + Len(rest) = total /\ Len(s) + Len(more) = total /\ total \in Nat
  BY <1>1, <1>2, <1>3, <1>4
<1>8. ASSUME NEW i \in 1 .. total
      PROVE  (t \o rest)[i] = (s \o more)[i]
  <2>1. CASE i <= Len(s)
    BY <1>1, <1>4, <1>5, <1>6, <1>7, <2>1
  <2>2. CASE i = Len(s) + 1
    <3>1. i - Len(s) = 1 /\ 1 \in 1 .. Len(b) - n + 1 /\ n + 1 - 1 = n
      BY <1>1, <2>2
    <3>2. more[1] = b[n]
      BY <1>3, <3>1
    <3> QED BY <1>1, <1>4, <1>5, <1>6, <1>7, <2>2, <3>1, <3>2
  <2>3. CASE i > Len(s) + 1
    <3>1. /\ i - (Len(s) + 1) \in 1 .. Len(b) - n /\ i - Len(s) \in 1 .. Len(b) - n + 1
          /\ n + (i - (Len(s) + 1)) = n + (i - Len(s)) - 1
          /\ ~(i <= Len(s)) /\ ~(i <= Len(s) + 1)
      BY <1>1, <2>3
    <3>2. rest[i - (Len(s) + 1)] = more[i - Len(s)]
      BY <1>2, <1>3, <3>1
    <3> QED BY <1>1, <1>4, <1>5, <1>6, <1>7, <3>1, <3>2
  <2>4. i \in Int /\ Len(s) \in Int
    BY <1>1, <1>7
  <2>5. i <= Len(s) \/ i = Len(s) + 1 \/ i > Len(s) + 1
    BY <2>4
  <2> QED BY <2>1, <2>2, <2>3, <2>5
<1>9. t \o rest = s \o more
  <2>1. Len(t \o rest) = total /\ Len(s \o more) = total
    BY <1>5, <1>6, <1>7
  <2> HIDE DEF total
  <2> QED BY <1>5, <1>6, <1>8, <2>1, SeqEqual
<1> QED BY <1>9 DEF t, rest, more

-----------------------------------------------------------------------------
(* What an ingest has left is a worker's own doing.                        *)
LEMMA NothingToStore ==
    ASSUME mutex = NoWorker \/ pc[mutex] # "ingest"
    PROVE  \A uid \in Uids : ToBeStored(uid) = <<>>
BY DEF ToBeStored

(* A step of a worker without the mutex leaves it alone.                   *)
LEMMA ToBeStoredStands ==
    ASSUME TypeInv, NEW w \in Workers, mutex # w, mutex' = mutex,
           \A v \in Workers \ {w} :
              pc'[v] = pc[v] /\ request'[v] = request[v] /\ doc'[v] = doc[v]
    PROVE  \A uid \in Uids : ToBeStored(uid)' = ToBeStored(uid)
<1>1. mutex = NoWorker \/ mutex \in Workers \ {w}
  BY DEF TypeInv, TypeOK
<1>2. CASE mutex = NoWorker
  BY <1>2 DEF ToBeStored
<1>3. CASE mutex \in Workers \ {w}
  BY <1>3 DEF ToBeStored, Uid, Batch
<1> QED BY <1>1, <1>2, <1>3

(* What a worker's call looks like to a caller depends on its own locals,  *)
(* and on the stored key while it adds documents.                          *)
LEMMA CallBarStands ==
    ASSUME TypeInv, NEW w \in Workers, pc'[w] = pc[w], request'[w] = request[w],
           answer'[w] = answer[w],
           pc[w] = "ingest" => metadata'[Uid(w)] = metadata[Uid(w)]
    PROVE  CallBar[w]' = CallBar[w]
BY DEF CallBar, Uid, Batch

LEMMA OthersStand ==
    ASSUME TypeInv, Grows, NEW w \in Workers,
           \A v \in Workers \ {w} :
              pc'[v] = pc[v] /\ request'[v] = request[v] /\ answer'[v] = answer[v]
    PROVE  \A v \in Workers \ {w} : CallBar[v]' = CallBar[v]
<1> SUFFICES ASSUME NEW v \in Workers \ {w} PROVE CallBar[v]' = CallBar[v]
  OBVIOUS
<1>1. pc[v] = "ingest" => metadata'[Uid(v)] = metadata[Uid(v)]
  BY RequestFields DEF TypeInv, CallsOK, Grows, Uid
<1> QED BY <1>1, CallBarStands

(* Steps a caller cannot see. *)
LEMMA BarsStutter ==
    ASSUME \A uid \in Uids :
              /\ metadata'[uid] = metadata[uid]
              /\ documents'[uid].sources \o ToBeStored(uid)'
                   = documents[uid].sources \o ToBeStored(uid),
           \A w \in Workers : CallBar[w]' = CallBar[w],
           history' = history
    PROVE  UNCHANGED Store!storeVars
<1>1. StoreBar' = StoreBar
  BY DEF StoreBar
<1>2. CallBar' = CallBar
  BY DEF CallBar
<1> QED BY <1>1, <1>2 DEF Store!storeVars

LEMMA ReadClockRefines ==
    ASSUME TypeInv, Grows, NEW w \in Workers, ReadClock(w)
    PROVE  UNCHANGED Store!storeVars
<1> USE DEF ReadClock, Goto
<1>1. \A v \in Workers \ {w} : pc'[v] = pc[v] /\ request'[v] = request[v]
                               /\ answer'[v] = answer[v] /\ doc'[v] = doc[v]
  BY DEF TypeInv, TypeOK
<1>2. \A uid \in Uids : ToBeStored(uid)' = ToBeStored(uid)
  BY <1>1, ToBeStoredStands DEF TypeInv, MutexOK
<1>3. CallBar[w]' = CallBar[w]
  BY DEF CallBar, TypeInv, TypeOK
<1>4. \A v \in Workers : CallBar[v]' = CallBar[v]
  BY <1>1, <1>3, OthersStand
<1> QED BY <1>2, <1>4, BarsStutter

LEMMA LockRefines ==
    ASSUME TypeInv, Grows, NEW w \in Workers, Lock(w)
    PROVE  UNCHANGED Store!storeVars
<1> USE DEF Lock, Goto
<1>1. \A v \in Workers \ {w} : pc'[v] = pc[v] /\ request'[v] = request[v]
                               /\ answer'[v] = answer[v]
  BY DEF TypeInv, TypeOK
<1>2. pc'[w] \in {"add", "emplace"} /\ mutex' = w /\ mutex = NoWorker
  BY DEF TypeInv, TypeOK
<1>3. \A uid \in Uids : ToBeStored(uid)' = <<>> /\ ToBeStored(uid) = <<>>
  BY <1>2 DEF ToBeStored
<1>4. CallBar[w]' = CallBar[w]
  BY <1>2 DEF CallBar, TypeInv, TypeOK
<1>5. \A v \in Workers : CallBar[v]' = CallBar[v]
  BY <1>1, <1>4, OthersStand
<1> QED BY <1>3, <1>5, BarsStutter

LEMMA RecordWordRefines ==
    ASSUME TypeInv, Grows, NEW w \in Workers, RecordWord(w)
    PROVE  UNCHANGED Store!storeVars
<1> USE DEF RecordWord
<1>1. \A uid \in Uids : ToBeStored(uid)' = ToBeStored(uid)
  BY DEF ToBeStored, Uid, Batch
<1>2. \A uid \in Uids : documents'[uid].sources = documents[uid].sources
  <2> DEFINE index == documents[Uid(w)]
             new == Record(index, CurrentWords(w)[word[w]], NextDocId(index))
  <2>1. /\ Uid(w) \in Uids /\ index \in ExactMatchIndices /\ NextDocId(index) \in DocIds
        /\ CurrentWords(w)[word[w]] \in Words
        /\ documents' = [documents EXCEPT ![Uid(w)] = new]
    BY RecordWordArguments
  <2>2. new.sources = index.sources
    BY <2>1, RecordType
  <2> HIDE DEF new
  <2> QED BY <2>1, <2>2 DEF TypeInv, TypeOK
<1>3. \A v \in Workers : CallBar[v]' = CallBar[v]
  BY DEF CallBar, Uid, Batch
<1> QED BY <1>1, <1>2, <1>3, BarsStutter

LEMMA StoreSourceRefines ==
    ASSUME TypeInv, Grows, NEW w \in Workers, StoreSource(w)
    PROVE  UNCHANGED Store!storeVars
<1> USE DEF StoreSource
<1> DEFINE u == Uid(w)
           s == documents[u].sources
           b == Batch(w)
<1>1. mutex = w /\ mutex' = w /\ w # NoWorker /\ pc[w] = "ingest"
  BY NoWorkerAssumption DEF TypeInv, MutexOK
<1>2. /\ u \in Uids /\ documents[u] \in ExactMatchIndices /\ CurrentDocument(w) \in Documents
      /\ documents' = [documents EXCEPT ![u] = PushSource(documents[u], CurrentDocument(w))]
  BY StoreSourceArguments
<1>3. b \in Seq(Documents) /\ doc[w] \in 1 .. Len(b) /\ doc'[w] = doc[w] + 1
  <2>1. request[w] \in Requests /\ request[w].op = "ingest"
    BY <1>1 DEF TypeInv, CallsOK
  <2>2. b \in Seq(Documents)
    BY <2>1, RequestFields DEF Batch
  <2>3. doc[w] \in Nat \ {0} /\ ~(doc[w] > Len(b)) /\ Len(b) \in Nat
    BY <2>2 DEF TypeInv, TypeOK, BatchDone
  <2> QED BY <2>2, <2>3 DEF TypeInv, TypeOK
<1>4. ASSUME NEW uid \in Uids
      PROVE  documents'[uid].sources \o ToBeStored(uid)'
               = documents[uid].sources \o ToBeStored(uid)
  <2>1. CASE uid = u
    <3>1. /\ ToBeStored(uid) = SubSeq(b, doc[w], Len(b))
          /\ ToBeStored(uid)' = SubSeq(b, doc[w] + 1, Len(b))
      BY <1>1, <1>3, <2>1 DEF ToBeStored, Uid, Batch
    <3>2. documents'[uid].sources = Append(s, b[doc[w]]) /\ s \in Seq(Documents)
      BY <1>2, <2>1 DEF PushSource, CurrentDocument, TypeInv, TypeOK, ExactMatchIndices
    <3> HIDE DEF s, b
    <3>3. Append(s, b[doc[w]]) \o SubSeq(b, doc[w] + 1, Len(b)) = s \o SubSeq(b, doc[w], Len(b))
      BY <1>3, <3>2, MoveOne
    <3> QED BY <2>1, <3>1, <3>2, <3>3 DEF s
  <2>2. CASE uid # u
    <3>1. ToBeStored(uid) = <<>> /\ ToBeStored(uid)' = <<>>
      BY <1>1, <2>2 DEF ToBeStored, Uid
    <3>2. documents'[uid] = documents[uid]
      BY <1>2, <2>2 DEF TypeInv, TypeOK
    <3> QED BY <3>1, <3>2
  <2> QED BY <2>1, <2>2
<1>5. \A v \in Workers : CallBar[v]' = CallBar[v]
  BY DEF CallBar, Uid, Batch
<1> QED BY <1>4, <1>5, BarsStutter

LEMMA FinishBatchRefines ==
    ASSUME TypeInv, Grows, NEW w \in Workers, FinishBatch(w)
    PROVE  UNCHANGED Store!storeVars
<1> USE DEF FinishBatch, Goto, Decide, Release
<1>1. mutex = w /\ w # NoWorker /\ pc[w] = "ingest" /\ mutex' = NoWorker
  BY NoWorkerAssumption DEF TypeInv, MutexOK
<1>2. \A uid \in Uids : ToBeStored(uid)' = <<>> /\ ToBeStored(uid) = <<>>
  <2>1. request[w] \in Requests /\ request[w].op = "ingest"
    BY <1>1 DEF TypeInv, CallsOK
  <2>2. Batch(w) \in Seq(Documents) /\ Len(Batch(w)) \in Int
    BY <2>1, RequestFields DEF Batch
  <2>3. doc[w] \in Int /\ Len(Batch(w)) < doc[w]
    BY <2>2 DEF TypeInv, TypeOK, BatchDone
  <2>4. SubSeq(Batch(w), doc[w], Len(Batch(w))) = <<>>
    BY <2>2, <2>3, SubSeqEmpty
  <2> QED BY <1>1, <2>4 DEF ToBeStored
<1>3. \A v \in Workers \ {w} : pc'[v] = pc[v] /\ request'[v] = request[v]
                               /\ answer'[v] = answer[v]
  BY DEF TypeInv, TypeOK
<1>4. CallBar[w]' = CallBar[w]
  BY <1>1 DEF CallBar, TypeInv, TypeOK, Uid, Batch
<1>5. \A v \in Workers : CallBar[v]' = CallBar[v]
  BY <1>3, <1>4, OthersStand
<1> QED BY <1>2, <1>5, BarsStutter

-----------------------------------------------------------------------------
(* Steps a caller can see. *)
LEMMA CallBarUpdate ==
    ASSUME NEW w \in Workers, NEW new, CallBar[w]' = new,
           \A v \in Workers \ {w} : CallBar[v]' = CallBar[v]
    PROVE  CallBar' = [CallBar EXCEPT ![w] = new]
BY DEF CallBar

LEMMA CallBarDecides ==
    ASSUME NEW w \in Workers, NEW new, NEW r, NEW old,
           CallBar[w] = [phase |-> "requested", request |-> r, answer |-> old],
           CallBar[w]' = [phase |-> "committed", request |-> r, answer |-> new],
           \A v \in Workers \ {w} : CallBar[v]' = CallBar[v]
    PROVE  Store!Decide(w, new)
<1>1. CallBar' = [CallBar EXCEPT ![w] = [phase |-> "committed", request |-> r, answer |-> new]]
  BY CallBarUpdate
<1>2. CallBar[w].request = r
  OBVIOUS
<1> QED BY <1>1, <1>2 DEF Store!Decide

LEMMA StoreBarUpdate ==
    ASSUME NEW u \in Uids, NEW new, StoreBar'[u] = new,
           \A uid \in Uids \ {u} : StoreBar'[uid] = StoreBar[uid]
    PROVE  StoreBar' = [StoreBar EXCEPT ![u] = new]
BY DEF StoreBar

(* The contract speaks the language of the port, as the repository does.   *)
LEMMA SameRequests == Store!Requests = Requests
BY DEF Store!Requests, Store!CreateRequests, Store!IngestRequests, Store!PrimaryKeys,
       Requests, CreateRequests, IngestRequests, PrimaryKeys

(* A uid that no index is stored under is free to callers too. *)
LEMMA StoreBarFree ==
    ASSUME TypeInv, NEW uid \in Uids
    PROVE  StoreBar[uid] = NoIndex <=> metadata[uid] = NoIndex
<1>1. CASE metadata[uid] = NoIndex
  BY <1>1 DEF StoreBar
<1>2. CASE metadata[uid] # NoIndex
  <2> DEFINE sources == documents[uid].sources \o ToBeStored(uid)
  <2>1. metadata[uid] \in Metadata
    BY <1>2 DEF TypeInv, TypeOK
  <2>2. ToBeStored(uid) \in Seq(Documents)
    <3>1. CASE mutex # NoWorker /\ pc[mutex] = "ingest" /\ Uid(mutex) = uid
      <4>1. mutex \in Workers /\ request[mutex] \in Requests /\ request[mutex].op = "ingest"
        BY <3>1 DEF TypeInv, TypeOK, CallsOK
      <4>2. Batch(mutex) \in Seq(Documents)
        BY <4>1, RequestFields DEF Batch
      <4>3. doc[mutex] \in Nat \ {0} /\ Len(Batch(mutex)) \in Nat
        BY <4>1, <4>2 DEF TypeInv, TypeOK
      <4>4. \A i \in doc[mutex] .. Len(Batch(mutex)) : Batch(mutex)[i] \in Documents
        BY <4>2, <4>3
      <4>5. SubSeq(Batch(mutex), doc[mutex], Len(Batch(mutex))) \in Seq(Documents)
        BY <4>3, <4>4, SubSeqProperties
      <4> QED BY <3>1, <4>5 DEF ToBeStored
    <3>2. CASE ~(mutex # NoWorker /\ pc[mutex] = "ingest" /\ Uid(mutex) = uid)
      BY <3>2 DEF ToBeStored
    <3> QED BY <3>1, <3>2
  <2>3. documents[uid].sources \in Seq(Documents)
    BY DEF TypeInv, TypeOK, ExactMatchIndices
  <2>4. sources \in Seq(Documents)
    BY <2>2, <2>3, ConcatProperties
  <2>5. StoreBar[uid] = [metadata |-> metadata[uid], documents |-> sources]
    BY <1>2 DEF StoreBar
  <2> HIDE DEF sources
  <2>6. StoreBar[uid] \in StoredIndices
    BY <2>1, <2>4, <2>5 DEF StoredIndices
  <2> QED BY <1>2, <2>6, NoIndexAssumption
<1> QED BY <1>1, <1>2

LEMMA ReceiveRefines ==
    ASSUME TypeInv, Grows, NEW w \in Workers, Receive(w)
    PROVE  Store!StoreReceive(w)
<1> USE DEF Receive, Goto
<1>1. PICK r \in Requests : request' = [request EXCEPT ![w] = r]
  OBVIOUS
<1>2. \A v \in Workers \ {w} : pc'[v] = pc[v] /\ request'[v] = request[v]
                               /\ answer'[v] = answer[v] /\ doc'[v] = doc[v]
  BY <1>1 DEF TypeInv, TypeOK
<1>3. \A uid \in Uids : ToBeStored(uid)' = ToBeStored(uid)
  BY <1>2, ToBeStoredStands DEF TypeInv, MutexOK
<1>4. StoreBar' = StoreBar
  BY <1>3 DEF StoreBar
<1>5. pc[w] = "idle" /\ pc'[w] = "clock" /\ request'[w] = r /\ answer'[w] = NoAnswer
  BY <1>1 DEF TypeInv, TypeOK, CallsOK
<1>6. CallBar[w].phase = "idle"
  BY <1>5 DEF CallBar
<1>7. CallBar[w]' = [phase |-> "requested", request |-> r, answer |-> NoAnswer]
  BY <1>5 DEF CallBar
<1>8. CallBar' = [CallBar EXCEPT ![w] =
                    [phase |-> "requested", request |-> r, answer |-> NoAnswer]]
  BY <1>2, <1>7, OthersStand, CallBarUpdate
<1> QED BY <1>4, <1>6, <1>8, SameRequests DEF Store!StoreReceive

LEMMA RespondRefines ==
    ASSUME TypeInv, Grows, NEW w \in Workers, Respond(w)
    PROVE  Store!StoreRespond(w)
<1> USE DEF Respond, Goto
<1>1. \A v \in Workers \ {w} : pc'[v] = pc[v] /\ request'[v] = request[v]
                               /\ answer'[v] = answer[v] /\ doc'[v] = doc[v]
  BY DEF TypeInv, TypeOK
<1>2. \A uid \in Uids : ToBeStored(uid)' = ToBeStored(uid)
  BY <1>1, ToBeStoredStands DEF TypeInv, MutexOK
<1>3. StoreBar' = StoreBar
  BY <1>2 DEF StoreBar
<1>4. pc[w] = "answer" /\ pc'[w] = "idle" /\ request'[w] = NoRequest /\ answer'[w] = NoAnswer
  BY DEF TypeInv, TypeOK
<1>5. /\ CallBar[w].phase = "committed" /\ CallBar[w].request = request[w]
      /\ CallBar[w].answer = answer[w]
  BY <1>4 DEF CallBar
<1>6. CallBar[w]' = [phase |-> "idle", request |-> NoRequest, answer |-> NoAnswer]
  BY <1>4 DEF CallBar
<1>7. CallBar' = [CallBar EXCEPT ![w] =
                    [phase |-> "idle", request |-> NoRequest, answer |-> NoAnswer]]
  BY <1>1, <1>6, OthersStand, CallBarUpdate
<1> QED BY <1>3, <1>5, <1>7 DEF Store!StoreRespond

LEMMA AddRefines ==
    ASSUME TypeInv, IndexInv, Grows, NEW w \in Workers, Add(w)
    PROVE  Store!StoreCreate(w)
<1> DEFINE u == Uid(w)
           index == NewMetadata(request[w].primaryKey, stamp[w])
           result == IF metadata[u] = NoIndex THEN Created(index) ELSE AlreadyExists
<1>1. /\ pc[w] = "add" /\ mutex = w /\ mutex' = NoWorker /\ pc'[w] = "answer"
      /\ request' = request /\ history' = history
      /\ answer'[w] = result
      /\ TryEmplace(u, index)
  BY DEF Add, Release, Goto, Decide, TypeInv, TypeOK, MutexOK
<1>2. \A v \in Workers \ {w} : pc'[v] = pc[v] /\ request'[v] = request[v]
                               /\ answer'[v] = answer[v]
  BY DEF Add, Goto, Decide, TypeInv, TypeOK
<1>3. \A uid \in Uids : ToBeStored(uid)' = <<>> /\ ToBeStored(uid) = <<>>
  BY <1>1 DEF ToBeStored
<1>4. request[w] \in Requests /\ request[w].op = "create" /\ u \in Uids /\ stamp[w] \in Times
  BY <1>1, RequestFields DEF TypeInv, CallsOK, Uid
<1>5. CallBar[w] = [phase |-> "requested", request |-> request[w], answer |-> answer[w]]
  BY <1>1 DEF CallBar
<1>6. CallBar[w]' = [phase |-> "committed", request |-> request[w], answer |-> result]
  BY <1>1 DEF CallBar
<1>7. Store!Decide(w, result)
  <2> HIDE DEF result
  <2> QED BY <1>2, <1>5, <1>6, OthersStand, CallBarDecides
<1>8. CASE metadata[u] = NoIndex
  <2>1. /\ metadata' = [metadata EXCEPT ![u] = index]
        /\ documents' = [documents EXCEPT ![u] = EmptyIndex]
    BY <1>1, <1>8 DEF TryEmplace
  <2>2. index \in Metadata /\ index # NoIndex
    BY <1>4, NewMetadataType, RequestFields
  <2>3. StoreBar'[u] = [metadata |-> index, documents |-> <<>>]
    <3>1. metadata'[u] = index /\ documents'[u].sources = <<>>
      BY <1>4, <2>1 DEF EmptyIndex, TypeInv, TypeOK
    <3>2. <<>> \o <<>> = <<>>
      BY ConcatEmptySeq, EmptySeq
    <3>3. \A uid \in Uids : uid = u =>
            metadata'[uid] # NoIndex /\ documents'[uid].sources \o ToBeStored(uid)' = <<>>
      BY <1>3, <2>2, <3>1, <3>2
    <3> QED BY <1>4, <3>1, <3>3 DEF StoreBar
  <2>4. \A uid \in Uids \ {u} : StoreBar'[uid] = StoreBar[uid]
    BY <1>3, <2>1 DEF StoreBar, TypeInv, TypeOK
  <2>5. StoreBar' = [StoreBar EXCEPT ![u] = [metadata |-> index, documents |-> <<>>]]
    BY <1>4, <2>3, <2>4, StoreBarUpdate
  <2>6. StoreBar[u] = NoIndex
    BY <1>4, <1>8, StoreBarFree
  <2>7. result = Created(index)
    BY <1>8
  <2>8. CallBar[w].phase = "requested" /\ CallBar[w].request = request[w]
    BY <1>5
  <2>9. \E now \in Times :
          LET created == Store!NewMetadata(request[w].primaryKey, now) IN
          /\ StoreBar' = [StoreBar EXCEPT ![u] = [metadata |-> created, documents |-> <<>>]]
          /\ Store!Decide(w, Store!Created(created))
    <3>1. index = Store!NewMetadata(request[w].primaryKey, stamp[w])
      BY DEF NewMetadata, Store!NewMetadata
    <3>2. result = Store!Created(index)
      BY <2>7 DEF Created, Store!Created
    <3> HIDE DEF index, result
    <3> QED BY <1>4, <1>7, <2>5, <3>1, <3>2
  <2> HIDE DEF index, result
  <2> QED BY <1>1, <1>4, <2>6, <2>8, <2>9 DEF Store!StoreCreate, Uid
<1>9. CASE metadata[u] # NoIndex
  <2>1. StoreBar' = StoreBar
    BY <1>1, <1>3, <1>9 DEF TryEmplace, guarded, StoreBar
  <2>2. StoreBar[u] # NoIndex
    BY <1>4, <1>9, StoreBarFree
  <2>3. result = AlreadyExists
    BY <1>9
  <2> QED
    BY <1>1, <1>4, <1>5, <1>7, <2>1, <2>2, <2>3
       DEF Store!StoreCreate, Store!AlreadyExists, AlreadyExists, Uid
<1> QED BY <1>8, <1>9

LEMMA EmplaceRefines ==
    ASSUME TypeInv, IndexInv, Grows, NEW w \in Workers, EmplaceIndex(w)
    PROVE  Store!StoreIngest(w)
<1> DEFINE u == Uid(w)
           b == Batch(w)
           initial == NewMetadata(NoKey, stamp[w])
<1>1. /\ pc[w] = "emplace" /\ mutex = w /\ mutex' = w /\ w # NoWorker /\ pc'[w] = "ingest"
      /\ request' = request /\ history' = history /\ doc'[w] = 1
      /\ TryEmplace(u, initial)
  BY NoWorkerAssumption DEF EmplaceIndex, Goto, TypeInv, TypeOK, MutexOK
<1>2. \A v \in Workers \ {w} : pc'[v] = pc[v] /\ request'[v] = request[v]
                               /\ answer'[v] = answer[v]
  BY DEF EmplaceIndex, Goto, TypeInv, TypeOK
<1>3. /\ request[w] \in Requests /\ request[w].op = "ingest" /\ u \in Uids
      /\ b \in Seq(Documents) /\ stamp[w] \in Times
  BY <1>1, RequestFields DEF TypeInv, CallsOK, Uid, Batch
<1>4. /\ \A uid \in Uids : ToBeStored(uid) = <<>>
      /\ \A uid \in Uids : ToBeStored(uid)' = IF uid = u THEN b ELSE <<>>
  <2>1. SubSeq(b, 1, Len(b)) = b
    BY <1>3, SubSeqFull
  <2> QED BY <1>1, <2>1 DEF ToBeStored, Uid, Batch
<1>5. /\ initial \in Metadata /\ initial # NoIndex /\ initial.primaryKey = NoKey
      /\ initial = Store!NewMetadata(NoKey, stamp[w])
  <2>1. NoKey \in PrimaryKeys
    BY DEF PrimaryKeys
  <2> QED BY <1>3, <2>1, NewMetadataType DEF NewMetadata, Store!NewMetadata
<1> DEFINE found == IF StoreBar[u] = NoIndex
                    THEN [metadata |-> initial, documents |-> <<>>] ELSE StoreBar[u]
           grown == [metadata |-> found.metadata, documents |-> found.documents \o b]
<1>6. /\ metadata'[u] # NoIndex
      /\ found.metadata = metadata'[u] /\ found.documents = documents'[u].sources
      /\ \A uid \in Uids \ {u} : /\ metadata'[uid] = metadata[uid]
                                 /\ documents'[uid].sources = documents[uid].sources
  <2>1. CASE metadata[u] = NoIndex
    <3>1. StoreBar[u] = NoIndex
      BY <1>3, <2>1, StoreBarFree
    <3>2. /\ metadata' = [metadata EXCEPT ![u] = initial]
          /\ documents' = [documents EXCEPT ![u] = EmptyIndex]
      BY <1>1, <2>1 DEF TryEmplace
    <3>3. metadata'[u] = initial /\ documents'[u].sources = <<>>
      BY <1>3, <3>2 DEF EmptyIndex, TypeInv, TypeOK
    <3>4. found.metadata = metadata'[u] /\ found.documents = documents'[u].sources
      BY <3>1, <3>3
    <3>5. \A uid \in Uids \ {u} : /\ metadata'[uid] = metadata[uid]
                                  /\ documents'[uid].sources = documents[uid].sources
      BY <3>2 DEF TypeInv, TypeOK
    <3> HIDE DEF found, initial
    <3> QED BY <1>5, <3>3, <3>4, <3>5
  <2>2. CASE metadata[u] # NoIndex
    <3>1. StoreBar[u] # NoIndex
      BY <1>3, <2>2, StoreBarFree
    <3>2. metadata' = metadata /\ documents' = documents
      BY <1>1, <2>2 DEF TryEmplace, guarded
    <3>3. documents[u].sources \o <<>> = documents[u].sources
      BY <1>3, ConcatEmptySeq DEF TypeInv, TypeOK, ExactMatchIndices
    <3>4. StoreBar[u].metadata = metadata[u] /\ StoreBar[u].documents = documents[u].sources
      BY <1>3, <1>4, <2>2, <3>3 DEF StoreBar
    <3> QED BY <2>2, <3>1, <3>2, <3>4
  <2> QED BY <2>1, <2>2
<1> HIDE DEF found
<1>7. StoreBar' = [StoreBar EXCEPT ![u] = grown]
  <2>1. \A uid \in Uids : uid = u => StoreBar'[uid] = grown
    BY <1>4, <1>6 DEF StoreBar
  <2>2. \A uid \in Uids \ {u} : StoreBar'[uid] = StoreBar[uid]
    BY <1>4, <1>6 DEF StoreBar
  <2> HIDE DEF grown
  <2> QED BY <1>3, <2>1, <2>2, StoreBarUpdate
<1>8. Store!Decide(w, Indexed(Len(b), found.metadata.primaryKey))
  <2>1. CallBar[w] = [phase |-> "requested", request |-> request[w], answer |-> answer[w]]
    BY <1>1 DEF CallBar
  <2>2. CallBar[w]' = [phase |-> "committed", request |-> request[w],
                       answer |-> Indexed(Len(b), metadata'[u].primaryKey)]
    BY <1>1 DEF CallBar, Uid, Batch
  <2> QED BY <1>2, <1>6, <2>1, <2>2, OthersStand, CallBarDecides
<1>9. CallBar[w].phase = "requested" /\ CallBar[w].request = request[w]
  BY <1>1 DEF CallBar
<1>10. \E now \in Times :
         LET old == IF StoreBar[u] = NoIndex
                    THEN [metadata |-> Store!NewMetadata(NoKey, now), documents |-> <<>>]
                    ELSE StoreBar[u] IN
         /\ StoreBar' = [StoreBar EXCEPT ![u] = [metadata |-> old.metadata,
                                                documents |-> old.documents \o b]]
         /\ Store!Decide(w, Store!Indexed(Len(b), old.metadata.primaryKey))
  <2>1. found = IF StoreBar[u] = NoIndex
                THEN [metadata |-> Store!NewMetadata(NoKey, stamp[w]), documents |-> <<>>]
                ELSE StoreBar[u]
    BY <1>5 DEF found
  <2>2. Store!Decide(w, Store!Indexed(Len(b), found.metadata.primaryKey))
    BY <1>8 DEF Store!Indexed, Indexed
  <2> HIDE DEF initial
  <2> HIDE DEF grown
  <2>3. StoreBar' = [StoreBar EXCEPT ![u] = [metadata |-> found.metadata,
                                            documents |-> found.documents \o b]]
    BY <1>7 DEF grown
  <2> QED BY <1>3, <2>1, <2>2, <2>3
<1> QED BY <1>1, <1>3, <1>9, <1>10 DEF Store!StoreIngest, Uid, Batch

-----------------------------------------------------------------------------
LEMMA InitRefines == Init => Store!StoreInit
<1> SUFFICES ASSUME Init PROVE Store!StoreInit
  OBVIOUS
<1>1. StoreBar = [uid \in Uids |-> NoIndex]
  BY DEF Init, StoreBar
<1>2. CallBar = [w \in Workers |-> [phase |-> "idle", request |-> NoRequest,
                                    answer |-> NoAnswer]]
  BY DEF Init, CallBar
<1> QED BY <1>1, <1>2 DEF Init, Store!StoreInit

LEMMA NextRefines ==
    ASSUME ~MayFail, TypeInv, IndexInv, [Next]_vars
    PROVE  [Store!StoreNext]_(Store!storeVars)
<1>1. Grows
  BY NextGrows
<1>2. ASSUME NEW w \in Workers, Receive(w)
      PROVE  Store!StoreNext
  BY <1>1, <1>2, ReceiveRefines DEF Store!StoreNext
<1>3. ASSUME NEW w \in Workers, Add(w) \/ EmplaceIndex(w) \/ Respond(w)
      PROVE  Store!StoreNext
  BY <1>1, <1>3, AddRefines, EmplaceRefines, RespondRefines
     DEF Store!StoreNext, Store!StoreStep
<1>4. ASSUME NEW w \in Workers, \/ ReadClock(w) \/ Lock(w) \/ RecordWord(w)
                                \/ StoreSource(w) \/ FinishBatch(w)
      PROVE  UNCHANGED Store!storeVars
  BY <1>1, <1>4, ReadClockRefines, LockRefines, RecordWordRefines, StoreSourceRefines,
     FinishBatchRefines
<1>5. \A w \in Workers : ~Throw(w)
  BY DEF Throw
<1>6. ASSUME UNCHANGED vars
      PROVE  UNCHANGED Store!storeVars
  <2>1. StoreBar' = StoreBar
    BY <1>6 DEF vars, StoreBar, ToBeStored, Uid, Batch
  <2>2. CallBar' = CallBar
    BY <1>6 DEF vars, CallBar, Uid, Batch
  <2> QED BY <1>6, <2>1, <2>2 DEF vars, Store!storeVars
<1> QED BY <1>2, <1>3, <1>4, <1>5, <1>6 DEF Next, Step, Done

(* index_repository.hpp:30-33, for any number of workers, indexes, batches *)
(* and requests: without allocation failures a caller cannot tell the      *)
(* repository from one that does each call at one instant.                 *)
THEOREM RepositoryIsAtomic ==
    ASSUME ~MayFail
    PROVE  Safety => ImplementsIndexStore
<1>1. Init => TypeInv /\ IndexInv
  BY InitTypeInv, InitIndexInv
<1>2. TypeInv /\ IndexInv /\ [Next]_vars => (TypeInv /\ IndexInv)'
  BY NextTypeInv, NextIndexInv
<1>3. TypeInv /\ IndexInv /\ [Next]_vars => [Store!StoreNext]_(Store!storeVars)
  BY NextRefines
<1> QED
  BY <1>1, <1>2, <1>3, InitRefines, PTL DEF Safety, ImplementsIndexStore, Store!StoreSafety
==============================================================================
