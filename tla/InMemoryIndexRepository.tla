----------------------- MODULE InMemoryIndexRepository -----------------------
(***************************************************************************)
(* The workers of the HTTP pool calling IndexService::create_index and     *)
(* IngestService::add_documents, and both of those calling                 *)
(* InMemoryIndexRepository: one mutex over a map from uid to               *)
(* StoredIndex{metadata, documents}.                                       *)
(*   src/src/application/{index_service,ingest_service}.cpp                *)
(*   src/src/adapters/storage/in_memory_index_repository.{hpp,cpp}         *)
(*                                                                         *)
(* The clock is read before the mutex is taken.  Under the mutex an        *)
(* ingest is as many steps as the code has places where it can throw: the  *)
(* emplace, each recorded word, each stored source, the copy of the        *)
(* metadata.  Throw is an allocation failure at any of them: the lock is   *)
(* released by unwinding, what was written stays, and the request is       *)
(* answered 500 (httplib_server.cpp, report_handler_exception).            *)
(***************************************************************************)
EXTENDS IndexPort, ExactMatchIndex, FiniteSets

CONSTANTS
    NoWorker,       \* the mutex is free
    NoStamp,        \* the clock has not been read yet
    MayFail,        \* whether an allocation can fail
    MaxRequests,    \* bound: requests the workers receive in all
    MaxDocuments    \* bound: documents in one index, within the host's memory

ASSUME NoWorkerAssumption == NoWorker \notin Workers
ASSUME MayFailAssumption == MayFail \in BOOLEAN

(* "2^32 documents is far past what NFR-04's memory allows on one host."   *)
(* (exact_match_index.cpp:19)                                              *)
ASSUME MaxDocumentsAssumption ==
    MaxDocuments \in Nat /\ MaxDocuments <= DocIdModulus

VARIABLES
    mutex,      \* mutex_: the worker that holds it
    metadata,   \* indexes_[uid].metadata; NoIndex where the map has no entry
    documents,  \* indexes_[uid].documents
    pc,         \* pc[w]: where worker w is
    request,    \* request[w]: the command worker w runs
    stamp,      \* stamp[w]: `now`, its reading of the clock
    doc,        \* doc[w]: position in the batch of the document being added
    word,       \* word[w]: position in that document of the next word
    answer,     \* answer[w]: the result, once decided
    history     \* the completed exchanges, in the order they completed

guarded == <<metadata, documents>>
vars == <<mutex, metadata, documents, pc, request, stamp, doc, word, answer,
          history>>

Places == {"idle", "clock", "lock", "add", "emplace", "ingest", "answer"}

Init ==
    /\ mutex = NoWorker
    /\ metadata = [uid \in Uids |-> NoIndex]
    /\ documents = [uid \in Uids |-> EmptyIndex]
    /\ pc = [w \in Workers |-> "idle"]
    /\ request = [w \in Workers |-> NoRequest]
    /\ stamp = [w \in Workers |-> NoStamp]
    /\ doc = [w \in Workers |-> 1]
    /\ word = [w \in Workers |-> 1]
    /\ answer = [w \in Workers |-> NoAnswer]
    /\ history = <<>>

Uid(w) == request[w].uid
Batch(w) == request[w].batch
CurrentDocument(w) == Batch(w)[doc[w]]
CurrentWords(w) == WordsIn[CurrentDocument(w)]
BatchDone(w) == doc[w] > Len(Batch(w))
(* Mutant: the word loop ends one word early. *)
LastWordReached(w) == word[w] >= Len(CurrentWords(w))

WordsDone(w) == word[w] > Len(CurrentWords(w))

InFlight == {w \in Workers : pc[w] # "idle"}

Goto(w, place) == pc' = [pc EXCEPT ![w] = place]
Release == mutex' = NoWorker
Decide(w, result) == answer' = [answer EXCEPT ![w] = result]

(* A route handler calls create_index() or add_documents(). *)
Receive(w) ==
    /\ pc[w] = "idle"
    /\ Len(history) + Cardinality(InFlight) < MaxRequests
    /\ \E r \in Requests : request' = [request EXCEPT ![w] = r]
    /\ Goto(w, "clock")
    /\ UNCHANGED <<mutex, metadata, documents, stamp, doc, word, answer, history>>

(* const core::Timestamp now = clock_();  The wall clock can be set back,  *)
(* so a later reading need not be a later time.                            *)
ReadClock(w) ==
    /\ pc[w] = "clock"
    /\ \E now \in Times : stamp' = [stamp EXCEPT ![w] = now]
    /\ Goto(w, "lock")
    /\ UNCHANGED <<mutex, metadata, documents, request, doc, word, answer, history>>

(* Mutant: the lock is left out. *)
LockNothing(w) ==
    /\ pc[w] = "lock"
    /\ UNCHANGED mutex
    /\ Goto(w, IF request[w].op = "create" THEN "add" ELSE "emplace")
    /\ UNCHANGED <<metadata, documents, request, stamp, doc, word, answer, history>>

(* const std::scoped_lock lock{mutex_}; *)
Lock(w) ==
    /\ pc[w] = "lock"
    /\ mutex = NoWorker
    /\ mutex' = w
    /\ Goto(w, IF request[w].op = "create" THEN "add" ELSE "emplace")
    /\ UNCHANGED <<metadata, documents, request, stamp, doc, word, answer, history>>

(* Mutant: operator[] and an assignment in place of try_emplace. *)
InsertOrAssign(uid, initial) ==
    /\ metadata' = [metadata EXCEPT ![uid] = initial]
    /\ documents' = [documents EXCEPT ![uid] = EmptyIndex]

(* try_emplace: inserts {initial, {}} only where uid is free. *)
TryEmplace(uid, initial) ==
    IF metadata[uid] = NoIndex
    THEN /\ metadata' = [metadata EXCEPT ![uid] = initial]
         /\ documents' = [documents EXCEPT ![uid] = EmptyIndex]
    ELSE UNCHANGED guarded

(* Mutant: the bool of try_emplace is not looked at. *)
AddUnchecked(w) ==
    LET index == NewMetadata(request[w].primaryKey, stamp[w]) IN
    /\ pc[w] = "add"
    /\ TryEmplace(Uid(w), index)
    /\ Decide(w, Created(index))
    /\ Release
    /\ Goto(w, "answer")
    /\ UNCHANGED <<request, stamp, doc, word, history>>

(* InMemoryIndexRepository::add and what create_index makes of its result: *)
(* the index it built itself, or the repository's refusal.                 *)
Add(w) ==
    LET index == NewMetadata(request[w].primaryKey, stamp[w]) IN
    /\ pc[w] = "add"
    /\ TryEmplace(Uid(w), index)
    /\ Decide(w, IF metadata[Uid(w)] = NoIndex THEN Created(index)
                                               ELSE AlreadyExists)
    /\ Release
    /\ Goto(w, "answer")
    /\ UNCHANGED <<request, stamp, doc, word, history>>

(* Mutant: the lock covers the lookup only. *)
EmplaceAndUnlock(w) ==
    /\ pc[w] = "emplace"
    /\ TryEmplace(Uid(w), NewMetadata(NoKey, stamp[w]))
    /\ Release
    /\ doc' = [doc EXCEPT ![w] = 1]
    /\ word' = [word EXCEPT ![w] = 1]
    /\ Goto(w, "ingest")
    /\ UNCHANGED <<request, stamp, answer, history>>

(* The start of add_documents: find the index or create it. *)
EmplaceIndex(w) ==
    /\ pc[w] = "emplace"
    /\ TryEmplace(Uid(w), NewMetadata(NoKey, stamp[w]))
    /\ doc' = [doc EXCEPT ![w] = 1]
    /\ word' = [word EXCEPT ![w] = 1]
    /\ Goto(w, "ingest")
    /\ UNCHANGED <<mutex, request, stamp, answer, history>>

(* The model's bound on the size of an index.                              *)
RoomFor(uid) == DocumentCount(documents[uid]) < MaxDocuments

(* One turn of the word loop of ExactMatchIndex::add.  document_id is read *)
(* once in the code; sources_ grows only after the last word, so reading   *)
(* it at each word gives the same id.                                      *)
RecordWord(w) ==
    LET index == documents[Uid(w)] IN
    /\ pc[w] = "ingest"
    /\ ~BatchDone(w)
    /\ ~WordsDone(w)
    /\ RoomFor(Uid(w))
    /\ documents' = [documents EXCEPT ![Uid(w)] =
                       Record(index, CurrentWords(w)[word[w]], NextDocId(index))]
    /\ word' = [word EXCEPT ![w] = @ + 1]
    /\ UNCHANGED <<mutex, metadata, pc, request, stamp, doc, answer, history>>

(* sources_.push_back, and the next document of the batch. *)
StoreSource(w) ==
    /\ pc[w] = "ingest"
    /\ ~BatchDone(w)
    /\ WordsDone(w)
    /\ RoomFor(Uid(w))
    /\ documents' = [documents EXCEPT ![Uid(w)] =
                       PushSource(@, CurrentDocument(w))]
    /\ doc' = [doc EXCEPT ![w] = @ + 1]
    /\ word' = [word EXCEPT ![w] = 1]
    /\ UNCHANGED <<mutex, metadata, pc, request, stamp, answer, history>>

(* Mutant: the key of index_if_missing is reported, not the stored one. *)
FinishBatchOwnKey(w) ==
    /\ pc[w] = "ingest"
    /\ BatchDone(w)
    /\ Decide(w, Indexed(Len(Batch(w)), NoKey))
    /\ Release
    /\ Goto(w, "answer")
    /\ UNCHANGED <<metadata, documents, request, stamp, doc, word, history>>

(* return stored.metadata, and the outcome the service makes of it. *)
FinishBatch(w) ==
    /\ pc[w] = "ingest"
    /\ BatchDone(w)
    /\ Decide(w, Indexed(Len(Batch(w)), metadata[Uid(w)].primaryKey))
    /\ Release
    /\ Goto(w, "answer")
    /\ UNCHANGED <<metadata, documents, request, stamp, doc, word, history>>

(* Mutant: lock() and unlock() by hand, no unlock on the way of an exception. *)
ThrowLocked(w) ==
    /\ MayFail
    /\ pc[w] # "idle"
    /\ answer[w] # InternalError
    /\ Decide(w, InternalError)
    /\ Goto(w, "answer")
    /\ UNCHANGED <<mutex, metadata, documents, request, stamp, doc, word, history>>

(* Mutant: a rollback that erases the index the failed batch was meant for. *)
ThrowErases(w) ==
    /\ MayFail
    /\ pc[w] # "idle"
    /\ answer[w] # InternalError
    /\ mutex' = IF mutex = w THEN NoWorker ELSE mutex
    /\ IF pc[w] = "ingest"
       THEN /\ metadata' = [metadata EXCEPT ![Uid(w)] = NoIndex]
            /\ documents' = [documents EXCEPT ![Uid(w)] = EmptyIndex]
       ELSE UNCHANGED guarded
    /\ Decide(w, InternalError)
    /\ Goto(w, "answer")
    /\ UNCHANGED <<request, stamp, doc, word, history>>

(* std::bad_alloc anywhere between the command and the response.  The      *)
(* scoped_lock is released by unwinding; nothing is rolled back.           *)
Throw(w) ==
    /\ MayFail
    /\ pc[w] # "idle"
    /\ answer[w] # InternalError
    /\ mutex' = IF mutex = w THEN NoWorker ELSE mutex
    /\ Decide(w, InternalError)
    /\ Goto(w, "answer")
    /\ UNCHANGED <<metadata, documents, request, stamp, doc, word, history>>

(* The response leaves, the locals of the call die with it. *)
Respond(w) ==
    /\ pc[w] = "answer"
    /\ history' = Append(history, [request |-> request[w], answer |-> answer[w]])
    /\ request' = [request EXCEPT ![w] = NoRequest]
    /\ stamp' = [stamp EXCEPT ![w] = NoStamp]
    /\ doc' = [doc EXCEPT ![w] = 1]
    /\ word' = [word EXCEPT ![w] = 1]
    /\ answer' = [answer EXCEPT ![w] = NoAnswer]
    /\ Goto(w, "idle")
    /\ UNCHANGED <<mutex, metadata, documents>>

Step(w) ==
    \/ ReadClock(w)
    \/ Lock(w)
    \/ Add(w)
    \/ EmplaceIndex(w)
    \/ RecordWord(w)
    \/ StoreSource(w)
    \/ FinishBatch(w)
    \/ Respond(w)

(* All requests answered and no more to come. *)
Done ==
    /\ Len(history) = MaxRequests
    /\ UNCHANGED vars

Next == (\E w \in Workers : Receive(w) \/ Step(w) \/ Throw(w)) \/ Done

Safety == Init /\ [][Next]_vars

(* A runnable thread runs.  Nothing is assumed of who gets the mutex.      *)
Spec == Safety /\ \A w \in Workers : WF_vars(Step(w))

-----------------------------------------------------------------------------
(* Every variable has its type, and a call's locals fit where it is. *)
TypeOK ==
    /\ mutex \in Workers \cup {NoWorker}
    /\ metadata \in [Uids -> Metadata \cup {NoIndex}]
    /\ documents \in [Uids -> ExactMatchIndices]
    /\ pc \in [Workers -> Places]
    /\ request \in [Workers -> Requests \cup {NoRequest}]
    /\ stamp \in [Workers -> Times \cup {NoStamp}]
    /\ doc \in [Workers -> Nat \ {0}]
    /\ word \in [Workers -> Nat \ {0}]
    /\ answer \in [Workers -> Answers \cup {NoAnswer}]
    /\ history \in Seq(Exchanges)

(* exact_match_index.hpp: whoever takes the mutex finds every index exact: *)
(* each word of each stored document finds it, and a term finds only       *)
(* stored documents that contain it, whatever batches were interleaved.    *)
FindableExactly ==
    mutex = NoWorker =>
        \A uid \in Uids : Complete(documents[uid]) /\ Sound(documents[uid])

(* The half of it that says what a match means, with no word on ids that   *)
(* are not stored: "the documents whose searchable text contains `term`    *)
(* exactly" (exact_match_index.hpp:31).                                    *)
MatchesContainTerm ==
    mutex = NoWorker =>
        \A uid \in Uids : \A term \in Words :
            LET found == DocumentsContaining(documents[uid], term) IN
            \A k \in DOMAIN found :
                HasSource(documents[uid], found[k]) =>
                    Contains(Source(documents[uid], found[k]), term)

(* exact_match_index.hpp:31: "in insertion order, each once", at every     *)
(* moment and whatever fails: record() compares with the last id only, and *)
(* an id is given out again after an add() that threw.                     *)
PostingsAscending == \A uid \in Uids : Ascending(documents[uid])

Answered(status) ==
    {i \in DOMAIN history : history[i].answer.status = status}

(* index_repository.hpp:25: "two concurrent creates of one uid cannot both *)
(* succeed", nor two that are not concurrent, with ingests creating the    *)
(* same uid in between.                                                    *)
CreatedOnce ==
    \A i, j \in Answered("created") :
        history[i].request.uid = history[j].request.uid => i = j

(* What a client was told stays true of the store: create_index answers    *)
(* with the index it built before the lock and not with a stored copy, and *)
(* add_documents with the key of the index the batch landed in.            *)
AnswersReportStored ==
    \A i \in DOMAIN history :
        LET uid == history[i].request.uid
            result == history[i].answer IN
        /\ result.status # "internal" => metadata[uid] # NoIndex
        /\ result.status = "created" => metadata[uid] = result.metadata
        /\ result.status = "indexed" =>
              result.primaryKey = metadata[uid].primaryKey

(* batch occupies the ids offset .. offset + Len(batch) - 1 of uid.        *)
StoredAt(uid, batch, offset) ==
    LET sources == documents[uid].sources IN
    /\ offset + Len(batch) <= Len(sources)
    /\ SubSeq(sources, offset + 1, offset + Len(batch)) = batch

(* A batch that was acknowledged is stored whole, in its order and with no *)
(* other batch's document inside it, and no two acknowledged batches share *)
(* a document: concurrent ingests into one index neither mix nor get lost. *)
AcknowledgedBatchesStored ==
    LET acknowledged == Answered("indexed")
        length(i) == Len(history[i].request.batch) IN
    \E at \in [acknowledged -> 0 .. MaxDocuments] :
        /\ \A i \in acknowledged :
              StoredAt(history[i].request.uid, history[i].request.batch, at[i])
        /\ \A i, j \in acknowledged :
              \/ i = j
              \/ history[i].request.uid # history[j].request.uid
              \/ at[i] + length(i) <= at[j]
              \/ at[j] + length(j) <= at[i]

Prefix(s, t) == Len(s) <= Len(t) /\ \A i \in DOMAIN s : s[i] = t[i]

(* A step may add an index, a source or a posting, and does nothing else   *)
(* to what is stored: no metadata changes (an ingest leaves updatedAt      *)
(* alone), no index is replaced, and ids keep their meaning.               *)
Grows ==
    \A uid \in Uids :
        /\ metadata[uid] # NoIndex => metadata'[uid] = metadata[uid]
        /\ Prefix(documents[uid].sources, documents'[uid].sources)
        /\ \A term \in Words : Prefix(documents[uid].postings[term],
                                       documents'[uid].postings[term])

OnlyGrows == [][Grows]_vars

(* A request that reached a handler is answered: no worker waits for the   *)
(* mutex for ever, an exception under it included.                         *)
EveryRequestAnswered ==
    \A w \in Workers : pc[w] = "clock" ~> pc[w] = "idle"

-----------------------------------------------------------------------------
(* The inductive invariants behind the properties above.                   *)

(* Where a worker is says what its locals hold. *)
CallsOK ==
    \A w \in Workers :
        /\ pc[w] # "idle" => request[w] \in Requests
        /\ pc[w] = "add" => request[w].op = "create"
        /\ pc[w] \in {"emplace", "ingest"} => request[w].op = "ingest"
        /\ pc[w] \in {"lock", "add", "emplace"} => stamp[w] \in Times
        /\ pc[w] = "ingest" => metadata[Uid(w)] # NoIndex
        /\ pc[w] = "answer" <=> answer[w] # NoAnswer

(* The mutex belongs to the worker inside a repository member function. *)
MutexOK ==
    \A w \in Workers : pc[w] \in {"add", "emplace", "ingest"} <=> mutex = w

(* The ids of an index are those of its documents and the next one, which  *)
(* an unfinished or failed add() may have recorded already.                *)
PostingsOK ==
    \A uid \in Uids :
        /\ Ascending(documents[uid])
        /\ IdsBelow(documents[uid], DocumentCount(documents[uid]) + 1)

(* Nothing is kept for a uid that no index is stored under.                *)
AbsentOK ==
    \A uid \in Uids : metadata[uid] = NoIndex => documents[uid] = EmptyIndex

(* What an answer says of the store, decided or already given.             *)
Reports(r, result) ==
    /\ result.status # "internal" => metadata[r.uid] # NoIndex
    /\ result.status = "created" => metadata[r.uid] = result.metadata
    /\ result.status = "indexed" => result.primaryKey = metadata[r.uid].primaryKey

AnswersOK ==
    /\ \A w \in Workers : answer[w] # NoAnswer => Reports(request[w], answer[w])
    /\ \A i \in DOMAIN history : Reports(history[i].request, history[i].answer)

Creates(w, uid) ==
    answer[w] # NoAnswer /\ answer[w].status = "created" /\ Uid(w) = uid
HasCreated(i, uid) ==
    history[i].answer.status = "created" /\ history[i].request.uid = uid

(* No two creations of one uid among the answers decided and given.    *)
CreationsOK ==
    \A uid \in Uids :
        /\ \A v, w \in Workers : Creates(v, uid) /\ Creates(w, uid) => v = w
        /\ \A w \in Workers : \A i \in DOMAIN history :
              ~(Creates(w, uid) /\ HasCreated(i, uid))
        /\ \A i, j \in DOMAIN history :
              HasCreated(i, uid) /\ HasCreated(j, uid) => i = j

(* The words of the document being added that are recorded already. *)
Recorded(uid, term) ==
    /\ mutex # NoWorker
    /\ pc[mutex] = "ingest"
    /\ Uid(mutex) = uid
    /\ ~BatchDone(mutex)
    /\ \E i \in 1 .. Len(CurrentWords(mutex)) :
          i < word[mutex] /\ CurrentWords(mutex)[i] = term

(* FindableExactly at every moment: the document being added is found by   *)
(* the words recorded so far, under the id it is about to get.             *)
IngestOK ==
    \A uid \in Uids : \A term \in Words :
        ExactUpTo(documents[uid], term, Recorded(uid, term))

(* A worker's batch is stored as far as it got, or whole.                  *)
Indexes(result) == result # NoAnswer /\ result.status = "indexed"
Stores(w) == pc[w] = "ingest" \/ Indexes(answer[w])
StoredBy(w) == IF pc[w] = "ingest" THEN doc[w] - 1 ELSE Len(Batch(w))

(* The first n documents of a batch follow the first offset ones of uid.   *)
PartAt(uid, batch, n, offset) ==
    /\ offset + n <= DocumentCount(documents[uid])
    /\ \A k \in 1 .. n : documents[uid].sources[offset + k] = batch[k]

(* Where each acknowledged batch is (at) and each batch that a worker has  *)
(* stored or is storing (here), and where it ends.                         *)
UidOf(i) == history[i].request.uid
BatchOf(i) == history[i].request.batch
GivenEnd(at, i) == at[i] + Len(BatchOf(i))
HeldEnd(here, w) == here[w] + StoredBy(w)

GivenPlaced(at) ==
    \A i \in Answered("indexed") :
        /\ history[i].request.op = "ingest"
        /\ PartAt(UidOf(i), BatchOf(i), Len(BatchOf(i)), at[i])

HeldPlaced(here) ==
    \A w \in Workers : Stores(w) =>
        /\ request[w].op = "ingest"
        /\ PartAt(Uid(w), Batch(w), StoredBy(w), here[w])

(* No batch shares a document with another ...                             *)
GivenApart(at) ==
    \A i, j \in Answered("indexed") :
        \/ i = j \/ UidOf(i) # UidOf(j)
        \/ GivenEnd(at, i) <= at[j] \/ GivenEnd(at, j) <= at[i]

HeldApart(at, here) ==
    \A w \in Workers : Stores(w) =>
        /\ \A i \in Answered("indexed") :
              \/ UidOf(i) # Uid(w)
              \/ GivenEnd(at, i) <= here[w] \/ HeldEnd(here, w) <= at[i]
        /\ \A v \in Workers : Stores(v) =>
              \/ v = w \/ Uid(v) # Uid(w)
              \/ HeldEnd(here, v) <= here[w] \/ HeldEnd(here, w) <= here[v]

(* ... and the one being stored is behind all others of its index.         *)
StoringLast(at, here) ==
    \A w \in Workers : pc[w] = "ingest" =>
        /\ doc[w] <= Len(Batch(w)) + 1
        /\ HeldEnd(here, w) = DocumentCount(documents[Uid(w)])
        /\ \A i \in Answered("indexed") :
              UidOf(i) = Uid(w) => GivenEnd(at, i) <= here[w]
        /\ \A v \in Workers : Stores(v) /\ v # w /\ Uid(v) = Uid(w) =>
              HeldEnd(here, v) <= here[w]

Placed(at, here) ==
    /\ GivenPlaced(at) /\ HeldPlaced(here)
    /\ GivenApart(at) /\ HeldApart(at, here) /\ StoringLast(at, here)

(* AcknowledgedBatchesStored, with the batches that are not acknowledged   *)
(* yet.                                                                    *)
BatchesOK ==
    /\ \A uid \in Uids : DocumentCount(documents[uid]) <= MaxDocuments
    /\ \E at \in [DOMAIN history -> 0 .. MaxDocuments],
           here \in [Workers -> 0 .. MaxDocuments] : Placed(at, here)

(* Everything that holds whether or not allocations fail ...               *)
Inv ==
    /\ TypeOK /\ CallsOK /\ MutexOK
    /\ AbsentOK /\ PostingsOK /\ AnswersOK /\ CreationsOK

(* ... and what holds when none does.                                      *)
InvNoFailure == Inv /\ IngestOK

-----------------------------------------------------------------------------
(* The repository implements IndexStore: an ingest takes effect when its   *)
(* index is found or created, the rest of the batch being as good as       *)
(* stored from there on.                                                   *)

ToBeStored(uid) ==
    IF mutex # NoWorker /\ pc[mutex] = "ingest" /\ Uid(mutex) = uid
    THEN SubSeq(Batch(mutex), doc[mutex], Len(Batch(mutex)))
    ELSE <<>>

StoreBar ==
    [uid \in Uids |->
        IF metadata[uid] = NoIndex THEN NoIndex
        ELSE [metadata |-> metadata[uid],
              documents |-> documents[uid].sources \o ToBeStored(uid)]]

CallBar ==
    [w \in Workers |->
        [phase |-> CASE pc[w] = "idle" -> "idle"
                     [] pc[w] \in {"ingest", "answer"} -> "committed"
                     [] OTHER -> "requested",
         request |-> request[w],
         answer |-> IF pc[w] = "ingest"
                    THEN Indexed(Len(Batch(w)), metadata[Uid(w)].primaryKey)
                    ELSE answer[w]]]

Store == INSTANCE IndexStore WITH store <- StoreBar, call <- CallBar

(* index_repository.hpp:30-33: "Lookup, creation and insertion are one     *)
(* atomic step".                                                           *)
ImplementsIndexStore == Store!StoreSafety
==============================================================================
