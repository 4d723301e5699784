------------------------------ MODULE IndexPort ------------------------------
(***************************************************************************)
(* The vocabulary of the IndexRepository port                              *)
(* (src/src/application/index_repository.hpp) and of the two services that *)
(* call it: what a worker is asked, what it answers, and the metadata of   *)
(* an index.  The uid of an index is the key it is stored under.           *)
(***************************************************************************)
EXTENDS Document

CONSTANTS
    Workers,        \* the threads of the HTTP worker pool
    Uids,           \* valid index uids
    Keys,           \* primary keys a create request can name
    NoKey,          \* std::nullopt
    Batches,        \* the document batches that pass parse_document_batch
    Times,          \* readings of the wall clock
    NoIndex,        \* a uid no index is stored under
    NoRequest,      \* an idle worker's request
    NoAnswer        \* the answer of a worker that has not decided one

(* read_documents() refuses an empty batch. *)
ASSUME BatchesAssumption == Batches \subseteq Seq(Documents) \ {<<>>}

PrimaryKeys == Keys \cup {NoKey}

Metadata == [primaryKey: PrimaryKeys, createdAt: Times, updatedAt: Times]

(* What is stored under a uid, as a caller sees it. *)
StoredIndices == [metadata: Metadata, documents: Seq(Documents)]

ASSUME NoIndexAssumption == NoIndex \notin Metadata /\ NoIndex \notin StoredIndices

(* One reading of the clock stamps both fields. *)
NewMetadata(key, now) ==
    [primaryKey |-> key, createdAt |-> now, updatedAt |-> now]

CreateRequests == [op: {"create"}, uid: Uids, primaryKey: PrimaryKeys]
IngestRequests == [op: {"ingest"}, uid: Uids, batch: Batches]
Requests == CreateRequests \cup IngestRequests

ASSUME NoRequestAssumption == NoRequest \notin Requests

Created(metadata) == [status |-> "created", metadata |-> metadata]
AlreadyExists == [status |-> "exists"]
Indexed(count, key) ==
    [status |-> "indexed", indexed |-> count, primaryKey |-> key]
InternalError == [status |-> "internal"]

Answers ==
    [status: {"created"}, metadata: Metadata]
      \cup [status: {"indexed"}, indexed: Nat, primaryKey: PrimaryKeys]
      \cup {AlreadyExists, InternalError}

ASSUME NoAnswerAssumption == NoAnswer \notin Answers

Exchanges == [request: Requests, answer: Answers]
==============================================================================
