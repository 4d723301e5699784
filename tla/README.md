# A verification of leta

leta is a search server in C++23: clients create indexes and post batches of
JSON documents over HTTP, and the server keeps them in memory. This directory
holds TLA+ modules translated from `src/src/`, TLC runs that check them on
small instances, and TLAPS proofs of what matters most for every instance.

## Inventory

| Component | State | Operations | Used by |
|---|---|---|---|
| `core/exact_match_index` | `sources_` (a vector), `postings_` (term to DocIds) | `add`, `documents_containing`, `source` | repository, under its lock |
| `adapters/storage/in_memory_index_repository` | one mutex, a map uid to `StoredIndex{metadata, documents}` | `add`, `add_documents` | both services, from every worker |
| `application/index_service`, `ingest_service` | none of their own; a clock | `create_index`, `add_documents` | route handlers |
| `application/health_service` | one atomic flag | `mark_available`, `readiness` | startup thread, `GET /health` |
| `adapters/http/httplib_server` | the cpp-httplib server, worker pool, hooks | `add_route`, `bind`, `run`, `stop`, `serve_raw`; `adapt` around every handler | `main`, tests |
| `adapters/http/document_routes` | none | `parse_document_batch`, `add_documents_response` | a worker |
| `adapters/http/index_routes` | none | `parse_create_index_request`, `create_index_response` | a worker |
| `adapters/http/system_routes` | none | `GET /health` | a worker |
| `adapters/http/error_response`, `core/error` | none | code to status, type and body; library status to code | every handler and hook |
| `adapters/http/request_id` | a generator per thread | `is_acceptable_request_id`, `generate_request_id` | `adapt`, `ensure_request_id` |
| `core/whitespace_tokenizer`, `core/index_uid`, `adapters/http/content_type`, `json_string`, `json_timestamp` | none | pure functions on bytes | the above |
| `main` | the objects above, on one stack | the command line, `serve`, the exit status | the process |

### How they interact

A connection is queued for the worker pool and keeps a worker until it closes.
The worker reads a request, finds its route, and runs `adapt`: request id,
content type, then the route's handler. A handler parses the body, calls a
service, the service reads the wall clock and calls the repository, and the
repository takes its one mutex for the whole operation. An exception unwinds
out of all of it and becomes a 500 in `report_handler_exception`; the server
goes on serving.

### What is hard

* Two workers in the services at once: the clock is read before the mutex is
  taken, a create and an ingest of one uid can each be first, and
  `create_index` answers with the metadata it built before it had the lock.
* A call that fails half way. The repository allocates at almost every step
  under its mutex and rolls nothing back.
* Ids that are given out again: `add` writes postings under `sources_.size()`
  before the source is stored.
* One response, many writers: the handler, `adapt`, three hooks and the
  library each write status, body or the id header.
* Connections that outnumber workers, and `stop` racing with `run`.
* A client that times out: what it sent may be carried out before its retry,
  after it, or not at all, and the server cannot tell a retry from a request.
* Boundaries: 10 000 documents, 128 levels of nesting, 64 and 128 characters.

### What makes each component correct

* Exact-match index: a term finds exactly the stored documents that contain
  it, in insertion order, each once.
* Repository and services: one creation per uid; a batch stored whole, in its
  order, unmixed; what a client was told stays true; nothing stored changes.
* HTTP pipeline: every response carries one id, and every error a body whose
  code fits its status; the logged id is the id the client sees.
* Worker pool and lifecycle: connections are served in turn, no request is
  served before the process is ready, stopping ends every worker, and the exit
  status tells why the process ended.
* Routes: every uid has one path for its documents and comes out of it as itself.
* The whole, under clients that retry: each send is stored at most once, and an
  acknowledged one is there.
* Parsers: accept exactly the documented language, and answer the first error.

## Modules

| Module | Models | Role |
|---|---|---|
| `Document` | `core/document.hpp` | vocabulary: documents and their words |
| `ExactMatchIndex` | `core/exact_match_index` | operators on an index, and what it promises |
| `IndexPort` | the `IndexRepository` port and the services' commands | vocabulary: requests, answers, metadata |
| `IndexStore` | `application/index_repository.hpp` | abstract specification: every call atomic |
| `InMemoryIndexRepository` | both services and the in-memory repository | state machine, one action per step that can be interleaved or can throw |
| `ErrorResponse` | `core/error`, `adapters/http/error_response` | tables: code to status and type, library status to code |
| `HttpPipeline` | `adapt()` and the three hooks of `httplib_server.cpp` | state machine of one request and its response |
| `Leta` | `add_documents_response`, `create_index_response` around the services; clients and connections are external | composition: `InMemoryIndexRepository` under clients that give up and send again |
| `ServerLifecycle` | `main.cpp`, the pool, `bind`, `run`, `stop`, `health_service`, `system_routes` | state machine of the process and its connections |
| `DocumentBatch` | `document_routes.cpp`, the parse | the parse, one element a step, its descent into a document a recursive function of the depth; against the documented language |
| `CreateIndexBody` | `index_routes.cpp`, the parse | the field loop, one turn a step, against the documented language |
| `StringView` | external: `std::string_view` | positions, `npos`, `substr` and the searches |
| `WhitespaceTokenizer` | `core/whitespace_tokenizer` | the loop, against a definition by runs |
| `ContentType` | `adapters/http/content_type` | the decision on a header value, against RFC 9110's grammar |
| `RequestId` | `adapters/http/request_id` | the id of two words, against what it must tell and what the server accepts |
| `JsonString` | `adapters/http/json_string` | a quoted text, against a reader of JSON |
| `JsonTimestamp` | `adapters/http/json_timestamp` | an instant's text, against a reader of RFC 3339 |
| `Routing` | `to_library_pattern`, `path_parameters_of`, `path_parameter`, `core/index_uid` | a path's route and the uid its handler reads |
| `DocumentSource` | `without_trailing_whitespace` in `document_routes.cpp` | the bytes kept of a document |
| `Conversions` | | one call of any of the seven functions on characters |
| `InMemoryIndexRepositoryProofs` | | theorems on the index, the repository and its refinement of `IndexStore` |
| `LetaProofs`, `HttpPipelineProofs`, `ServerLifecycleProofs`, `DocumentBatchProofs`, `CreateIndexBodyProofs`, `ConversionsProofs` | | theorems on the module of the name |
| `InductionTheorems` | | lemmas: induction over the numbers and over texts, and that a loop's recursion has a solution |
| `MC*` | | instances for TLC: documents, batches and bodies |

`InMemoryIndexRepository` composes `ExactMatchIndex` (its `documents[uid]` is
an index) with `IndexPort`, and instantiates `IndexStore` with a refinement
mapping. `Leta` extends the repository: its workers receive what clients have
queued and answer to them. `HttpPipeline` takes its errors from `ErrorResponse`. The parsers,
the pipeline and the repository meet in one place of the code, a route handler,
where the pipeline leaves open what the handler returns (`Outcomes`), the
parsers say what reaches the service, and the repository what becomes of it.

Mutants of the code stand beside the definitions they change, each marked
`Mutant:`; nothing uses them but the mutation runs.

### State and actions, and the code

**Repository.** `metadata` and `documents` are the two members of `StoredIndex`
in the map `indexes_`, `NoIndex` where the map has no entry. `mutex` is the
holder of `mutex_`. `request`, `stamp`, `doc`, `word` and `answer` are locals of
the call a worker is in. `ReadClock` is `clock_()` in the service, which comes
before `Lock`; `Add` is the whole of `add` under the lock and what
`create_index` makes of it; `EmplaceIndex`, `RecordWord`, `StoreSource` and
`FinishBatch` are `add_documents` and `ExactMatchIndex::add` inside it, cut where
something can throw; `Throw` is the exception, at any of these places, and
`Respond` the answer. `history` is what clients have been told; it exists for
the properties and bounds the run. A document is a model value and its words
are a constant function, so the order and repetition of words are kept and
their characters are not.

**Pipeline.** `ids` is the list of `X-Request-Id` lines in the response,
because `set_header` adds and does not replace. `SetRequestId` is `adapt()` up to the
header and `Adapt` the rest of it up to the call of the handler; the handler is a
choice among the responses the three route files can build; `Throw` is the library
catching an exception, before the header, behind it or in the handler, and calling
`report_handler_exception`; `FillLibraryError` and `EnsureRequestId` are the
other two hooks, in the order the library calls them.

**Clients.** A client sends one request, `Wanted[c]`, until it is told something
other than a 500. `GiveUp` is its own timeout, which the server does not see:
the send stays in `queue` or with its worker, and can be carried out after the
next one. `LoseRequest` is a request that never comes through whole (the read timeout of
`configure_limits` among the reasons), and `Reply` writes an answer that reaches
the client or is lost. `Take`, `Work` and `Reply` are the repository's actions with
the client's side added.

**Lifecycle.** `main` is the statement `main()` or `serve()` has reached,
`arguments` what the command line says, `available` the flag of `HealthService`,
`built` how many of `serve()`'s objects exist, in the order of their declarations
(`Declared`), `ended` whether the listener was stopped or failed, and `status` what `main()`
returns. `Run` is where the library creates its threads, so it is where that can
fail, with the socket already listening. `Leave` is a `return` in `serve()` or an
exception out of it; either way `Destroy` takes the objects down one by one, the
last first, and `Finish` is `main()` handing the status on. The server's
destruction waits for its threads, as `main.cpp:62` says; that `run()` has waited
for them before, which the library may do, is not assumed, because the port does not
promise it and `serve()` does not rely on it. `backlog` (kernel), `queue` (library)
and `serving` are where a connection waits; `phase` is what its thread does with it.

**Parsers.** simdjson hands the code a cursor over a document that it validates
as it goes; a value is a tree whose nodes may be broken (`ok = FALSE`), and a
broken node is an error only when the code gets to it. The reference
definitions (`AcceptsExactlyBatches` and its like) speak of the whole tree.

**Routes.** A path is a sequence of ASCII codes. `ToLibraryPattern` is the loop
over its characters; the library's matching by segments is external. The handler of
the document route reads its parameter by name and refuses what is no uid.

**Texts.** Positions are those of `std::string_view`, with `npos` a number like
any other; characters are `char`, which is signed; `std::chrono` is the
Gregorian calendar. `RequestId` is why `HttpPipeline` may assume that generated
ids are among the acceptable ones.

### External code

cpp-httplib, simdjson and the kernel are not under `src/src/`. They are modelled
from how the code uses them: which hook is called when, that an exception
from a handler reaches the exception hook, that accepted connections form an
unbounded FIFO queue and that a thread keeps a connection, that a socket which
listens keeps connections for a later `accept`, and that reading a broken value
yields an error.

## What each run checks

All bounds are constants of the configurations.

| Run | Instance | Checks |
|---|---|---|
| `repository_core` | 3 workers, 2 uids, 3 requests, batches `<<d1, d2>>` and `<<d1>>`, nothing fails; workers symmetric | `InvNoFailure`; that a term finds exactly the documents that contain it; one creation per uid; answers stay true; `ImplementsIndexStore` |
| `repository_failing` | 2 workers, 1 uid, 3 requests, an exception possible at every place | what survives failures: `Inv`, and with it one creation per uid and true answers; postings strictly ascending; acknowledged batches whole, in order and apart; nothing stored changes |
| `repository_live` | the same without primary keys and with one clock value | every request is answered, so the mutex is given back on every path |
| `failed_ingest_matches` | 2 workers, batches without common words, exceptions | violated: see Findings |
| `failed_ingest_atomic` | the same | violated: see Findings |
| `pipeline` | an id to echo, an absent and a forged one, two fresh ids, five library statuses; an exception in `adapt` or in the handler | one id; the handler's id is the client's, and what it throws is logged under it; error bodies fit; hooks leave the handler's answer; codes mean what they say |
| `unlogged_id` | the same | violated: see Findings |
| `lifecycle` | 2 threads and every pool of them, none included, 3 connections, 2 requests on each | `Inv`: each connection in one place; health never answers `starting`; what a route reaches lives as long as a thread may be in it, whichever way `serve()` is left; the exit status tells why the process ended; backlog and queue are served; after `stop` the process ends, whatever connections are open |
| `clients` | one client ingests a batch of two documents and one creates an index, up to twice each; 2 workers, requests and answers lost, exceptions anywhere | each send is stored at most once, once if it was acknowledged; a client told 409 after its own lost 201 has the index it asked for |
| `batch` | documents of every shape two entries wide and some deeper, batches of up to 3 elements, at limits of 2 documents and 2 levels | accepts exactly the documented language; the searchable texts are the top-level strings in order; the first fault is the one reported |
| `create_body` | bodies of up to 3 fields, repeated, unknown, broken and of each type | `Inv`; accepts exactly the documented language; the command says what was sent; the first bad field is the one reported |
| `conversions` | documents of up to 5 characters over 4; header values of up to 5 over 7, a media type of a letter and a slash; two words of 3 digits, 12 values each; quoted texts of up to 3 characters over 17; 140 instants in the years 0 to 9999, with a day of 606 units; paths of up to 4 segments out of 10, with and without the slash in front; slices of up to 5 characters | the words are the maximal runs; accepted is exactly what the grammar calls JSON; an id tells its words and the server would accept it; a quoted text reads back as itself and has no other end; an instant's text is RFC 3339's and reads back as the instant; every uid has one path and comes out of it, and no other path reaches a handler with a uid; a document's source is what was sent less whitespace |

### Why the bounds are enough

* *Repository.* The races are between two calls on one uid: create against
  create, create against ingest, ingest against ingest. Three requests let a third
  call observe what two left behind, three workers let all of them be in
  flight, and two uids show that they do not touch each other. `d1` repeats a word
  after another one (`record` compares with the last posting only), `d2` shares
  a word with it, and `d3`, in the batches of the two failing-ingest runs, has none. Two clock
  values include one that goes back.
  In `repository_core` three batches of two documents give out every id there is
  (`DocIdModulus = MaxDocuments = 6`); in the other runs the bound is not reached.
  For every other value there are the proofs.
* *Clients.* Two sends of each client are a request and its retry. With two workers
  both can be in the repository at once, in either order, and with the other
  client's between them; a third send would meet nothing that the second does not. The
  batch is not shared, so its copies can be counted.
* *Pipeline.* The path of one request has no loop and shares nothing with another
  request, so the instance lacks nothing but more statuses and ids, and these
  the proofs cover.
* *Lifecycle.* Three connections over two threads is one more than the pool,
  and over one thread a queue of two; a request after the first
  takes the keep-alive way round.
* *Conversions.* The seventeen characters hold one of each kind the code tells apart
  and every letter that an escape could be confused with; an escape is one character's,
  so three show it with neighbours. A digit's place is what a request id's loop
  depends on, and three places have a first, a middle and a last. The units of
  a day are scaled so that an instant of the year 9999 fits TLC's 32 bits; the
  code divides by them and pads, at widths that are kept. Five characters hold
  two words with whitespace before, between and after them, or the media type
  with parameters and two blanks. Four segments are one more than any route has;
  the ten segments hold each word of the routes, uids at the limit (2 characters
  for 64) and past it, no text, a character no uid has, and the parameter's own
  two spellings. `npos` (255 in the model, the largest value
  of the type in the code) is past any text.
* *Parsers.* The limits, 10 000 documents and 128 levels in the code, are set to 2
  so that both sides of each are in the instance; the code compares with them
  and does nothing else with them. A body of three fields has both fields and a
  repetition of one, in every order.

Deadlock is checked except in the runs of the parsers and conversions, which end
with the call.
In the other models the states in which nothing is left to do have a stuttering
step of their own (`Done`, `Rest`).

### Fairness

*Repository.* Weak fairness of each worker's own steps: a runnable thread runs.
Nothing is assumed of who gets the mutex. `EveryRequestAnswered` holds because the bound on
requests ends the arrivals; with unbounded arrivals a `std::mutex`, which
promises no fairness, could pass a waiting worker over for ever, and the
property makes no claim about that. `Receive` and `Throw` are not fair.

*Lifecycle.* Weak fairness of what `main()` and `serve()` do next, the destruction of
its objects included, of accepting, and of each thread's taking
and handling; and of its timeouts, which `configure_limits` sets for reading,
writing and keep-alive. Nothing is assumed of clients: they may fall silent at
any moment. A client that keeps sending keeps its thread, in the code as in
the model, where `MaxExchanges` bounds what it sends; that a connection beyond
the pool is served in time is therefore a statement about clients that stop
sending, and ADR-003 names the exception ("the pool-plus-keep-alive interaction is a
footgun"). Nobody
has to stop the server.

## What is proved

`tlapm` checks every step; no statement is left without a proof. Every safety
property of the passing runs is a theorem. The
assumptions are the named `ASSUME`s of the modules. Most say what the model's parameters
are: that the markers (`NoIndex`, `NoWorker`, `NoId`, ...) are not values, that
switches are Booleans, that a value of JSON is one of the kinds (`ValuesAssumption`) and a
body a sequence of them (`BodiesAssumption`), that letters have one upper case each
(`LettersAssumption`, `MediaTypeAssumption`). Five have content:
`MaxDocumentsAssumption`, the comment of `exact_match_index.cpp:19` that no index reaches
2^32 documents; `InputsAssumption`, that no text is longer than `npos` and that a word fits
its digits, which the types of the code give, and that the clock reads a year from 0 to 9999
(`WritableInstants`), the precondition of `json_timestamp.hpp:14`; `UnitsAssumption`, that the units of a
day fit the two digits, and the milliseconds the three, that the code gives them;
`RoutingAssumption`, that of the routes only the documents' one has braces or a
colon in its path, one segment `{uid}` between two slashes, as the calls of `add_route` say; and
`PoolAssumption`, that the workers are finitely many.

**The index.** The first part of `InMemoryIndexRepositoryProofs` has lemmas on `Record` and `PushSource`:
recording an id that is the last one or above it keeps a posting list strictly
ascending, adds that id to one term and nothing to the others; storing a source
makes exact an index that was exact but for the next id.

**The repository.** `Inv` is inductive, allocation failures included. It adds to
the types what a call's locals hold at each place (`CallsOK`), who is inside the
critical section (`MutexOK`), that an absent index is empty (`AbsentOK`), that
an index's ids go up to one beyond its documents (`PostingsOK`: an unfinished or failed
`add` has recorded that one), that decided answers and given ones are true of
the store (`AnswersOK`) and that among them each uid is created once
(`CreationsOK`). The last two are needed in this form because an answer is
decided under the lock and given after it: a property of `history` alone is not
inductive. `InvNoFailure` adds `IngestOK`, exactness at every step of an unfinished
`add`, where the current document is found by the words recorded so far; it holds when
`MayFail` is false and the finding below is why it must be. From these follow `TypeCorrect`,
`InvHolds`, `PostingsAlwaysAscending`, `StoreOnlyGrows`, `CreatesOnce`,
`AnswersStayTrue` and, for `~MayFail`, `InvNoFailureHolds` and `FindsExactly`, for
every number of workers, uids, documents and requests.

**Batches.** `BatchesOK` gives every batch that was acknowledged, and every one whose worker
is about to acknowledge it, a place in its index: an interval of `sources` that holds the batch,
disjoint from the others; what the worker inside has stored so far of its own is an interval that ends the
sequence. `AcknowledgedBatchesStored` speaks of the first kind only and is not
inductive: an interval comes about document by document, and is acknowledged after the mutex is
given back, when other batches may have been stored behind it. `BatchesKeepTheirPlaces` proves the invariant,
failures included, and `AcknowledgedStayStored` the property.

**The refinement.** `RepositoryIsAtomic`: for `~MayFail`
the repository implements `IndexStore`. The mapping shows a batch as stored from the
moment its index is looked up: what the worker has yet to store (`ToBeStored`) is
appended to the index, and its answer counts as decided. So `Add` and `EmplaceIndex`
are the abstract calls, each document stored moves from the batch to the index
(`MoveOne`) and maps to a stutter, and so do the clock and the lock. It needs `MutexOK`
of `Inv`, one worker inside at a time: otherwise two batches would be shown at the
end of one index.

**Clients.** `LetaSafety`: the whole takes only steps of the repository, so that its theorems
hold under clients too. `RetriesFindTheirOwn` and `SendsStoredOnce` are for any number
of clients, workers, sends and losses. Behind them: a worker that is busy runs the request of
the client it serves (`SendsOK`), an index has the key that some client of its uid asked for
(`OriginOK`), and what a client was told stays true and answers its kind of request (`ToldOK`). `CopiesOK`
bounds the copies of a document from both sides at every moment, not only when the mutex is
free: there are at least those of the sends carried out and what the worker inside has stored
so far, and these, what that worker has left to store and one for each send still queued or on its way make
up no more than the sends. Without the last two terms a step that stores a document could
break the bound.

**The pipeline.** `Inv` of `HttpPipeline` says at each place which of the four
writers made the response (library, `adapt`, handler, exception hook) and
whether the id is there. From it follow `EveryResponseHasOneId`,
`HandlersKnowTheId`, `HandlersLogged`, `EveryErrorIsExplained`,
`HandlersAnswersStand` and `CodesMeanTheirCause`, for any set of library
statuses from 400 on.

**The lifecycle.** `Inv` of `ServerLifecycle` says that each connection is in one
place (`OnePlaceEach`: in the backlog, in the queue or with one thread, once) and what
main() has done where it is (`ProcessOK`). That nobody is told `starting` needs the first: a thread
that handles a request is one the listener gave a connection, after the mark. That routes
reach live objects needs both: a connection that waits or is served keeps the server alive
(`~Idle` in `ProcessOK`), and the server is declared last. From
it follow `NobodyIsToldStarting`, `RoutesReachLiveObjects` and
`ExitStatusIsTheContract`, for every pool and number of connections.

**The create request.** `Inv` of `CreateIndexBody` says that the fields read so far are
without fault and that `CreateIndexFields` holds what they said (`ReadOK`), and why a parse ended
where it did (`EndedOK`). `AcceptedExactly`, `CommandIsWhatWasSent` and
`FirstFaultReported` follow for bodies of any length.

**The batch.** `Inv` of `DocumentBatch` says that the documents read are the first elements of
the body and all storable (`ReadSoFar`), and that a refusal is about the first of the body's faults, in the
order in which the code looks for them (`Faults`, `Concluded`). The rest is about the descent: that
`ValidateValue` finds no error in a value exactly if it is well formed and no deeper
than what is left of the limit, by induction on the depth, and that the field pass gathers the
top-level strings, by induction on the fields. `BatchesAreAccepted`, `TextsAreTheStrings`
and `FaultsAreTheFirst` hold for every limit, values of any shape and bodies of any length.

**Texts.** In `Conversions` a call takes one step; the proofs are about the functions.
`WordsAreRuns` follows the loop of `split_on_whitespace`: behind each turn (`SoFar`) the words are the runs that
begin before the position, which is itself the beginning of a run or `npos`, and as each turn
moves it the loop has ended after as many turns as there are characters.
`ExactlyJsonIsAccepted` takes the decision apart into what `TrimWhitespace` cuts, where the
semicolon is and what two texts equal but for case are. `IdsTellTheWords` shows that the digits
before position n are the word shifted right (`WordReadsBack`), by induction on n; `QuotedTextsReadBack`
that the reader, n characters on, is behind what n characters were written as (`ReadsNext`). With
`SourcesAreTheObjects` they hold for texts of any length and words of any width.

**Paths.** `PathsNameTheIndex` follows a path through both loops it meets. Segments are
opened by slashes and by nothing else, so a text around one segment splits around it (`SegmentsAround`), and
two texts with the same segments are the same (`SegmentsTell`, by induction over texts from behind,
`TextInduction`). So the segments of the library's pattern are those of the route's path with
`:uid` in the place of `{uid}` (`PatternParts`): a plain route matches its own path only (`PlainMatches`), and
the documents' one matches exactly the texts without a slash between its two halves
(`ParameterMatches`), each in one way (`CutTwice`). What the handler reads is then that text (`BoundUid`).

**Instants.** `InstantsReadBack` has three parts. *The date* (`DateCounts`): the days before a
year grow with the year, so each day has one year, and the bounds of 365 and 366 days a year
put it where the model looks for it; the days before a month are a table of twelve; and
the closed form for leap years agrees with counting them one by one (`LeapYearsCounted`, by
induction on the years). *The time* (`InstantApart`): what the divisions by the units of a
day take apart adds up again, on either side of 1970, because rounding is downwards; with a product of
unknown units this is a chain of small facts on wholes and rests (`Divided`, `WholesBetween`). *The text*:
a number below 10 000 has the digits of its places (`DecimalIs`), padded in front
(`TwoDigits`, ...), each field stands where RFC 3339 has it, whatever the others are (`LaidOutIs`), and a reader of these
places gets the number back (`FieldsRead`).

**Recursion.** The modules write loops and descents as recursive functions. That such a
definition has a solution is not given: `f[n \in S] == e` is a `CHOOSE`. `Iteration` of `InductionTheorems` says so
once for a step function, and `LoopExists` for a loop over a text, from induction over the numbers in
a form (`Induction`) that takes a set and not a predicate; each proof about a loop instantiates one of them and
unfolds its own definition once. `LoopTurns` says that a loop over one more character is the loop
before and one more turn.

**Model-checked only.** Liveness (`EveryRequestAnswered`, `BacklogIsServed`,
`EveryAcceptedConnectionServed`, `StopMakesRunReturn`), which is out of the prover's reach, and that the
three findings' properties are violated, which is what their runs show.

## Findings

* `failed_ingest_matches`. `ExactMatchIndex::add` writes postings under
  `sources_.size()` before it stores the source. When an allocation fails in
  between, the postings stay and the next document gets that id:
  `documents_containing` then returns a document that does not contain the term,
  against `exact_match_index.hpp:31`. No route searches yet, so nothing shows it.
* `failed_ingest_atomic`. `index_repository.hpp:32` calls lookup, creation and
  insertion one atomic step. They are one step for other threads, but not when
  an exception ends it: the index and the first documents stay, and the client is answered 500.
* `unlogged_id`. `02-api-guide.md:185` says the details of a 500 are found in the
  log by `X-Request-Id`. An exception before `adapt` has set the header is logged
  with an empty id. The client is sent an id all the same, its own or a generated one, and
  finds nothing under it.

## Not modelled

* `serve_raw` and its in-memory stream: a way into the same pipeline for tests.
* `stop` before `run` has begun to accept: the library ignores it, the port does
  not speak of it, and `main` never calls `stop`.
* The JSON of answers, the text of messages, the log's layout, what is printed
  and the build information: formatting without state. What such a body is put
  together from, quoted texts and instants, is in `JsonString` and `JsonTimestamp`.
* The engine that draws request ids: whether two threads are seeded alike is a
  matter of probability.
* `tl::expected`: third-party.

## Plan

Done, in this order: the store and its abstract specification, with its proofs;
the HTTP pipeline, with its proofs; the lifecycle; the parsers; the tokenizer and
the other conversions; clients that retry; routes and uids; the proofs of the refinement,
of the lifecycle, of the create request, of the batches and the clients' copies, of the documents'
parse and of the seven conversions.

Next, the model: what remains under "Not modelled" has no state, or is the library's.
When search (M1-T4), replacing by key (FR-11) and recovery (M7) arrive, each changes a
module here: `documents_containing` gets a reader beside the writers, `OneCopyPerSend` becomes
one copy for all sends, and the store gets a crash.

Next, the proofs: every safety property and the refinement are proved. What a later change
of the code adds starts with its model and its runs; the invariants above say which
conjunct it would disturb.
