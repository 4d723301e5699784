-------------------------------- MODULE Leta ---------------------------------
(***************************************************************************)
(* leta and its clients: requests that reach the worker pool's queue,      *)
(* workers that take them to the services and back (document_routes.cpp,   *)
(* index_routes.cpp, over InMemoryIndexRepository), and clients that wait  *)
(* for an answer, give up waiting, and send the same request again.        *)
(*                                                                         *)
(* Nothing in a request names an earlier one: the server cannot tell a     *)
(* repetition, nor that the client behind a request has gone.              *)
(*                                                                         *)
(* External: the clients, and the connections on which a request or an     *)
(* answer can be lost.                                                     *)
(***************************************************************************)
EXTENDS InMemoryIndexRepository, Functions

CONSTANTS
    Clients,
    Wanted,         \* Wanted[c]: the request c sends until it is answered
    NoSend,         \* an idle worker's send
    MaxSends        \* bound: how often a client sends its request

ASSUME ClientsAssumption ==
    /\ Wanted \in [Clients -> Requests]
    /\ MaxSends \in Nat
    /\ NoSend \notin Clients \X Nat

(* The pool is a finite number of threads. *)
ASSUME PoolAssumption == IsFiniteSet(Workers)

VARIABLES
    sends,      \* sends[c]: how often client c has sent its request
    waiting,    \* waiting[c]: whether c waits for the answer to the last send
    told,       \* told[c]: the last answer that reached c
    queue,      \* sends that arrived and that no worker has taken
    serving     \* serving[w]: the send worker w has taken

clientVars == <<sends, waiting, told, queue, serving>>

LetaInit ==
    /\ Init
    /\ sends = [c \in Clients |-> 0]
    /\ waiting = [c \in Clients |-> FALSE]
    /\ told = [c \in Clients |-> NoAnswer]
    /\ queue = <<>>
    /\ serving = [w \in Workers |-> NoSend]

(* A client sends, and again after a 500 or after giving up.               *)
Send(c) ==
    /\ ~waiting[c]
    /\ told[c] \in {NoAnswer, InternalError}
    /\ sends[c] < MaxSends
    /\ sends' = [sends EXCEPT ![c] = @ + 1]
    /\ waiting' = [waiting EXCEPT ![c] = TRUE]
    /\ queue' = Append(queue, <<c, sends'[c]>>)
    /\ UNCHANGED <<vars, told, serving>>

(* The client's own timeout.  What it sent stays where it is. *)
GiveUp(c) ==
    /\ waiting[c]
    /\ waiting' = [waiting EXCEPT ![c] = FALSE]
    /\ UNCHANGED <<vars, sends, told, queue, serving>>

(* The request does not come through whole: the connection broke, or the   *)
(* read timed out (configure_limits).                                      *)
LoseRequest ==
    /\ queue # <<>>
    /\ queue' = Tail(queue)
    /\ UNCHANGED <<vars, sends, waiting, told, serving>>

(* Mutant: two workers look at the queue before either takes from it. *)
TakeShared(w) ==
    /\ queue # <<>>
    /\ Receive(w)
    /\ request'[w] = Wanted[Head(queue)[1]]
    /\ serving' = [serving EXCEPT ![w] = Head(queue)]
    /\ queue' \in {queue, Tail(queue)}
    /\ UNCHANGED <<sends, waiting, told>>

(* A worker reads the request that waits longest and calls its handler.    *)
Take(w) ==
    /\ queue # <<>>
    /\ Receive(w)
    /\ request'[w] = Wanted[Head(queue)[1]]
    /\ serving' = [serving EXCEPT ![w] = Head(queue)]
    /\ queue' = Tail(queue)
    /\ UNCHANGED <<sends, waiting, told>>

Work(w) ==
    /\ \/ ReadClock(w) \/ Lock(w) \/ Add(w) \/ EmplaceIndex(w) \/ RecordWord(w)
       \/ StoreSource(w) \/ FinishBatch(w) \/ Throw(w)
    /\ UNCHANGED clientVars

(* The response is written: it reaches the client if that still waits for  *)
(* it and the connection holds, and nobody otherwise.                      *)
Reply(w) ==
    LET c == serving[w][1] IN
    /\ Respond(w)
    /\ serving' = [serving EXCEPT ![w] = NoSend]
    /\ \/ /\ waiting[c] /\ serving[w][2] = sends[c]
          /\ told' = [told EXCEPT ![c] = answer[w]]
          /\ waiting' = [waiting EXCEPT ![c] = FALSE]
       \/ UNCHANGED <<told, waiting>>
    /\ UNCHANGED <<sends, queue>>

(* Nobody sends any more, and everything sent was served or lost. *)
Quiet ==
    /\ queue = <<>> /\ InFlight = {}
    /\ \A c \in Clients : ~waiting[c]
    /\ UNCHANGED <<vars, clientVars>>

LetaNext ==
    \/ \E c \in Clients : Send(c) \/ GiveUp(c)
    \/ LoseRequest
    \/ \E w \in Workers : Take(w) \/ Work(w) \/ Reply(w)
    \/ Quiet

LetaSpec == LetaInit /\ [][LetaNext]_<<vars, clientVars>>

-----------------------------------------------------------------------------
Ingesting == {c \in Clients : Wanted[c].op = "ingest"}
Creating == {c \in Clients : Wanted[c].op = "create"}
Others(c) == {other \in Clients \ {c} : Wanted[other].uid = Wanted[c].uid}

(* The documents only c sends to its index, and where they are stored.     *)
Sent(c) == Range(Wanted[c].batch)
Own(c) == Sent(c) \ UNION {Sent(other) : other \in Others(c) \cap Ingesting}
In(sequence, d) == Cardinality({i \in DOMAIN sequence : sequence[i] = d})
Copies(c, d) == In(documents[Wanted[c].uid].sources, d)

(* The sends of c that the service carried out, answered or about to be.   *)
Acknowledged(c) ==
    {i \in DOMAIN history : history[i].request = Wanted[c] /\ Indexes(history[i].answer)}
Finished(c) == {w \in Workers : request[w] = Wanted[c] /\ Indexes(answer[w])}
CarriedOut(c) == Cardinality(Acknowledged(c)) + Cardinality(Finished(c))

(* document_routes.cpp, from the client's side of a timeout: each send is  *)
(* stored once if it was carried out and at most once otherwise, given up  *)
(* or not, served before the next send or after it.  So a client told 200  *)
(* finds its documents, a client that sent once finds them once, and one   *)
(* that sent again finds up to a copy for each send: nothing recognises a  *)
(* repetition (FR-11 is to).                                               *)
OneCopyPerSend ==
    mutex = NoWorker =>
        \A c \in Ingesting : \A d \in Own(c) :
            LET once == In(Wanted[c].batch, d) IN
            /\ CarriedOut(c) * once <= Copies(c, d)
            /\ Copies(c, d) <= sends[c] * once
            /\ Indexes(told[c]) => Copies(c, d) >= once
            /\ ~MayFail => Copies(c, d) = CarriedOut(c) * once

(* index_routes.cpp: a client that is alone with its uid and is told 409,  *)
(* because an earlier send of its own came through, has the index it asked *)
(* for; and a 201 it is told is of the index that is stored.               *)
RetriedCreateIsOwn ==
    \A c \in Creating :
        LET stored == metadata[Wanted[c].uid] IN
        Others(c) = {} /\ told[c] \notin {NoAnswer, InternalError} =>
            /\ stored # NoIndex
            /\ stored.primaryKey = Wanted[c].primaryKey
            /\ told[c] \in {Created(stored), AlreadyExists}

-----------------------------------------------------------------------------
(* The inductive invariants behind the two.                                *)

(* A worker that is busy runs the request of the client it serves. *)
SendsOK ==
    /\ sends \in [Clients -> Nat]
    /\ waiting \in [Clients -> BOOLEAN]
    /\ told \in [Clients -> Answers \cup {NoAnswer}]
    /\ queue \in Seq(Clients \X Nat)
    /\ serving \in [Workers -> (Clients \X Nat) \cup {NoSend}]
    /\ \A w \in Workers : pc[w] # "idle" =>
          serving[w] # NoSend /\ request[w] = Wanted[serving[w][1]]

(* An index has the key some client asked for, or none if an ingest made   *)
(* it.                                                                     *)
KeyWanted(c) == IF Wanted[c].op = "create" THEN Wanted[c].primaryKey ELSE NoKey

OriginOK ==
    \A uid \in Uids : metadata[uid] # NoIndex =>
        \E c \in Clients :
            Wanted[c].uid = uid /\ metadata[uid].primaryKey = KeyWanted(c)

(* What a client was told stays true, and answers its kind of request.     *)
ToldOK ==
    \A c \in Clients : told[c] # NoAnswer =>
        /\ Reports(Wanted[c], told[c])
        /\ Indexes(told[c]) => Wanted[c].op = "ingest"

(* The sends of c that are still to be carried out, and the documents of   *)
(* the one that is being stored which are stored already.                  *)
Queued(c) == {i \in DOMAIN queue : queue[i][1] = c}
Coming(c) ==
    {w \in Workers : pc[w] \in {"clock", "lock", "emplace"} /\ request[w] = Wanted[c]}
Due(c) == Cardinality(Queued(c)) + Cardinality(Coming(c))
Storing(c) ==
    mutex # NoWorker /\ pc[mutex] = "ingest" /\ request[mutex] = Wanted[c]
InFirst(n, sequence, d) == Cardinality({i \in 1 .. n : sequence[i] = d})
Once(c, d) == In(Wanted[c].batch, d)
Sofar(c, d) ==
    IF Storing(c) THEN InFirst(doc[mutex] - 1, Wanted[c].batch, d) ELSE 0
Rest(c, d) == IF Storing(c) THEN Once(c, d) - Sofar(c, d) ELSE 0

(* OneCopyPerSend at every moment: the send being stored has brought the   *)
(* copies among its first documents and will bring the rest.               *)
Balanced(c, d) ==
    /\ CarriedOut(c) * Once(c, d) + Sofar(c, d) <= Copies(c, d)
    /\ Copies(c, d) + Rest(c, d) + Due(c) * Once(c, d) <= sends[c] * Once(c, d)
    /\ Indexes(told[c]) => Once(c, d) <= Copies(c, d)
    /\ ~MayFail => Copies(c, d) = CarriedOut(c) * Once(c, d) + Sofar(c, d)

CopiesOK == \A c \in Ingesting : \A d \in Own(c) : Balanced(c, d)
==============================================================================
