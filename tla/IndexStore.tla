----------------------------- MODULE IndexStore -----------------------------
(***************************************************************************)
(* What the IndexRepository port promises its callers                      *)
(* (src/src/application/index_repository.hpp:13-37), whatever stores the   *)
(* indexes: every call takes effect at one instant between its request and *)
(* its answer, a create succeeds for one caller only, a batch is added     *)
(* whole, and an answer reports what is stored.  A call that ends in an    *)
(* exception has either not happened at all or happened completely.        *)
(***************************************************************************)
EXTENDS IndexPort

CONSTANT MayFail    \* whether calls can end in an exception

VARIABLES
    store,      \* store[uid]: the index stored under uid
    call,       \* call[w]: what worker w is doing
    history     \* the completed exchanges, in the order they completed

storeVars == <<store, call, history>>

StoreInit ==
    /\ store = [uid \in Uids |-> NoIndex]
    /\ call = [w \in Workers |-> [phase |-> "idle", request |-> NoRequest,
                                  answer |-> NoAnswer]]
    /\ history = <<>>

Decide(w, answer) ==
    call' = [call EXCEPT ![w] = [phase |-> "committed", request |-> @.request,
                                 answer |-> answer]]

StoreReceive(w) ==
    /\ call[w].phase = "idle"
    /\ \E request \in Requests :
         call' = [call EXCEPT ![w] = [phase |-> "requested",
                                      request |-> request,
                                      answer |-> NoAnswer]]
    /\ UNCHANGED <<store, history>>

StoreCreate(w) ==
    LET request == call[w].request IN
    /\ call[w].phase = "requested"
    /\ request.op = "create"
    /\ IF store[request.uid] = NoIndex
       THEN \E now \in Times :
              LET metadata == NewMetadata(request.primaryKey, now) IN
              /\ store' = [store EXCEPT ![request.uid] =
                             [metadata |-> metadata, documents |-> <<>>]]
              /\ Decide(w, Created(metadata))
       ELSE /\ Decide(w, AlreadyExists)
            /\ UNCHANGED store
    /\ UNCHANGED history

(* "Appends `documents` to the index with index_if_missing.uid, storing    *)
(* index_if_missing first when no such index exists.  Lookup, creation and *)
(* insertion are one atomic step".                                         *)
StoreIngest(w) ==
    LET request == call[w].request
        uid == request.uid IN
    /\ call[w].phase = "requested"
    /\ request.op = "ingest"
    /\ \E now \in Times :
         LET found == IF store[uid] = NoIndex
                      THEN [metadata |-> NewMetadata(NoKey, now),
                            documents |-> <<>>]
                      ELSE store[uid] IN
         /\ store' = [store EXCEPT ![uid] =
                        [metadata |-> found.metadata,
                         documents |-> found.documents \o request.batch]]
         /\ Decide(w, Indexed(Len(request.batch), found.metadata.primaryKey))
    /\ UNCHANGED history

(* An exception before the call took effect, or after it. *)
StoreFail(w) ==
    /\ MayFail
    /\ call[w].phase \in {"requested", "committed"}
    /\ Decide(w, InternalError)
    /\ UNCHANGED <<store, history>>

StoreRespond(w) ==
    /\ call[w].phase = "committed"
    /\ history' = Append(history, [request |-> call[w].request,
                                   answer |-> call[w].answer])
    /\ call' = [call EXCEPT ![w] = [phase |-> "idle", request |-> NoRequest,
                                    answer |-> NoAnswer]]
    /\ UNCHANGED store

StoreStep(w) ==
    StoreCreate(w) \/ StoreIngest(w) \/ StoreFail(w) \/ StoreRespond(w)

StoreNext == \E w \in Workers : StoreReceive(w) \/ StoreStep(w)

StoreSafety == StoreInit /\ [][StoreNext]_storeVars

(* A call that was received is answered. *)
StoreSpec == StoreSafety /\ \A w \in Workers : WF_storeVars(StoreStep(w))
=============================================================================
