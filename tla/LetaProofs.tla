----------------------------- MODULE LetaProofs ------------------------------
(* Proofs about Leta, for any number of clients, workers, sends, indexes   *)
(* and documents.                                                          *)
EXTENDS Leta, InMemoryIndexRepositoryProofs, FiniteSetTheorems

(* To the repository, what the clients and the queue do is either nothing  *)
(* or a step of its own.                                                   *)
LEMMA RepositoryStep ==
    ASSUME [LetaNext]_<<vars, clientVars>>
    PROVE  [Next]_vars
BY DEF LetaNext, Send, GiveUp, LoseRequest, Take, Work, Reply, Quiet, Next, Step

(* Everything that is proved of the repository under any load holds under  *)
(* the load of these clients.                                              *)
THEOREM LetaSafety == LetaSpec => Safety
<1>1. LetaInit => Init
  BY DEF LetaInit
<1>2. [LetaNext]_<<vars, clientVars>> => [Next]_vars
  BY RepositoryStep
<1> QED
  BY <1>1, <1>2, PTL DEF LetaSpec, Safety

-----------------------------------------------------------------------------
(* The clients' variables keep their types, and a busy worker runs the     *)
(* request of the client it serves.                                        *)
LEMMA InitSendsOK == LetaInit => SendsOK
BY DEF LetaInit, Init, SendsOK

LEMMA NextSendsOK ==
    ASSUME TypeInv, SendsOK, [LetaNext]_<<vars, clientVars>>
    PROVE  SendsOK'
<1> DEFINE Serves(w) == pc[w] # "idle" =>
             serving[w] # NoSend /\ request[w] = Wanted[serving[w][1]]
<1> USE DEF SendsOK
<1>1. ASSUME NEW c \in Clients, Send(c) PROVE SendsOK'
  <2>1. sends' \in [Clients -> Nat] /\ sends'[c] \in Nat
    BY <1>1 DEF Send
  <2>2. queue' \in Seq(Clients \X Nat)
    BY <1>1, <2>1 DEF Send
  <2> QED
    BY <1>1, <2>1, <2>2 DEF Send, vars
<1>2. ASSUME NEW c \in Clients, GiveUp(c) PROVE SendsOK'
  BY <1>2 DEF GiveUp, vars
<1>3. CASE LoseRequest
  BY <1>3 DEF LoseRequest, vars
<1>4. ASSUME NEW w \in Workers, Take(w) PROVE SendsOK'
  <2>1. Head(queue) \in Clients \X Nat /\ queue' \in Seq(Clients \X Nat)
    BY <1>4 DEF Take
  <2>2. /\ pc' = [pc EXCEPT ![w] = "clock"]
        /\ \A v \in Workers \ {w} : request'[v] = request[v]
    BY <1>4 DEF Take, Receive, Goto, TypeInv, TypeOK
  <2>3. /\ serving' \in [Workers -> (Clients \X Nat) \cup {NoSend}]
        /\ serving'[w] = Head(queue)
        /\ \A v \in Workers \ {w} : serving'[v] = serving[v]
    BY <1>4, <2>1 DEF Take
  <2>4. Serves(w)'
    BY <1>4, <2>1, <2>3, ClientsAssumption DEF Take
  <2>5. \A v \in Workers \ {w} : Serves(v)'
    BY <2>2, <2>3 DEF TypeInv, TypeOK
  <2> QED
    BY <1>4, <2>1, <2>3, <2>4, <2>5 DEF Take
<1>5. ASSUME NEW w \in Workers, Work(w) PROVE SendsOK'
  <2>1. /\ request' = request /\ pc[w] # "idle"
        /\ \A v \in Workers \ {w} : pc'[v] = pc[v]
    BY <1>5 DEF Work, ReadClock, Lock, Add, EmplaceIndex, RecordWord, StoreSource,
                FinishBatch, Throw, Goto, TypeInv, TypeOK
  <2> QED
    BY <1>5, <2>1 DEF Work, clientVars
<1>6. ASSUME NEW w \in Workers, Reply(w) PROVE SendsOK'
  <2>1. /\ pc' = [pc EXCEPT ![w] = "idle"] /\ answer[w] \in Answers \cup {NoAnswer}
        /\ \A v \in Workers \ {w} : request'[v] = request[v]
    BY <1>6 DEF Reply, Respond, Goto, TypeInv, TypeOK
  <2>2. /\ serving' \in [Workers -> (Clients \X Nat) \cup {NoSend}]
        /\ \A v \in Workers \ {w} : serving'[v] = serving[v]
    BY <1>6 DEF Reply
  <2>3. \A v \in Workers : Serves(v)'
    BY <2>1, <2>2 DEF TypeInv, TypeOK
  <2>4. /\ told' \in [Clients -> Answers \cup {NoAnswer}]
        /\ waiting' \in [Clients -> BOOLEAN]
    BY <1>6, <2>1 DEF Reply
  <2> QED
    BY <1>6, <2>2, <2>3, <2>4 DEF Reply
<1>7. CASE UNCHANGED <<vars, clientVars>>
  BY <1>7 DEF vars, clientVars
<1> QED
  BY <1>1, <1>2, <1>3, <1>4, <1>5, <1>6, <1>7 DEF LetaNext, Quiet

-----------------------------------------------------------------------------
(* The facts about the repository that the clients' invariants rest on.    *)
RepositoryInv == Inv /\ BatchesOK

LEMMA RepositoryInvHolds == LetaSpec => []RepositoryInv
<1>1. Safety => []RepositoryInv
  BY InvHolds, BatchesKeepTheirPlaces, PTL DEF RepositoryInv
<1> QED
  BY <1>1, LetaSafety, PTL

LEMMA RepositoryFacts ==
    ASSUME RepositoryInv
    PROVE  /\ TypeInv /\ IndexInv /\ AnswersOK
           /\ \A w \in Workers : Indexes(answer[w]) => request[w].op = "ingest"
           /\ \A w \in Workers : pc[w] = "ingest" => doc[w] <= Len(Batch(w)) + 1
<1>1. PICK at, here : Placed(at, here)
  BY DEF RepositoryInv, BatchesOK
<1> QED
  BY <1>1 DEF RepositoryInv, Inv, TypeInv, IndexInv, Placed, HeldPlaced, StoringLast, Stores

(* The client behind a worker's request. *)
LEMMA Served ==
    ASSUME TypeInv, SendsOK, NEW w \in Workers, pc[w] # "idle"
    PROVE  \E c \in Clients : c = serving[w][1] /\ request[w] = Wanted[c]
BY DEF SendsOK

(* Whoever creates an index gives it the key its own client wants.         *)
LEMMA NextOriginOK ==
    ASSUME TypeInv, SendsOK, OriginOK, [Next]_vars
    PROVE  OriginOK'
<1>1. ASSUME NEW w \in Workers, NEW key, NEW initial \in Metadata,
             initial.primaryKey = key, TryEmplace(Uid(w), initial), Uid(w) \in Uids,
             NEW c \in Clients, Wanted[c] = request[w], KeyWanted(c) = key
      PROVE  OriginOK'
  <2> SUFFICES ASSUME NEW uid \in Uids, metadata'[uid] # NoIndex
               PROVE  \E b \in Clients :
                         Wanted[b].uid = uid /\ metadata'[uid].primaryKey = KeyWanted(b)
    BY DEF OriginOK
  <2>1. CASE uid = Uid(w) /\ metadata[uid] = NoIndex
    <3>1. metadata'[uid] = initial
      BY <1>1, <2>1 DEF TryEmplace, TypeInv, TypeOK
    <3>2. Wanted[c].uid = uid
      BY <1>1, <2>1 DEF Uid
    <3> QED
      BY <1>1, <3>1, <3>2
  <2>2. CASE ~(uid = Uid(w) /\ metadata[uid] = NoIndex)
    <3>1. metadata'[uid] = metadata[uid]
      BY <1>1, <2>2 DEF TryEmplace, guarded, TypeInv, TypeOK
    <3> QED
      BY <3>1 DEF OriginOK
  <2> QED
    BY <2>1, <2>2
<1>2. ASSUME NEW w \in Workers, Add(w) PROVE OriginOK'
  <2> DEFINE index == NewMetadata(request[w].primaryKey, stamp[w])
  <2>1. PICK c \in Clients : request[w] = Wanted[c]
    BY <1>2, Served DEF Add
  <2>2. /\ Uid(w) \in Uids /\ index \in Metadata
        /\ index.primaryKey = request[w].primaryKey
        /\ request[w].op = "create"
    BY <1>2, RequestFields, NewMetadataType DEF Add, TypeInv, CallsOK, Uid
  <2>3. TryEmplace(Uid(w), index)
    BY <1>2 DEF Add
  <2>4. KeyWanted(c) = request[w].primaryKey
    BY <2>1, <2>2 DEF KeyWanted
  <2> HIDE DEF index
  <2> QED
    BY <1>1, <2>1, <2>2, <2>3, <2>4
<1>3. ASSUME NEW w \in Workers, EmplaceIndex(w) PROVE OriginOK'
  <2> DEFINE index == NewMetadata(NoKey, stamp[w])
  <2>1. PICK c \in Clients : request[w] = Wanted[c]
    BY <1>3, Served DEF EmplaceIndex
  <2>2. /\ Uid(w) \in Uids /\ index \in Metadata /\ index.primaryKey = NoKey
        /\ request[w].op = "ingest"
    BY <1>3, RequestFields, NewMetadataType
    DEF EmplaceIndex, TypeInv, CallsOK, Uid, PrimaryKeys
  <2>3. TryEmplace(Uid(w), index)
    BY <1>3 DEF EmplaceIndex
  <2>4. KeyWanted(c) = NoKey
    BY <2>1, <2>2 DEF KeyWanted
  <2> HIDE DEF index
  <2> QED
    BY <1>1, <2>1, <2>2, <2>3, <2>4
<1>4. CASE metadata' = metadata
  BY <1>4 DEF OriginOK
<1>5. CASE UNCHANGED vars
  BY <1>4, <1>5 DEF vars
<1> QED
  BY <1>2, <1>3, <1>4, <1>5 DEF Next, Step, Done, Receive, ReadClock, Lock, RecordWord,
     StoreSource, FinishBatch, Throw, Respond

(* What a client was told stays true of the store. *)
LEMMA NextToldOK ==
    ASSUME RepositoryInv, SendsOK, ToldOK, [LetaNext]_<<vars, clientVars>>
    PROVE  ToldOK'
<1>1. TypeInv /\ IndexInv /\ AnswersOK /\ [Next]_vars /\ Grows
  BY RepositoryFacts, RepositoryStep, NextGrows
<1>2. ASSUME NEW c \in Clients, NEW result \in Answers, Reports(Wanted[c], result)
      PROVE  Reports(Wanted[c], result)'
  <2>1. Wanted[c] \in Requests
    BY ClientsAssumption
  <2> QED
    BY <1>1, <1>2, <2>1, ReportsStable DEF Reports
<1>3. ASSUME NEW c \in Clients, told'[c] = told[c], told[c] # NoAnswer
      PROVE  Reports(Wanted[c], told[c])' /\ (Indexes(told[c])' => Wanted[c].op = "ingest")
  <2>1. told[c] \in Answers /\ Reports(Wanted[c], told[c])
    BY <1>3 DEF SendsOK, ToldOK
  <2>2. PICK result \in Answers : result = told[c]
    BY <2>1
  <2>3. Reports(Wanted[c], result)'
    BY <1>2, <2>1, <2>2
  <2> QED
    BY <1>3, <2>2, <2>3 DEF Reports, ToldOK
<1>4. CASE told' = told
  BY <1>3, <1>4 DEF ToldOK
<1>5. ASSUME NEW w \in Workers, Reply(w) PROVE ToldOK'
  <2>1. pc[w] = "answer" /\ answer[w] # NoAnswer /\ answer[w] \in Answers
    BY <1>1, <1>5 DEF Reply, Respond, TypeInv, TypeOK, CallsOK
  <2>2. PICK c \in Clients : c = serving[w][1] /\ request[w] = Wanted[c]
    BY <1>1, <2>1, Served
  <2>3. CASE told' = [told EXCEPT ![c] = answer[w]]
    <3>1. told'[c] = answer[w] /\ \A b \in Clients \ {c} : told'[b] = told[b]
      BY <2>3 DEF SendsOK
    <3>2. PICK result \in Answers : result = answer[w]
      BY <2>1
    <3>3. Reports(Wanted[c], result)
      BY <1>1, <2>1, <2>2, <3>2 DEF AnswersOK
    <3>4. Reports(Wanted[c], result)'
      BY <1>2, <3>3
    <3>5. Reports(Wanted[c], told[c])'
      BY <3>1, <3>2, <3>4 DEF Reports
    <3>6. Indexes(told[c])' => Wanted[c].op = "ingest"
      BY <2>2, <3>1, RepositoryFacts
    <3> QED
      BY <1>3, <3>1, <3>5, <3>6 DEF ToldOK
  <2>4. told' = told \/ told' = [told EXCEPT ![c] = answer[w]]
    BY <1>5, <2>2 DEF Reply
  <2> QED
    BY <1>4, <2>3, <2>4
<1>6. CASE UNCHANGED <<vars, clientVars>>
  BY <1>4, <1>6 DEF clientVars
<1> QED
  BY <1>4, <1>5, <1>6 DEF LetaNext, Send, GiveUp, LoseRequest, Take, Work, Quiet, clientVars

(* The clients' side of the store: a client alone with its uid that is     *)
(* told 409 has the index it asked for, and a 201 is of the stored index.  *)
THEOREM RetriesFindTheirOwn == LetaSpec => []RetriedCreateIsOwn
<1> DEFINE ClientsInv == SendsOK /\ OriginOK /\ ToldOK
<1>1. LetaInit => ClientsInv
  BY InitSendsOK DEF LetaInit, Init, OriginOK, ToldOK
<1>2. RepositoryInv /\ ClientsInv /\ [LetaNext]_<<vars, clientVars>> => ClientsInv'
  BY RepositoryFacts, RepositoryStep, NextSendsOK, NextOriginOK, NextToldOK
<1>3. RepositoryInv /\ ClientsInv => RetriedCreateIsOwn
  <2> SUFFICES ASSUME RepositoryInv, ClientsInv, NEW c \in Creating, Others(c) = {},
                      told[c] \notin {NoAnswer, InternalError}
               PROVE  LET stored == metadata[Wanted[c].uid] IN
                      /\ stored # NoIndex
                      /\ stored.primaryKey = Wanted[c].primaryKey
                      /\ told[c] \in {Created(stored), AlreadyExists}
    BY DEF RetriedCreateIsOwn
  <2> DEFINE stored == metadata[Wanted[c].uid]
  <2>1. /\ c \in Clients /\ Wanted[c].op = "create"
        /\ Wanted[c] \in Requests /\ Wanted[c].uid \in Uids
    BY ClientsAssumption, RequestFields DEF Creating
  <2>2. told[c] \in Answers /\ Reports(Wanted[c], told[c]) /\ ~Indexes(told[c])
    BY <2>1 DEF SendsOK, ToldOK
  <2>3. \/ told[c] = AlreadyExists
        \/ told[c] \in [status: {"created"}, metadata: Metadata]
    BY <2>1, <2>2 DEF Answers, Indexes
  <2>4. told[c].status # "internal"
    BY <2>3, AnswerTypes
  <2>5. stored # NoIndex
    BY <2>2, <2>4 DEF Reports
  <2>6. PICK b \in Clients : /\ Wanted[b].uid = Wanted[c].uid
                             /\ stored.primaryKey = KeyWanted(b)
    BY <2>1, <2>5 DEF OriginOK
  <2>7. b = c
    BY <2>1, <2>6 DEF Others
  <2>8. stored.primaryKey = Wanted[c].primaryKey
    BY <2>1, <2>6, <2>7 DEF KeyWanted
  <2>9. told[c] \in [status: {"created"}, metadata: Metadata] => told[c] = Created(stored)
    BY <2>2 DEF Reports, Created
  <2> QED
    BY <2>3, <2>5, <2>8, <2>9
<1> QED
  BY <1>1, <1>2, <1>3, RepositoryInvHolds, PTL DEF LetaSpec

-----------------------------------------------------------------------------
(* Counting the places of a document in a sequence.                        *)

(* One element more. *)
LEMMA OneMore ==
    ASSUME NEW S, IsFiniteSet(S), NEW x, x \notin S, NEW T, T = S \cup {x}
    PROVE  /\ IsFiniteSet(T) /\ Cardinality(T) = Cardinality(S) + 1
           /\ Cardinality(S) \in Nat /\ Cardinality(T) \in Nat
BY FS_AddElement, FS_CardinalityType

LEMMA InFirstCounts ==
    ASSUME NEW sequence, NEW d, NEW n \in Nat
    PROVE  /\ IsFiniteSet({i \in 1 .. n : sequence[i] = d})
           /\ InFirst(n, sequence, d) \in Nat
<1> DEFINE First == {i \in 1 .. n : sequence[i] = d}
<1>1. IsFiniteSet(1 .. n) /\ First \subseteq 1 .. n
  BY FS_Interval
<1>2. IsFiniteSet(First)
  BY <1>1, FS_Subset
<1>3. Cardinality(First) \in Nat
  BY <1>2, FS_CardinalityType
<1> QED
  BY <1>2, <1>3 DEF InFirst

LEMMA InFirstNone == ASSUME NEW sequence, NEW d PROVE InFirst(0, sequence, d) = 0
<1>1. {i \in 1 .. 0 : sequence[i] = d} = {}
  OBVIOUS
<1> QED
  BY <1>1, FS_EmptySet DEF InFirst

LEMMA InFirstNext ==
    ASSUME NEW sequence, NEW d, NEW n \in Nat
    PROVE  /\ sequence[n + 1] = d =>
                InFirst(n + 1, sequence, d) = InFirst(n, sequence, d) + 1
           /\ sequence[n + 1] # d =>
                InFirst(n + 1, sequence, d) = InFirst(n, sequence, d)
<1> DEFINE First(m) == {i \in 1 .. m : sequence[i] = d}
<1>1. CASE sequence[n + 1] = d
  <2>1. First(n + 1) = First(n) \cup {n + 1} /\ n + 1 \notin First(n)
    BY <1>1
  <2>2. IsFiniteSet(First(n))
    BY InFirstCounts
  <2>3. Cardinality(First(n + 1)) = Cardinality(First(n)) + 1
    <3> HIDE DEF First
    <3> QED BY <2>1, <2>2, OneMore
  <2> QED
    BY <1>1, <2>3 DEF InFirst
<1>2. CASE sequence[n + 1] # d
  <2>1. First(n + 1) = First(n)
    BY <1>2
  <2> QED
    BY <1>2, <2>1 DEF InFirst
<1> QED
  BY <1>1, <1>2

LEMMA InFirstGrows ==
    ASSUME NEW sequence, NEW d, NEW m \in Nat, NEW n \in Nat, m <= n
    PROVE  InFirst(m, sequence, d) <= InFirst(n, sequence, d)
<1> DEFINE First(k) == {i \in 1 .. k : sequence[i] = d}
<1>1. First(m) \subseteq First(n)
  OBVIOUS
<1>2. IsFiniteSet(First(n))
  BY InFirstCounts
<1>3. Cardinality(First(m)) <= Cardinality(First(n))
  <2> HIDE DEF First
  <2> QED BY <1>1, <1>2, FS_Subset
<1> QED
  BY <1>3 DEF InFirst

LEMMA InCounts ==
    ASSUME NEW sequence \in Seq(Documents), NEW d
    PROVE  /\ In(sequence, d) = InFirst(Len(sequence), sequence, d)
           /\ In(sequence, d) \in Nat
<1>1. DOMAIN sequence = 1 .. Len(sequence) /\ Len(sequence) \in Nat
  OBVIOUS
<1>2. In(sequence, d) = InFirst(Len(sequence), sequence, d)
  BY <1>1 DEF In, InFirst
<1> QED
  BY <1>1, <1>2, InFirstCounts

(* A document stored is one copy more of it and of nothing else. *)
LEMMA InAppend ==
    ASSUME NEW sequence \in Seq(Documents), NEW e \in Documents, NEW d
    PROVE  /\ e = d => In(Append(sequence, e), d) = In(sequence, d) + 1
           /\ e # d => In(Append(sequence, e), d) = In(sequence, d)
<1> DEFINE longer == Append(sequence, e)
           n == Len(sequence)
<1>1. /\ longer \in Seq(Documents) /\ Len(longer) = n + 1 /\ n \in Nat
      /\ longer[n + 1] = e /\ \A i \in 1 .. n : longer[i] = sequence[i]
  OBVIOUS
<1>2. In(longer, d) = InFirst(n + 1, longer, d) /\ In(sequence, d) = InFirst(n, sequence, d)
  BY <1>1, InCounts
<1> HIDE DEF longer, n
<1>3. InFirst(n, longer, d) = InFirst(n, sequence, d)
  <2>1. {i \in 1 .. n : longer[i] = d} = {i \in 1 .. n : sequence[i] = d}
    BY <1>1
  <2> QED
    BY <2>1 DEF InFirst
<1>4. n \in Nat
  BY <1>1
<1>5. /\ longer[n + 1] = d => InFirst(n + 1, longer, d) = InFirst(n, longer, d) + 1
      /\ longer[n + 1] # d => InFirst(n + 1, longer, d) = InFirst(n, longer, d)
  BY <1>4, InFirstNext
<1> QED
  BY <1>1, <1>2, <1>3, <1>5 DEF longer

(* Products of counts. *)
LEMMA Products ==
    ASSUME NEW o \in Nat
    PROVE  /\ \A n \in Nat : n * o \in Nat /\ (n + 1) * o = n * o + o
           /\ \A m, n \in Nat : m <= n => m * o <= n * o
           /\ 0 * o = 0
<1>1. \A n \in Nat : n * o \in Nat /\ (n + 1) * o = n * o + o
  OBVIOUS
<1>2. ASSUME NEW m \in Nat, NEW n \in Nat, m <= n PROVE m * o <= n * o
  BY <1>2
<1> QED
  BY <1>1, <1>2

-----------------------------------------------------------------------------
(* Two sets that differ in one element at most. *)
LEMMA SameBut ==
    ASSUME NEW S, NEW T, IsFiniteSet(S), NEW x, S \ {x} = T \ {x}
    PROVE  /\ IsFiniteSet(T) /\ Cardinality(S) \in Nat /\ Cardinality(T) \in Nat
           /\ (x \in S <=> x \in T) => Cardinality(T) = Cardinality(S)
           /\ x \notin S /\ x \in T => Cardinality(T) = Cardinality(S) + 1
           /\ x \in S /\ x \notin T => Cardinality(S) = Cardinality(T) + 1
<1>1. CASE x \in S <=> x \in T
  <2>1. S = T
    BY <1>1
  <2> QED
    BY <1>1, <2>1, FS_CardinalityType
<1>2. CASE x \notin S /\ x \in T
  <2>1. T = S \cup {x}
    BY <1>2
  <2> QED
    BY <1>2, <2>1, OneMore
<1>3. CASE x \in S /\ x \notin T
  <2>1. S = T \cup {x} /\ T \subseteq S
    BY <1>3
  <2>2. IsFiniteSet(T)
    BY <2>1, FS_Subset
  <2> QED
    BY <1>3, <2>1, <2>2, OneMore
<1> QED
  BY <1>1, <1>2, <1>3

(* What is behind the head of a queue moves up. *)
LEMMA QueuedTail ==
    ASSUME SendsOK, NEW c \in Clients, queue # <<>>, queue' = Tail(queue)
    PROVE  /\ IsFiniteSet(Queued(c)') /\ Cardinality(Queued(c)') \in Nat
           /\ Head(queue)[1] = c => Cardinality(Queued(c)) = Cardinality(Queued(c)') + 1
           /\ Head(queue)[1] # c => Cardinality(Queued(c)) = Cardinality(Queued(c)')
<1> DEFINE before == Queued(c)
           after == Queued(c)'
           moved == before \ {1}
           up == [i \in after |-> i + 1]
<1>1. /\ Len(queue) \in Nat \ {0} /\ DOMAIN queue = 1 .. Len(queue)
      /\ DOMAIN queue' = 1 .. Len(queue) - 1 /\ Head(queue) = queue[1]
      /\ \A i \in 1 .. Len(queue) - 1 : queue'[i] = queue[i + 1]
  BY DEF SendsOK
<1>2. before \subseteq 1 .. Len(queue) /\ after \subseteq 1 .. Len(queue) - 1
  BY <1>1 DEF Queued
<1>3. IsFiniteSet(before) /\ IsFiniteSet(after) /\ IsFiniteSet(moved)
  <2>1. IsFiniteSet(1 .. Len(queue)) /\ IsFiniteSet(1 .. Len(queue) - 1)
    BY <1>1, FS_Interval
  <2> QED
    BY <1>2, <2>1, FS_Subset
<1>4. \A i : i \in after <=> i \in Nat /\ i + 1 \in moved
  <2>1. \A i : i \in after <=> i \in 1 .. Len(queue) - 1 /\ queue[i + 1][1] = c
    BY <1>1 DEF Queued
  <2>2. \A i : i \in moved <=> i \in 2 .. Len(queue) /\ queue[i][1] = c
    BY <1>1 DEF Queued
  <2>3. \A i : i \in 1 .. Len(queue) - 1 <=> i \in Nat /\ i + 1 \in 2 .. Len(queue)
    BY <1>1
  <2> QED
    BY <2>1, <2>2, <2>3
<1>5. moved \subseteq 2 .. Len(queue) /\ after \subseteq Nat
  BY <1>1, <1>2
<1> HIDE DEF before, after, moved
<1>6. up \in Bijection(after, moved)
  <2>1. up \in [after -> moved]
    BY <1>4
  <2>2. \A i, j \in after : up[i] = up[j] => i = j
    BY <1>5
  <2>3. \A k \in moved : \E i \in after : up[i] = k
    <3> SUFFICES ASSUME NEW k \in moved PROVE \E i \in after : up[i] = k
      OBVIOUS
    <3>1. k - 1 \in Nat /\ (k - 1) + 1 = k
      BY <1>1, <1>5
    <3> QED
      BY <1>4, <3>1
  <2> QED
    BY <2>1, <2>2, <2>3 DEF Bijection, Injection, Surjection, IsInjective
<1>7. Cardinality(moved) = Cardinality(after)
  BY <1>3, <1>6, FS_Bijection DEF ExistsBijection
<1>8. 1 \in before <=> Head(queue)[1] = c
  BY <1>1 DEF before, Queued
<1>9. before \ {1} = moved \ {1} /\ 1 \notin moved
  BY DEF moved
<1>10. /\ Cardinality(moved) \in Nat
       /\ Head(queue)[1] = c => Cardinality(before) = Cardinality(moved) + 1
       /\ Head(queue)[1] # c => Cardinality(before) = Cardinality(moved)
  BY <1>3, <1>8, <1>9, SameBut
<1> QED
  BY <1>3, <1>7, <1>10 DEF before, after

(* One worker moves, and no other. *)
OnlyMoves(w) ==
    \A v \in Workers \ {w} :
        /\ pc'[v] = pc[v] /\ request'[v] = request[v]
        /\ answer'[v] = answer[v] /\ doc'[v] = doc[v]

LEMMA StepMoves ==
    ASSUME TypeInv, NEW w \in Workers, Receive(w) \/ Step(w) \/ Throw(w)
    PROVE  OnlyMoves(w)
BY DEF OnlyMoves, Step, Receive, ReadClock, Lock, Add, EmplaceIndex, RecordWord,
       StoreSource, FinishBatch, Throw, Respond, Goto, Decide, TypeInv, TypeOK

LEMMA MovesOne ==
    ASSUME NEW w \in Workers, OnlyMoves(w), NEW c
    PROVE  /\ Finished(c)' \ {w} = Finished(c) \ {w}
           /\ Coming(c)' \ {w} = Coming(c) \ {w}
           /\ IsFiniteSet(Finished(c)) /\ IsFiniteSet(Coming(c))
<1>1. /\ Finished(c)' \ {w} = Finished(c) \ {w}
      /\ Coming(c)' \ {w} = Coming(c) \ {w}
  BY DEF OnlyMoves, Finished, Coming
<1>2. Finished(c) \subseteq Workers /\ Coming(c) \subseteq Workers
  BY DEF Finished, Coming
<1> QED
  BY <1>1, <1>2, PoolAssumption, FS_Subset

LEMMA MovedCounts ==
    ASSUME NEW w \in Workers, OnlyMoves(w), NEW c
    PROVE  /\ Cardinality(Finished(c)) \in Nat /\ Cardinality(Finished(c)') \in Nat
           /\ (w \in Finished(c) <=> w \in Finished(c)') =>
                Cardinality(Finished(c)') = Cardinality(Finished(c))
           /\ w \notin Finished(c) /\ w \in Finished(c)' =>
                Cardinality(Finished(c)') = Cardinality(Finished(c)) + 1
           /\ w \in Finished(c) /\ w \notin Finished(c)' =>
                Cardinality(Finished(c)) = Cardinality(Finished(c)') + 1
           /\ Cardinality(Coming(c)) \in Nat /\ Cardinality(Coming(c)') \in Nat
           /\ (w \in Coming(c) <=> w \in Coming(c)') =>
                Cardinality(Coming(c)') = Cardinality(Coming(c))
           /\ w \notin Coming(c) /\ w \in Coming(c)' =>
                Cardinality(Coming(c)') = Cardinality(Coming(c)) + 1
           /\ w \in Coming(c) /\ w \notin Coming(c)' =>
                Cardinality(Coming(c)) = Cardinality(Coming(c)') + 1
<1>1. /\ Finished(c)' \ {w} = Finished(c) \ {w} /\ IsFiniteSet(Finished(c))
      /\ Coming(c)' \ {w} = Coming(c) \ {w} /\ IsFiniteSet(Coming(c))
  BY MovesOne
<1>2. /\ Cardinality(Finished(c)) \in Nat /\ Cardinality(Finished(c)') \in Nat
      /\ (w \in Finished(c) <=> w \in Finished(c)') =>
           Cardinality(Finished(c)') = Cardinality(Finished(c))
      /\ w \notin Finished(c) /\ w \in Finished(c)' =>
           Cardinality(Finished(c)') = Cardinality(Finished(c)) + 1
      /\ w \in Finished(c) /\ w \notin Finished(c)' =>
           Cardinality(Finished(c)) = Cardinality(Finished(c)') + 1
  BY <1>1, SameBut
<1>3. /\ Cardinality(Coming(c)) \in Nat /\ Cardinality(Coming(c)') \in Nat
      /\ (w \in Coming(c) <=> w \in Coming(c)') =>
           Cardinality(Coming(c)') = Cardinality(Coming(c))
      /\ w \notin Coming(c) /\ w \in Coming(c)' =>
           Cardinality(Coming(c)') = Cardinality(Coming(c)) + 1
      /\ w \in Coming(c) /\ w \notin Coming(c)' =>
           Cardinality(Coming(c)) = Cardinality(Coming(c)') + 1
  BY <1>1, SameBut
<1> QED
  BY <1>2, <1>3

(* The batch a client has in storage stays where it is, unless the worker  *)
(* that moves is the one that stores it.                                   *)
LEMMA SofarStands ==
    ASSUME TypeInv, TypeInv', NEW w \in Workers, OnlyMoves(w), NEW c, NEW d,
           pc[w] = "ingest" /\ request[w] = Wanted[c] <=>
             pc'[w] = "ingest" /\ request'[w] = Wanted[c],
           pc[w] = "ingest" /\ request[w] = Wanted[c] => doc'[w] = doc[w]
    PROVE  Sofar(c, d)' = Sofar(c, d) /\ Rest(c, d)' = Rest(c, d)
<1> DEFINE Stored(v) == pc[v] = "ingest" /\ request[v] = Wanted[c]
<1>1. /\ \A v \in Workers : Stored(v) => Stored(v)' /\ doc'[v] = doc[v]
      /\ \A v \in Workers : Stored(v)' => Stored(v)
  BY DEF OnlyMoves
<1>2. /\ \A v \in Workers : Stored(v) => mutex = v
      /\ \A v \in Workers : Stored(v)' => mutex' = v
  BY DEF TypeInv, MutexOK
<1>3. /\ Storing(c) <=> \E v \in Workers : Stored(v)
      /\ Storing(c)' <=> \E v \in Workers : Stored(v)'
  BY <1>2, NoWorkerAssumption DEF Storing, TypeInv, TypeOK
<1>4. Storing(c) => mutex' = mutex /\ doc'[mutex] = doc[mutex]
  BY <1>1, <1>2, <1>3
<1>5. Storing(c)' <=> Storing(c)
  BY <1>1, <1>3
<1> HIDE DEF Stored
<1>6. Sofar(c, d)' = Sofar(c, d)
  BY <1>4, <1>5 DEF Sofar
<1>7. Once(c, d)' = Once(c, d)
  BY DEF Once, In
<1> QED
  BY <1>5, <1>6, <1>7 DEF Rest

(* The sizes of what Balanced compares. *)
LEMMA CountTypes ==
    ASSUME RepositoryInv, SendsOK, NEW c \in Ingesting, NEW d
    PROVE  /\ c \in Clients /\ Wanted[c] \in Requests /\ Wanted[c].op = "ingest"
           /\ Wanted[c].uid \in Uids /\ Wanted[c].batch \in Seq(Documents)
           /\ IsFiniteSet(Acknowledged(c)) /\ Cardinality(Acknowledged(c)) \in Nat
           /\ Cardinality(Finished(c)) \in Nat /\ Cardinality(Coming(c)) \in Nat
           /\ IsFiniteSet(Queued(c)) /\ Cardinality(Queued(c)) \in Nat
           /\ CarriedOut(c) \in Nat /\ Due(c) \in Nat /\ sends[c] \in Nat
           /\ Once(c, d) \in Nat /\ Copies(c, d) \in Nat
           /\ Sofar(c, d) \in Nat /\ Sofar(c, d) <= Once(c, d) /\ Rest(c, d) \in Nat
           /\ documents[Wanted[c].uid].sources \in Seq(Documents)
<1>1. /\ c \in Clients /\ Wanted[c] \in Requests /\ Wanted[c].op = "ingest"
      /\ Wanted[c].uid \in Uids /\ Wanted[c].batch \in Seq(Documents)
  BY ClientsAssumption, RequestFields DEF Ingesting
<1>2. TypeInv
  BY RepositoryFacts
<1>3. IsFiniteSet(Acknowledged(c)) /\ Cardinality(Acknowledged(c)) \in Nat
  <2>1. Len(history) \in Nat /\ Acknowledged(c) \subseteq 1 .. Len(history)
    BY <1>2 DEF Acknowledged, TypeInv, TypeOK
  <2>2. IsFiniteSet(1 .. Len(history))
    BY <2>1, FS_Interval
  <2>3. IsFiniteSet(Acknowledged(c))
    BY <2>1, <2>2, FS_Subset
  <2> QED
    BY <2>3, FS_CardinalityType
<1>4. IsFiniteSet(Queued(c)) /\ Cardinality(Queued(c)) \in Nat
  <2>1. Len(queue) \in Nat /\ Queued(c) \subseteq 1 .. Len(queue)
    BY DEF Queued, SendsOK
  <2>2. IsFiniteSet(1 .. Len(queue))
    BY <2>1, FS_Interval
  <2>3. IsFiniteSet(Queued(c))
    BY <2>1, <2>2, FS_Subset
  <2> QED
    BY <2>3, FS_CardinalityType
<1>5. Cardinality(Finished(c)) \in Nat /\ Cardinality(Coming(c)) \in Nat
  <2>1. Finished(c) \subseteq Workers /\ Coming(c) \subseteq Workers
    BY DEF Finished, Coming
  <2>2. IsFiniteSet(Finished(c)) /\ IsFiniteSet(Coming(c))
    BY <2>1, PoolAssumption, FS_Subset
  <2> QED
    BY <2>2, FS_CardinalityType
<1>6. CarriedOut(c) \in Nat /\ Due(c) \in Nat /\ sends[c] \in Nat
  BY <1>1, <1>3, <1>4, <1>5 DEF CarriedOut, Due, SendsOK
<1>7. documents[Wanted[c].uid].sources \in Seq(Documents)
  BY <1>1, <1>2, IndexFields DEF TypeInv, TypeOK
<1>8. Once(c, d) \in Nat /\ Copies(c, d) \in Nat
  BY <1>1, <1>7, InCounts DEF Once, Copies
<1>9. Sofar(c, d) \in Nat /\ Sofar(c, d) <= Once(c, d)
  <2>1. CASE ~Storing(c)
    BY <1>8, <2>1 DEF Sofar
  <2>2. CASE Storing(c)
    <3>1. /\ mutex \in Workers /\ pc[mutex] = "ingest" /\ request[mutex] = Wanted[c]
          /\ doc[mutex] \in Nat \ {0}
      BY <1>2, <2>2 DEF Storing, TypeInv, TypeOK
    <3>2. doc[mutex] - 1 \in Nat /\ doc[mutex] - 1 <= Len(Wanted[c].batch)
      BY <1>1, <3>1, RepositoryFacts DEF Batch
    <3>3. InFirst(doc[mutex] - 1, Wanted[c].batch, d) \in Nat
      BY <3>2, InFirstCounts
    <3>4. InFirst(doc[mutex] - 1, Wanted[c].batch, d)
            <= InFirst(Len(Wanted[c].batch), Wanted[c].batch, d)
      BY <1>1, <3>2, InFirstGrows
    <3>5. Once(c, d) = InFirst(Len(Wanted[c].batch), Wanted[c].batch, d)
      BY <1>1, InCounts DEF Once
    <3> QED
      BY <2>2, <3>3, <3>4, <3>5 DEF Sofar
  <2> QED
    BY <2>1, <2>2
<1>10. Rest(c, d) \in Nat
  BY <1>8, <1>9 DEF Rest
<1> QED
  BY <1>1, <1>3, <1>4, <1>5, <1>6, <1>7, <1>8, <1>9, <1>10

-----------------------------------------------------------------------------
(* The documents that are c's own come from c alone. *)
LEMMA OwnRequest ==
    ASSUME NEW c \in Ingesting, NEW d \in Own(c), NEW b \in Clients, Wanted[b] = Wanted[c]
    PROVE  b = c
<1>1. d \in Sent(c) /\ Sent(b) = Sent(c)
  BY DEF Own, Sent
<1>2. b # c => b \in Others(c) \cap Ingesting
  BY DEF Others, Ingesting
<1> QED
  BY <1>1, <1>2 DEF Own

LEMMA OwnDocument ==
    ASSUME NEW c \in Ingesting, NEW d \in Own(c), NEW b \in Clients \ {c},
           Wanted[b].op = "ingest", Wanted[b].uid = Wanted[c].uid,
           NEW k \in DOMAIN Wanted[b].batch
    PROVE  Wanted[b].batch[k] # d
<1>1. b \in Others(c) \cap Ingesting
  BY DEF Others, Ingesting
<1>2. Wanted[b].batch[k] \in Sent(b)
  BY DEF Sent, Range
<1> QED
  BY <1>1, <1>2 DEF Own

(* The balance holds while nothing is stored or carried out and nothing    *)
(* becomes due.                                                            *)
LEMMA BalancedStands ==
    ASSUME RepositoryInv, SendsOK, NEW c \in Ingesting, NEW d, Balanced(c, d),
           CarriedOut(c)' = CarriedOut(c), Due(c)' \in Nat, Due(c)' <= Due(c),
           sends'[c] = sends[c], Copies(c, d)' = Copies(c, d),
           Sofar(c, d)' = Sofar(c, d), Rest(c, d)' = Rest(c, d),
           Indexes(told[c])' => Once(c, d) <= Copies(c, d)
    PROVE  Balanced(c, d)'
<1>1. Once(c, d)' = Once(c, d)
  BY DEF Once, In
<1>2. /\ Once(c, d) \in Nat /\ Copies(c, d) \in Nat /\ Rest(c, d) \in Nat
      /\ Due(c) \in Nat /\ sends[c] \in Nat
  BY CountTypes
<1>3. /\ Due(c)' * Once(c, d) \in Nat /\ Due(c) * Once(c, d) \in Nat
      /\ sends[c] * Once(c, d) \in Nat
      /\ Due(c)' * Once(c, d) <= Due(c) * Once(c, d)
  BY <1>2, Products
<1>4. Copies(c, d) + Rest(c, d) + Due(c) * Once(c, d) <= sends[c] * Once(c, d)
  BY DEF Balanced
<1>5. Copies(c, d) + Rest(c, d) + Due(c)' * Once(c, d) <= sends[c] * Once(c, d)
  BY <1>2, <1>3, <1>4
<1> QED
  BY <1>1, <1>5 DEF Balanced

(* Steps of a worker that neither store nor carry out anything for c. *)
LEMMA CalmStep ==
    ASSUME RepositoryInv, TypeInv', SendsOK, NEW c \in Ingesting, NEW d, Balanced(c, d),
           NEW w \in Workers, OnlyMoves(w), history' = history,
           w \in Finished(c)' <=> w \in Finished(c),
           w \in Coming(c)' <=> w \in Coming(c),
           pc[w] = "ingest" /\ request[w] = Wanted[c] <=>
             pc'[w] = "ingest" /\ request'[w] = Wanted[c],
           pc[w] = "ingest" /\ request[w] = Wanted[c] => doc'[w] = doc[w],
           Copies(c, d)' = Copies(c, d), UNCHANGED clientVars
    PROVE  Balanced(c, d)'
<1>1. TypeInv
  BY RepositoryFacts
<1>2. Sofar(c, d)' = Sofar(c, d) /\ Rest(c, d)' = Rest(c, d)
  BY <1>1, SofarStands
<1>3. /\ Cardinality(Finished(c)') = Cardinality(Finished(c))
      /\ Cardinality(Coming(c)') = Cardinality(Coming(c))
  BY MovedCounts
<1>4. Acknowledged(c)' = Acknowledged(c) /\ Queued(c)' = Queued(c)
  BY DEF Acknowledged, Queued, clientVars
<1>5. CarriedOut(c)' = CarriedOut(c) /\ Due(c)' = Due(c)
  BY <1>3, <1>4 DEF CarriedOut, Due
<1>6. Due(c)' \in Nat /\ Due(c)' <= Due(c)
  BY <1>5, CountTypes
<1>7. sends'[c] = sends[c] /\ (Indexes(told[c])' => Once(c, d) <= Copies(c, d))
  BY DEF clientVars, Balanced
<1> QED
  BY <1>2, <1>5, <1>6, <1>7, BalancedStands

(* So it is with every step for another client. *)
LEMMA OthersStep ==
    ASSUME RepositoryInv, TypeInv', SendsOK, NEW c \in Ingesting, NEW d, Balanced(c, d),
           NEW w \in Workers, OnlyMoves(w), history' = history,
           request[w] # Wanted[c], request'[w] = request[w],
           Copies(c, d)' = Copies(c, d), UNCHANGED clientVars
    PROVE  Balanced(c, d)'
<1>1. w \notin Finished(c) /\ w \notin Finished(c)' /\ w \notin Coming(c) /\ w \notin Coming(c)'
  BY DEF Finished, Coming
<1>2. ~(pc[w] = "ingest" /\ request[w] = Wanted[c])
      /\ ~(pc'[w] = "ingest" /\ request'[w] = Wanted[c])
  OBVIOUS
<1> QED
  BY <1>1, <1>2, CalmStep

(* Only StoreSource changes how often a document is stored. *)
LEMMA CopiesStand ==
    ASSUME RepositoryInv, SendsOK, [Next]_vars, \A w \in Workers : ~StoreSource(w),
           NEW c \in Ingesting, NEW d
    PROVE  Copies(c, d)' = Copies(c, d)
<1>1. Wanted[c].uid \in Uids
  BY CountTypes
<1>2. documents'[Wanted[c].uid].sources = documents[Wanted[c].uid].sources
  BY <1>1, RepositoryFacts, SourcesStand
<1> QED
  BY <1>2 DEF Copies, In

(* Whose batch is in storage: the one of the worker that has the mutex. *)
LEMMA StoringWorker ==
    ASSUME TypeInv, NEW w \in Workers, mutex = w, NEW c
    PROVE  Storing(c) <=> pc[w] = "ingest" /\ request[w] = Wanted[c]
BY NoWorkerAssumption DEF Storing

LEMMA NotStoring == ASSUME mutex = NoWorker, NEW c, NEW d
                    PROVE  ~Storing(c) /\ Sofar(c, d) = 0 /\ Rest(c, d) = 0
BY DEF Storing, Sofar, Rest

(* Steps of c's own worker: its batch begins, ... *)
LEMMA OwnBegins ==
    ASSUME RepositoryInv, TypeInv', SendsOK, NEW c \in Ingesting, NEW d, Balanced(c, d),
           NEW w \in Workers, OnlyMoves(w), EmplaceIndex(w), request[w] = Wanted[c],
           Copies(c, d)' = Copies(c, d), UNCHANGED clientVars
    PROVE  Balanced(c, d)'
<1>1. TypeInv
  BY RepositoryFacts
<1>2. /\ pc[w] = "emplace" /\ pc'[w] = "ingest" /\ mutex = w /\ mutex' = w
      /\ request' = request /\ answer' = answer /\ history' = history /\ doc'[w] = 1
      /\ answer[w] = NoAnswer
  BY <1>1 DEF EmplaceIndex, Goto, TypeInv, TypeOK, CallsOK, MutexOK
<1>3. ~Storing(c) /\ Storing(c)'
  BY <1>2, NoWorkerAssumption DEF Storing
<1>4. /\ Sofar(c, d) = 0 /\ Rest(c, d) = 0
      /\ Sofar(c, d)' = 0 /\ Rest(c, d)' = Once(c, d)
  <2>1. Sofar(c, d)' = InFirst(0, Wanted[c].batch, d)
    BY <1>2, <1>3 DEF Sofar
  <2>2. Sofar(c, d)' = 0
    BY <2>1, InFirstNone
  <2>3. Once(c, d)' = Once(c, d) /\ Once(c, d) \in Nat
    BY CountTypes DEF Once, In
  <2> QED
    BY <1>3, <2>2, <2>3 DEF Sofar, Rest
<1>5. Finished(c)' = Finished(c) /\ Acknowledged(c)' = Acknowledged(c) /\ Queued(c)' = Queued(c)
  BY <1>2 DEF Finished, Acknowledged, Queued, clientVars
<1>6. CarriedOut(c)' = CarriedOut(c)
  BY <1>5 DEF CarriedOut
<1>7. w \in Coming(c) /\ w \notin Coming(c)'
  BY <1>2 DEF Coming
<1>8. /\ Cardinality(Coming(c)) = Cardinality(Coming(c)') + 1
      /\ Cardinality(Coming(c)') \in Nat
  BY <1>7, MovedCounts
<1>9. Due(c)' \in Nat /\ Due(c) = Due(c)' + 1
  BY <1>5, <1>8, CountTypes DEF Due
<1>10. /\ Once(c, d)' = Once(c, d) /\ Once(c, d) \in Nat
       /\ Copies(c, d) \in Nat /\ sends[c] \in Nat
  BY CountTypes DEF Once, In
<1>11. /\ Due(c) * Once(c, d) = Due(c)' * Once(c, d) + Once(c, d)
       /\ Due(c)' * Once(c, d) \in Nat /\ sends[c] * Once(c, d) \in Nat
  BY <1>9, <1>10, Products
<1>12. Copies(c, d) + Once(c, d) + Due(c)' * Once(c, d) <= sends[c] * Once(c, d)
  BY <1>4, <1>10, <1>11 DEF Balanced
<1>13. sends' = sends /\ told' = told
  BY DEF clientVars
<1> QED
  BY <1>4, <1>6, <1>10, <1>12, <1>13 DEF Balanced

(* ... grows by the document that is stored, ... *)
LEMMA OwnGrows ==
    ASSUME RepositoryInv, TypeInv', SendsOK, NEW c \in Ingesting, NEW d, Balanced(c, d),
           NEW w \in Workers, OnlyMoves(w), StoreSource(w), request[w] = Wanted[c],
           UNCHANGED clientVars
    PROVE  Balanced(c, d)'
<1> DEFINE batch == Wanted[c].batch
           sources == documents[Wanted[c].uid].sources
<1>1. TypeInv
  BY RepositoryFacts
<1>2. /\ pc[w] = "ingest" /\ pc'[w] = "ingest" /\ mutex = w /\ mutex' = w
      /\ request' = request /\ answer' = answer /\ history' = history
      /\ doc[w] \in Nat \ {0} /\ doc'[w] = doc[w] + 1 /\ pc' = pc
  BY <1>1 DEF StoreSource, TypeInv, TypeOK, MutexOK
<1>3. Storing(c) /\ Storing(c)'
  BY <1>2, NoWorkerAssumption DEF Storing
<1>4. /\ documents'[Wanted[c].uid].sources = Append(sources, batch[doc[w]])
      /\ sources \in Seq(Documents) /\ batch[doc[w]] \in Documents
  <2> DEFINE index == documents[Uid(w)]
  <2>1. /\ index \in ExactMatchIndices /\ CurrentDocument(w) \in Documents
        /\ documents' = [documents EXCEPT ![Uid(w)] = PushSource(index, CurrentDocument(w))]
        /\ Uid(w) = Wanted[c].uid /\ CurrentDocument(w) = batch[doc[w]]
        /\ Uid(w) \in Uids
    BY <1>1, StoreSourceArguments DEF Uid, CurrentDocument, Batch
  <2>2. PushSource(index, CurrentDocument(w)).sources = Append(index.sources, CurrentDocument(w))
    BY <2>1, PushSourceOK
  <2>3. documents'[Uid(w)] = PushSource(index, CurrentDocument(w))
    BY <1>1, <2>1 DEF TypeInv, TypeOK
  <2> QED
    BY <2>1, <2>2, <2>3, CountTypes
<1>5. /\ batch[doc[w]] = d => Copies(c, d)' = Copies(c, d) + 1
      /\ batch[doc[w]] # d => Copies(c, d)' = Copies(c, d)
  <2>1. Copies(c, d)' = In(Append(sources, batch[doc[w]]), d)
    BY <1>4 DEF Copies, In
  <2> HIDE DEF sources, batch
  <2>2. /\ batch[doc[w]] = d => In(Append(sources, batch[doc[w]]), d) = In(sources, d) + 1
        /\ batch[doc[w]] # d => In(Append(sources, batch[doc[w]]), d) = In(sources, d)
    BY <1>4, InAppend
  <2>3. Copies(c, d) = In(sources, d)
    BY DEF Copies, sources
  <2> QED
    BY <2>1, <2>2, <2>3
<1>6. /\ Sofar(c, d) = InFirst(doc[w] - 1, batch, d)
      /\ Sofar(c, d)' = InFirst(doc[w], batch, d)
  BY <1>2, <1>3 DEF Sofar
<1>7. /\ batch[doc[w]] = d => Sofar(c, d)' = Sofar(c, d) + 1
      /\ batch[doc[w]] # d => Sofar(c, d)' = Sofar(c, d)
  <2>1. doc[w] - 1 \in Nat /\ (doc[w] - 1) + 1 = doc[w]
    BY <1>2
  <2> HIDE DEF batch
  <2>2. /\ batch[(doc[w] - 1) + 1] = d =>
             InFirst((doc[w] - 1) + 1, batch, d) = InFirst(doc[w] - 1, batch, d) + 1
        /\ batch[(doc[w] - 1) + 1] # d =>
             InFirst((doc[w] - 1) + 1, batch, d) = InFirst(doc[w] - 1, batch, d)
    BY <2>1, InFirstNext
  <2> QED
    BY <1>6, <2>1, <2>2
<1>8. /\ Finished(c)' = Finished(c) /\ Acknowledged(c)' = Acknowledged(c)
      /\ Coming(c)' = Coming(c) /\ Queued(c)' = Queued(c)
  BY <1>2 DEF Finished, Acknowledged, Coming, Queued, clientVars
<1>9. CarriedOut(c)' = CarriedOut(c) /\ Due(c)' = Due(c)
  BY <1>8 DEF CarriedOut, Due
<1>10. /\ Once(c, d)' = Once(c, d) /\ Once(c, d) \in Nat /\ Sofar(c, d) \in Nat
       /\ Copies(c, d) \in Nat /\ CarriedOut(c) * Once(c, d) \in Nat
       /\ Due(c) * Once(c, d) \in Nat /\ sends[c] * Once(c, d) \in Nat
  <2>1. /\ Once(c, d) \in Nat /\ Sofar(c, d) \in Nat /\ Copies(c, d) \in Nat
        /\ CarriedOut(c) \in Nat /\ Due(c) \in Nat /\ sends[c] \in Nat
    BY CountTypes
  <2> QED
    BY <2>1, Products DEF Once, In
<1>11. Rest(c, d) = Once(c, d) - Sofar(c, d) /\ Rest(c, d)' = Once(c, d) - Sofar(c, d)'
  BY <1>3, <1>10 DEF Rest
<1>12. sends' = sends /\ told' = told
  BY DEF clientVars
<1> HIDE DEF batch, sources
<1>13. CASE batch[doc[w]] = d
  <2>1. Copies(c, d)' = Copies(c, d) + 1 /\ Sofar(c, d)' = Sofar(c, d) + 1
    BY <1>5, <1>7, <1>13
  <2> QED
    BY <1>9, <1>10, <1>11, <1>12, <2>1 DEF Balanced
<1>14. CASE batch[doc[w]] # d
  <2>1. Copies(c, d)' = Copies(c, d) /\ Sofar(c, d)' = Sofar(c, d)
    BY <1>5, <1>7, <1>14
  <2> QED
    BY <1>9, <1>10, <1>11, <1>12, <2>1 DEF Balanced
<1> QED
  BY <1>13, <1>14

(* ... is carried out, ... *)
LEMMA OwnFinishes ==
    ASSUME RepositoryInv, TypeInv', SendsOK, NEW c \in Ingesting, NEW d, Balanced(c, d),
           NEW w \in Workers, OnlyMoves(w), FinishBatch(w), request[w] = Wanted[c],
           Copies(c, d)' = Copies(c, d), UNCHANGED clientVars
    PROVE  Balanced(c, d)'
<1>1. TypeInv
  BY RepositoryFacts
<1>2. /\ pc[w] = "ingest" /\ pc'[w] = "answer" /\ mutex = w /\ mutex' = NoWorker
      /\ request' = request /\ history' = history /\ answer[w] = NoAnswer
      /\ BatchDone(w) /\ doc[w] \in Nat
  BY <1>1 DEF FinishBatch, Release, Goto, TypeInv, TypeOK, MutexOK, CallsOK
<1>3. Indexes(answer'[w])
  <2>1. answer'[w].status = "indexed" /\ answer'[w] # NoAnswer
    BY <1>1, <1>2, FinishDecides DEF TypeInv, CallsOK
  <2> QED
    BY <2>1 DEF Indexes
<1>4. Storing(c)
  BY <1>2, NoWorkerAssumption DEF Storing
<1>5. Sofar(c, d) = Once(c, d)
  <2>1. Len(Wanted[c].batch) \in Nat /\ doc[w] - 1 = Len(Wanted[c].batch)
    <3>1. Wanted[c].batch \in Seq(Documents)
      BY CountTypes
    <3>2. doc[w] <= Len(Wanted[c].batch) + 1 /\ doc[w] > Len(Wanted[c].batch)
      BY <1>2, RepositoryFacts DEF BatchDone, Batch
    <3> QED
      BY <1>2, <3>1, <3>2
  <2>2. Once(c, d) = InFirst(Len(Wanted[c].batch), Wanted[c].batch, d)
    BY CountTypes, InCounts DEF Once
  <2> QED
    BY <1>2, <1>4, <2>1, <2>2 DEF Sofar
<1>6. Rest(c, d) = 0 /\ Sofar(c, d)' = 0 /\ Rest(c, d)' = 0
  <2>1. Rest(c, d) = 0
    BY <1>4, <1>5, CountTypes DEF Rest
  <2>2. ~Storing(c)'
    BY <1>2 DEF Storing
  <2> QED
    BY <2>1, <2>2 DEF Sofar, Rest
<1>7. w \notin Finished(c) /\ w \in Finished(c)' /\ w \notin Coming(c) /\ w \notin Coming(c)'
  BY <1>2, <1>3 DEF Finished, Coming, Indexes
<1>8. /\ Cardinality(Finished(c)') = Cardinality(Finished(c)) + 1
      /\ Cardinality(Coming(c)') = Cardinality(Coming(c))
  BY <1>7, MovedCounts
<1>9. Acknowledged(c)' = Acknowledged(c) /\ Queued(c)' = Queued(c)
  BY <1>2 DEF Acknowledged, Queued, clientVars
<1>10. CarriedOut(c)' = CarriedOut(c) + 1 /\ Due(c)' = Due(c)
  BY <1>8, <1>9, CountTypes DEF CarriedOut, Due
<1>11. Once(c, d)' = Once(c, d) /\ Once(c, d) \in Nat /\ CarriedOut(c) \in Nat
  BY CountTypes DEF Once, In
<1>12. CarriedOut(c)' * Once(c, d) = CarriedOut(c) * Once(c, d) + Once(c, d)
       /\ CarriedOut(c) * Once(c, d) \in Nat
  BY <1>10, <1>11, Products
<1>13. sends' = sends /\ told' = told
  BY DEF clientVars
<1> QED
  BY <1>5, <1>6, <1>10, <1>11, <1>12, <1>13 DEF Balanced

(* ... or ends in an exception, where it is. *)
LEMMA OwnThrows ==
    ASSUME RepositoryInv, TypeInv', SendsOK, NEW c \in Ingesting, NEW d, Balanced(c, d),
           NEW w \in Workers, OnlyMoves(w), Throw(w), request[w] = Wanted[c],
           Copies(c, d)' = Copies(c, d), UNCHANGED clientVars
    PROVE  Balanced(c, d)'
<1>1. TypeInv
  BY RepositoryFacts
<1>2. /\ MayFail /\ pc'[w] = "answer" /\ answer'[w] = InternalError
      /\ mutex' = (IF mutex = w THEN NoWorker ELSE mutex)
      /\ request' = request /\ history' = history /\ doc' = doc
  BY <1>1 DEF Throw, Goto, Decide, TypeInv, TypeOK
<1>3. w \notin Finished(c)' /\ w \notin Coming(c)'
  BY <1>2, AnswerTypes DEF Finished, Coming, Indexes
<1>4. /\ Cardinality(Finished(c)') \in Nat /\ Cardinality(Coming(c)') \in Nat
      /\ Cardinality(Finished(c)') <= Cardinality(Finished(c))
      /\ Cardinality(Coming(c)') <= Cardinality(Coming(c))
  <2>1. /\ Finished(c)' \subseteq Finished(c) /\ IsFiniteSet(Finished(c))
        /\ Coming(c)' \subseteq Coming(c) /\ IsFiniteSet(Coming(c))
    BY <1>3, MovesOne
  <2>2. /\ IsFiniteSet(Finished(c)') /\ Cardinality(Finished(c)') <= Cardinality(Finished(c))
        /\ IsFiniteSet(Coming(c)') /\ Cardinality(Coming(c)') <= Cardinality(Coming(c))
    BY <2>1, FS_Subset
  <2> QED
    BY <2>2, FS_CardinalityType
<1>5. Acknowledged(c)' = Acknowledged(c) /\ Queued(c)' = Queued(c)
  BY <1>2 DEF Acknowledged, Queued, clientVars
<1>6. /\ CarriedOut(c)' \in Nat /\ CarriedOut(c)' <= CarriedOut(c)
      /\ Due(c)' \in Nat /\ Due(c)' <= Due(c)
  BY <1>4, <1>5, CountTypes DEF CarriedOut, Due
<1>7. \/ Sofar(c, d)' = Sofar(c, d) /\ Rest(c, d)' = Rest(c, d)
      \/ Sofar(c, d)' = 0 /\ Rest(c, d)' = 0
  <2>1. CASE pc[w] = "ingest"
    <3>1. mutex = w /\ mutex' = NoWorker
      BY <1>1, <1>2, <2>1 DEF TypeInv, MutexOK
    <3>2. ~Storing(c)'
      BY <3>1 DEF Storing
    <3> QED
      BY <3>2 DEF Sofar, Rest
  <2>2. CASE pc[w] # "ingest"
    BY <1>1, <1>2, <2>2, SofarStands
  <2> QED
    BY <2>1, <2>2
<1>8. /\ Once(c, d)' = Once(c, d) /\ Once(c, d) \in Nat /\ Copies(c, d) \in Nat
      /\ Sofar(c, d) \in Nat /\ Rest(c, d) \in Nat
      /\ CarriedOut(c) \in Nat /\ Due(c) \in Nat /\ sends[c] \in Nat
  BY CountTypes DEF Once, In
<1>9. /\ CarriedOut(c)' * Once(c, d) <= CarriedOut(c) * Once(c, d)
      /\ Due(c)' * Once(c, d) <= Due(c) * Once(c, d)
      /\ CarriedOut(c)' * Once(c, d) \in Nat /\ CarriedOut(c) * Once(c, d) \in Nat
      /\ Due(c)' * Once(c, d) \in Nat /\ Due(c) * Once(c, d) \in Nat
      /\ sends[c] * Once(c, d) \in Nat
  BY <1>6, <1>8, Products
<1>10. sends' = sends /\ told' = told
  BY DEF clientVars
<1> DEFINE carried == CarriedOut(c) * Once(c, d)
           carriedNow == CarriedOut(c)' * Once(c, d)
           due == Due(c) * Once(c, d)
           dueNow == Due(c)' * Once(c, d)
           sent == sends[c] * Once(c, d)
<1>11. /\ carried + Sofar(c, d) <= Copies(c, d)
       /\ Copies(c, d) + Rest(c, d) + due <= sent
       /\ carriedNow <= carried /\ dueNow <= due
       /\ carriedNow \in Nat /\ carried \in Nat /\ dueNow \in Nat /\ due \in Nat /\ sent \in Nat
  BY <1>9 DEF Balanced
<1>12. /\ CarriedOut(c)' * Once(c, d)' = carriedNow /\ Due(c)' * Once(c, d)' = dueNow
       /\ sends'[c] * Once(c, d)' = sent
  BY <1>8, <1>10
<1> HIDE DEF carried, carriedNow, due, dueNow, sent
<1>13. /\ carriedNow + Sofar(c, d)' <= Copies(c, d)
       /\ Copies(c, d) + Rest(c, d)' + dueNow <= sent
  BY <1>7, <1>8, <1>11
<1> QED
  BY <1>2, <1>8, <1>10, <1>12, <1>13 DEF Balanced

(* A worker at work keeps the balance of every client. *)
LEMMA WorkBalanced ==
    ASSUME RepositoryInv, TypeInv', SendsOK, [Next]_vars,
           NEW c \in Ingesting, NEW d \in Own(c), Balanced(c, d),
           NEW w \in Workers, Work(w)
    PROVE  Balanced(c, d)'
<1>1. TypeInv /\ OnlyMoves(w) /\ UNCHANGED clientVars
  BY RepositoryFacts, StepMoves DEF Work, Step
<1>2. request' = request /\ history' = history /\ pc[w] # "idle"
  BY DEF Work, ReadClock, Lock, Add, EmplaceIndex, RecordWord, StoreSource, FinishBatch, Throw
<1>3. PICK b \in Clients : request[w] = Wanted[b]
  BY <1>1, <1>2, Served
<1>4. CASE StoreSource(w) /\ request[w] # Wanted[c]
  <2> DEFINE index == documents[Uid(w)]
  <2>1. /\ index \in ExactMatchIndices /\ CurrentDocument(w) \in Documents
        /\ documents' = [documents EXCEPT ![Uid(w)] = PushSource(index, CurrentDocument(w))]
        /\ Uid(w) \in Uids
    BY <1>1, <1>4, StoreSourceArguments
  <2>2. PushSource(index, CurrentDocument(w)).sources = Append(index.sources, CurrentDocument(w))
    BY <2>1, PushSourceOK
  <2>3. Wanted[c].uid \in Uids /\ documents[Wanted[c].uid].sources \in Seq(Documents)
    BY CountTypes
  <2>4. CASE Uid(w) = Wanted[c].uid
    <3>1. documents'[Wanted[c].uid].sources =
            Append(documents[Wanted[c].uid].sources, CurrentDocument(w))
      BY <1>1, <2>1, <2>2, <2>4 DEF TypeInv, TypeOK
    <3>2. /\ Wanted[b].op = "ingest" /\ Wanted[b].uid = Wanted[c].uid /\ b \in Clients \ {c}
          /\ doc[w] \in DOMAIN Wanted[b].batch /\ CurrentDocument(w) = Wanted[b].batch[doc[w]]
      BY <1>1, <1>3, <1>4, <2>4, RequestFields, ClientsAssumption
      DEF StoreSource, BatchDone, CurrentDocument, Batch, Uid, TypeInv, TypeOK, CallsOK
    <3>3. CurrentDocument(w) # d
      BY <3>2, OwnDocument
    <3>4. In(Append(documents[Wanted[c].uid].sources, CurrentDocument(w)), d) = Copies(c, d)
      BY <2>1, <2>3, <3>3, InAppend DEF Copies
    <3>5. Copies(c, d)' = Copies(c, d)
      BY <3>1, <3>4 DEF Copies, In
    <3> QED
      BY <1>1, <1>2, <1>4, <3>5, OthersStep
  <2>5. CASE Uid(w) # Wanted[c].uid
    <3>1. documents'[Wanted[c].uid] = documents[Wanted[c].uid]
      BY <1>1, <2>1, <2>3, <2>5 DEF TypeInv, TypeOK
    <3>2. Copies(c, d)' = Copies(c, d)
      BY <3>1 DEF Copies, In
    <3> QED
      BY <1>1, <1>2, <1>4, <3>2, OthersStep
  <2> QED
    BY <2>4, <2>5
<1>5. CASE StoreSource(w) /\ request[w] = Wanted[c]
  BY <1>1, <1>5, OwnGrows
<1>6. CASE ~StoreSource(w)
  <2>1. \A v \in Workers : ~StoreSource(v)
    <3> SUFFICES ASSUME NEW v \in Workers \ {w}, StoreSource(v) PROVE FALSE
      BY <1>6
    <3>1. doc'[v] = doc[v] /\ doc[v] \in Nat
      BY <1>1 DEF OnlyMoves, TypeInv, TypeOK
    <3>2. doc'[v] = doc[v] + 1
      BY <1>1 DEF StoreSource, TypeInv, TypeOK
    <3> QED
      BY <3>1, <3>2
  <2>2. Copies(c, d)' = Copies(c, d)
    BY <2>1, CopiesStand
  <2>3. CASE request[w] # Wanted[c]
    BY <1>1, <1>2, <2>2, <2>3, OthersStep
  <2>4. CASE request[w] = Wanted[c]
    <3>1. Wanted[c].op = "ingest"
      BY CountTypes
    <3>2. ~Add(w)
      BY <1>1, <2>4, <3>1 DEF Add, TypeInv, CallsOK
    <3>3. CASE ReadClock(w) \/ Lock(w) \/ RecordWord(w)
      <4>1. /\ answer' = answer /\ doc' = doc
            /\ pc[w] \in {"clock", "lock", "emplace"} <=> pc'[w] \in {"clock", "lock", "emplace"}
            /\ pc[w] = "ingest" <=> pc'[w] = "ingest"
        BY <1>1, <2>4, <3>1, <3>3 DEF ReadClock, Lock, RecordWord, Goto, TypeInv, TypeOK
      <4>2. /\ w \in Finished(c)' <=> w \in Finished(c)
            /\ w \in Coming(c)' <=> w \in Coming(c)
        BY <1>2, <4>1 DEF Finished, Coming
      <4> QED
        BY <1>1, <1>2, <2>2, <4>1, <4>2, CalmStep
    <3>4. CASE EmplaceIndex(w)
      BY <1>1, <2>2, <2>4, <3>4, OwnBegins
    <3>5. CASE FinishBatch(w)
      BY <1>1, <2>2, <2>4, <3>5, OwnFinishes
    <3>6. CASE Throw(w)
      BY <1>1, <2>2, <2>4, <3>6, OwnThrows
    <3> QED
      BY <1>6, <3>2, <3>3, <3>4, <3>5, <3>6 DEF Work
  <2> QED
    BY <2>3, <2>4
<1> QED
  BY <1>4, <1>5, <1>6

(* A send is due once it is in the queue. *)
LEMMA SendBalanced ==
    ASSUME RepositoryInv, SendsOK, NEW c \in Ingesting, NEW d, Balanced(c, d),
           NEW b \in Clients, Send(b)
    PROVE  Balanced(c, d)'
<1>1. c \in Clients /\ queue \in Seq(Clients \X Nat) /\ sends \in [Clients -> Nat]
  BY CountTypes DEF SendsOK
<1>2. /\ CarriedOut(c)' = CarriedOut(c) /\ Coming(c)' = Coming(c)
      /\ Copies(c, d)' = Copies(c, d) /\ Once(c, d)' = Once(c, d)
      /\ Sofar(c, d)' = Sofar(c, d) /\ Rest(c, d)' = Rest(c, d) /\ told' = told
  BY DEF Send, vars, CarriedOut, Acknowledged, Finished, Coming, Copies, In, Sofar,
         Rest, Storing, Once
<1>3. /\ Once(c, d) \in Nat /\ Copies(c, d) \in Nat /\ Rest(c, d) \in Nat
      /\ Due(c) \in Nat /\ sends[c] \in Nat
  BY CountTypes
<1>4. CASE b = c
  <2>1. sends'[c] = sends[c] + 1 /\ queue' = Append(queue, <<c, sends[c] + 1>>)
    BY <1>1, <1>4 DEF Send
  <2>2. Queued(c)' = Queued(c) \cup {Len(queue) + 1} /\ Len(queue) + 1 \notin Queued(c)
    <3>1. /\ DOMAIN queue = 1 .. Len(queue) /\ Len(queue) \in Nat
          /\ DOMAIN queue' = 1 .. Len(queue) + 1
          /\ queue'[Len(queue) + 1] = <<c, sends[c] + 1>>
          /\ \A i \in 1 .. Len(queue) : queue'[i] = queue[i]
      BY <1>1, <1>3, <2>1
    <3> QED
      BY <3>1 DEF Queued
  <2>3. Cardinality(Queued(c)') = Cardinality(Queued(c)) + 1
    BY <2>2, CountTypes, OneMore
  <2>4. Due(c)' = Due(c) + 1
    BY <1>2, <2>3, CountTypes DEF Due
  <2>5. /\ Due(c)' * Once(c, d) = Due(c) * Once(c, d) + Once(c, d)
        /\ sends'[c] * Once(c, d) = sends[c] * Once(c, d) + Once(c, d)
        /\ Due(c) * Once(c, d) \in Nat /\ sends[c] * Once(c, d) \in Nat
    BY <1>3, <2>1, <2>4, Products
  <2>6. Copies(c, d) + Rest(c, d) + Due(c)' * Once(c, d) <= sends'[c] * Once(c, d)
    BY <1>3, <2>5 DEF Balanced
  <2> QED
    BY <1>2, <2>6 DEF Balanced
<1>5. CASE b # c
  <2>1. sends'[c] = sends[c]
    BY <1>1, <1>5 DEF Send
  <2>2. Queued(c)' = Queued(c)
    <3>1. /\ DOMAIN queue = 1 .. Len(queue) /\ Len(queue) \in Nat
          /\ DOMAIN queue' = 1 .. Len(queue) + 1
          /\ queue'[Len(queue) + 1] = <<b, sends'[b]>>
          /\ \A i \in 1 .. Len(queue) : queue'[i] = queue[i]
      <4>1. queue' = Append(queue, <<b, sends'[b]>>) /\ <<b, sends'[b]>> \in Clients \X Nat
        BY <1>1 DEF Send
      <4> QED
        BY <1>1, <4>1
    <3> QED
      BY <1>5, <3>1 DEF Queued
  <2>3. Due(c)' = Due(c)
    BY <1>2, <2>2 DEF Due
  <2> QED
    BY <1>2, <2>1, <2>3 DEF Balanced
<1> QED
  BY <1>4, <1>5

(* A send that is lost is no longer due. *)
LEMMA LoseBalanced ==
    ASSUME RepositoryInv, SendsOK, NEW c \in Ingesting, NEW d, Balanced(c, d), LoseRequest
    PROVE  Balanced(c, d)'
<1>1. /\ CarriedOut(c)' = CarriedOut(c) /\ Coming(c)' = Coming(c)
      /\ Copies(c, d)' = Copies(c, d) /\ sends' = sends
      /\ Sofar(c, d)' = Sofar(c, d) /\ Rest(c, d)' = Rest(c, d) /\ told' = told
  BY DEF LoseRequest, vars, CarriedOut, Acknowledged, Finished, Coming, Copies, In, Sofar,
         Rest, Storing, Once
<1>2. /\ Cardinality(Queued(c)') \in Nat /\ Cardinality(Queued(c)) \in Nat
      /\ \/ Cardinality(Queued(c)) = Cardinality(Queued(c)') + 1
         \/ Cardinality(Queued(c)) = Cardinality(Queued(c)')
  BY CountTypes, QueuedTail DEF LoseRequest
<1>3. Due(c)' \in Nat /\ Due(c)' <= Due(c)
  BY <1>1, <1>2, CountTypes DEF Due
<1>4. Indexes(told[c])' => Once(c, d) <= Copies(c, d)
  BY <1>1 DEF Balanced
<1> QED
  BY <1>1, <1>3, <1>4, BalancedStands

(* A send that a worker takes stays due. *)
LEMMA TakeBalanced ==
    ASSUME RepositoryInv, TypeInv', SendsOK, [Next]_vars,
           NEW c \in Ingesting, NEW d \in Own(c), Balanced(c, d),
           NEW w \in Workers, Take(w)
    PROVE  Balanced(c, d)'
<1>1. TypeInv /\ OnlyMoves(w) /\ c \in Clients
  BY RepositoryFacts, StepMoves, CountTypes DEF Take
<1>2. /\ queue # <<>> /\ queue' = Tail(queue) /\ sends' = sends /\ told' = told
      /\ pc[w] = "idle" /\ pc'[w] = "clock" /\ request'[w] = Wanted[Head(queue)[1]]
      /\ history' = history /\ answer' = answer /\ answer[w] = NoAnswer
      /\ documents' = documents
  BY <1>1 DEF Take, Receive, Goto, TypeInv, TypeOK, CallsOK
<1>3. PICK b \in Clients : b = Head(queue)[1]
  BY <1>2 DEF SendsOK
<1>4. w \notin Finished(c) /\ w \notin Finished(c)' /\ w \notin Coming(c)
  BY <1>2 DEF Finished, Coming, Indexes
<1>5. Cardinality(Finished(c)') = Cardinality(Finished(c))
  BY <1>1, <1>4, MovedCounts
<1>6. Acknowledged(c)' = Acknowledged(c) /\ Copies(c, d)' = Copies(c, d)
  BY <1>2 DEF Acknowledged, Copies, In
<1>7. CarriedOut(c)' = CarriedOut(c)
  BY <1>5, <1>6 DEF CarriedOut
<1>8. Sofar(c, d)' = Sofar(c, d) /\ Rest(c, d)' = Rest(c, d)
  BY <1>1, <1>2, SofarStands
<1>9. Due(c)' \in Nat /\ Due(c)' = Due(c)
  <2>1. CASE b = c
    <3>1. w \in Coming(c)'
      BY <1>2, <1>3, <2>1 DEF Coming
    <3>2. Cardinality(Coming(c)') = Cardinality(Coming(c)) + 1
      BY <1>1, <1>4, <3>1, MovedCounts
    <3>3. /\ Cardinality(Queued(c)) = Cardinality(Queued(c)') + 1
          /\ Cardinality(Queued(c)') \in Nat
      BY <1>1, <1>2, <1>3, <2>1, QueuedTail
    <3>4. Cardinality(Coming(c)) \in Nat /\ Cardinality(Queued(c)) \in Nat
      BY CountTypes
    <3> QED
      BY <3>2, <3>3, <3>4 DEF Due
  <2>2. CASE b # c
    <3>1. Wanted[b] # Wanted[c]
      BY <2>2, OwnRequest
    <3>2. w \notin Coming(c)'
      BY <1>2, <1>3, <3>1 DEF Coming
    <3>3. Cardinality(Coming(c)') = Cardinality(Coming(c))
      BY <1>1, <1>4, <3>2, MovedCounts
    <3>4. Cardinality(Queued(c)) = Cardinality(Queued(c)')
      BY <1>1, <1>2, <1>3, <2>2, QueuedTail
    <3> QED
      BY <3>3, <3>4, CountTypes DEF Due
  <2> QED
    BY <2>1, <2>2
<1>10. Due(c)' <= Due(c)
  BY <1>9
<1>11. Indexes(told[c])' => Once(c, d) <= Copies(c, d)
  BY <1>2 DEF Balanced
<1> QED
  BY <1>2, <1>6, <1>7, <1>8, <1>9, <1>10, <1>11, BalancedStands

(* An answer moves what was carried out to what is acknowledged; a client  *)
(* that is told so has its documents stored.                               *)
LEMMA ReplyBalanced ==
    ASSUME RepositoryInv, TypeInv', SendsOK, [Next]_vars,
           NEW c \in Ingesting, NEW d, Balanced(c, d), NEW w \in Workers, Reply(w)
    PROVE  Balanced(c, d)'
<1> DEFINE last == Len(history) + 1
           own == request[w] = Wanted[c] /\ Indexes(answer[w])
<1>1. TypeInv /\ OnlyMoves(w) /\ c \in Clients /\ Wanted[c] \in Requests
  BY RepositoryFacts, StepMoves, CountTypes DEF Reply, Step
<1>2. /\ pc[w] = "answer" /\ pc'[w] = "idle" /\ request'[w] = NoRequest
      /\ history' = Append(history, [request |-> request[w], answer |-> answer[w]])
      /\ documents' = documents /\ sends' = sends /\ queue' = queue
      /\ history \in Seq(Exchanges)
  BY <1>1 DEF Reply, Respond, Goto, TypeInv, TypeOK
<1>3. w \notin Finished(c)' /\ w \notin Coming(c) /\ w \notin Coming(c)'
  BY <1>1, <1>2, NoRequestAssumption DEF Finished, Coming
<1>4. w \in Finished(c) <=> own
  BY DEF Finished
<1>5. /\ DOMAIN history = 1 .. Len(history) /\ Len(history) \in Nat
      /\ DOMAIN history' = 1 .. last
      /\ history'[last] = [request |-> request[w], answer |-> answer[w]]
      /\ \A i \in 1 .. Len(history) : history'[i] = history[i]
  BY <1>2
<1>6. /\ own => Acknowledged(c)' = Acknowledged(c) \cup {last}
      /\ ~own => Acknowledged(c)' = Acknowledged(c)
      /\ last \notin Acknowledged(c)
  BY <1>5 DEF Acknowledged
<1> HIDE DEF last, own
<1>7. CarriedOut(c)' = CarriedOut(c)
  <2>1. CASE own
    <3>1. /\ Cardinality(Finished(c)) = Cardinality(Finished(c)') + 1
          /\ Cardinality(Finished(c)') \in Nat
      BY <1>1, <1>3, <1>4, <2>1, MovedCounts
    <3>2. Cardinality(Acknowledged(c)') = Cardinality(Acknowledged(c)) + 1
      <4>1. Acknowledged(c)' = Acknowledged(c) \cup {last} /\ last \notin Acknowledged(c)
        BY <1>6, <2>1
      <4>2. IsFiniteSet(Acknowledged(c))
        BY CountTypes
      <4> QED
        BY <4>1, <4>2, OneMore
    <3>3. Cardinality(Acknowledged(c)) \in Nat
      BY CountTypes
    <3> QED
      BY <3>1, <3>2, <3>3 DEF CarriedOut
  <2>2. CASE ~own
    <3>1. Cardinality(Finished(c)') = Cardinality(Finished(c))
      BY <1>1, <1>3, <1>4, <2>2, MovedCounts
    <3> QED
      BY <1>6, <2>2, <3>1 DEF CarriedOut
  <2> QED
    BY <2>1, <2>2
<1>8. Due(c)' = Due(c) /\ Due(c) \in Nat
  <2>1. Cardinality(Coming(c)') = Cardinality(Coming(c))
    BY <1>1, <1>3, MovedCounts
  <2> QED
    BY <1>2, <2>1, CountTypes DEF Due, Queued
<1>9. Sofar(c, d)' = Sofar(c, d) /\ Rest(c, d)' = Rest(c, d)
  BY <1>1, <1>2, SofarStands
<1>10. Copies(c, d)' = Copies(c, d)
  BY <1>2 DEF Copies, In
<1>11. Indexes(told[c])' => Once(c, d) <= Copies(c, d)
  <2> SUFFICES ASSUME Indexes(told[c])' PROVE Once(c, d) <= Copies(c, d)
    OBVIOUS
  <2>1. CASE told'[c] = told[c]
    BY <2>1 DEF Indexes, Balanced
  <2>2. CASE told'[c] # told[c]
    <3>1. PICK b \in Clients : b = serving[w][1] /\ request[w] = Wanted[b]
      BY <1>1, <1>2, Served
    <3>2. told' = [told EXCEPT ![b] = answer[w]]
      BY <2>2, <3>1 DEF Reply
    <3>3. b = c /\ told'[c] = answer[w]
      BY <1>1, <2>2, <3>2 DEF SendsOK
    <3>4. w \in Finished(c)
      BY <3>1, <3>3 DEF Finished, Indexes
    <3>5. /\ Cardinality(Finished(c)) = Cardinality(Finished(c)') + 1
          /\ Cardinality(Finished(c)') \in Nat
      BY <1>1, <1>3, <3>4, MovedCounts
    <3>6. CarriedOut(c) \in Nat /\ 1 <= CarriedOut(c)
      BY <3>5, CountTypes DEF CarriedOut
    <3>7. /\ Once(c, d) \in Nat /\ Sofar(c, d) \in Nat /\ Copies(c, d) \in Nat
      BY CountTypes
    <3>8. 1 * Once(c, d) <= CarriedOut(c) * Once(c, d) /\ CarriedOut(c) * Once(c, d) \in Nat
      BY <3>6, <3>7, Products
    <3> QED
      BY <3>7, <3>8 DEF Balanced
  <2> QED
    BY <2>1, <2>2
<1>12. Due(c)' \in Nat /\ Due(c)' <= Due(c) /\ sends'[c] = sends[c]
  BY <1>2, <1>8
<1> QED
  BY <1>7, <1>9, <1>10, <1>11, <1>12, BalancedStands

LEMMA InitCopiesOK == LetaInit => CopiesOK
<1> SUFFICES ASSUME LetaInit, NEW c \in Ingesting, NEW d \in Own(c) PROVE Balanced(c, d)
  BY DEF CopiesOK
<1>1. c \in Clients /\ Wanted[c].uid \in Uids /\ Wanted[c].batch \in Seq(Documents)
  BY ClientsAssumption, RequestFields DEF Ingesting
<1>2. Once(c, d) \in Nat
  BY <1>1, InCounts DEF Once
<1>3. Copies(c, d) = 0
  <2>1. documents[Wanted[c].uid].sources = <<>>
    BY <1>1 DEF LetaInit, Init, EmptyIndex
  <2>2. {i \in DOMAIN documents[Wanted[c].uid].sources :
            documents[Wanted[c].uid].sources[i] = d} = {}
    BY <2>1
  <2> QED
    BY <2>2, FS_EmptySet DEF Copies, In
<1>4. Acknowledged(c) = {} /\ Finished(c) = {} /\ Queued(c) = {} /\ Coming(c) = {}
  BY DEF LetaInit, Init, Acknowledged, Finished, Queued, Coming, Indexes
<1>5. CarriedOut(c) = 0 /\ Due(c) = 0
  BY <1>4, FS_EmptySet DEF CarriedOut, Due
<1>6. Sofar(c, d) = 0 /\ Rest(c, d) = 0 /\ ~Indexes(told[c]) /\ sends[c] = 0
  BY <1>1, NotStoring DEF LetaInit, Init, Indexes
<1>7. 0 * Once(c, d) = 0
  BY <1>2, Products
<1> QED
  BY <1>3, <1>5, <1>6, <1>7 DEF Balanced

LEMMA NextCopiesOK ==
    ASSUME RepositoryInv, SendsOK, CopiesOK, [LetaNext]_<<vars, clientVars>>
    PROVE  CopiesOK'
<1> SUFFICES ASSUME NEW c \in Ingesting, NEW d \in Own(c) PROVE Balanced(c, d)'
  BY DEF CopiesOK
<1>1. TypeInv /\ [Next]_vars /\ TypeInv' /\ Balanced(c, d)
  BY RepositoryFacts, RepositoryStep, NextTypeInv DEF CopiesOK
<1>2. ASSUME NEW b \in Clients, Send(b) PROVE Balanced(c, d)'
  BY <1>1, <1>2, SendBalanced
<1>3. CASE UNCHANGED <<vars, sends, told, queue>>
  BY <1>1, <1>3 DEF Balanced, vars, CarriedOut, Acknowledged, Finished, Due, Coming,
     Queued, Copies, In, Sofar, Rest, Storing, Once
<1>4. CASE LoseRequest
  BY <1>1, <1>4, LoseBalanced
<1>5. ASSUME NEW w \in Workers, Take(w) PROVE Balanced(c, d)'
  BY <1>1, <1>5, TakeBalanced
<1>6. ASSUME NEW w \in Workers, Work(w) PROVE Balanced(c, d)'
  BY <1>1, <1>6, WorkBalanced
<1>7. ASSUME NEW w \in Workers, Reply(w) PROVE Balanced(c, d)'
  BY <1>1, <1>7, ReplyBalanced
<1>8. ASSUME NEW b \in Clients, GiveUp(b) PROVE Balanced(c, d)'
  BY <1>3, <1>8 DEF GiveUp
<1>9. CASE UNCHANGED <<vars, clientVars>>
  BY <1>3, <1>9 DEF clientVars
<1> QED
  BY <1>2, <1>4, <1>5, <1>6, <1>7, <1>8, <1>9 DEF LetaNext, Quiet

(* Every send is stored once if it was carried out and at most once        *)
(* otherwise, for any clients, pool, queue, failures and retries: a client *)
(* told 200 finds its documents, and without failures exactly a copy for   *)
(* each send that was carried out.                                         *)
THEOREM SendsStoredOnce == LetaSpec => []OneCopyPerSend
<1> DEFINE CountsInv == SendsOK /\ CopiesOK
<1>1. LetaInit => CountsInv
  BY InitSendsOK, InitCopiesOK
<1>2. RepositoryInv /\ CountsInv /\ [LetaNext]_<<vars, clientVars>> => CountsInv'
  BY RepositoryFacts, NextSendsOK, NextCopiesOK
<1>3. RepositoryInv /\ CountsInv => OneCopyPerSend
  <2> SUFFICES ASSUME RepositoryInv, CountsInv, mutex = NoWorker,
                      NEW c \in Ingesting, NEW d \in Own(c)
               PROVE  LET once == In(Wanted[c].batch, d) IN
                      /\ CarriedOut(c) * once <= Copies(c, d)
                      /\ Copies(c, d) <= sends[c] * once
                      /\ Indexes(told[c]) => Copies(c, d) >= once
                      /\ ~MayFail => Copies(c, d) = CarriedOut(c) * once
    BY DEF OneCopyPerSend
  <2>1. Balanced(c, d) /\ SendsOK
    BY DEF CopiesOK
  <2>2. Sofar(c, d) = 0 /\ Rest(c, d) = 0
    BY NotStoring
  <2>3. /\ Once(c, d) \in Nat /\ Copies(c, d) \in Nat /\ CarriedOut(c) \in Nat
        /\ Due(c) \in Nat /\ sends[c] \in Nat
    BY <2>1, CountTypes
  <2>4. /\ CarriedOut(c) * Once(c, d) \in Nat /\ Due(c) * Once(c, d) \in Nat
        /\ sends[c] * Once(c, d) \in Nat
    BY <2>3, Products
  <2>5. /\ CarriedOut(c) * Once(c, d) <= Copies(c, d)
        /\ Copies(c, d) <= sends[c] * Once(c, d)
        /\ Indexes(told[c]) => Once(c, d) <= Copies(c, d)
        /\ ~MayFail => Copies(c, d) = CarriedOut(c) * Once(c, d)
    BY <2>1, <2>2, <2>3, <2>4 DEF Balanced
  <2> QED
    BY <2>3, <2>5 DEF Once
<1> QED
  BY <1>1, <1>2, <1>3, RepositoryInvHolds, PTL DEF LetaSpec

==============================================================================
