------------------------ MODULE ServerLifecycleProofs -------------------------
(***************************************************************************)
(* Theorems about ServerLifecycle, for any number of threads, connections  *)
(* and requests.  Inv is inductive: OnePlaceEach says where a connection   *)
(* can be found, ProcessOK what main() has done by the place where it is,  *)
(* and that nothing is accepted once the first object is destroyed.        *)
(***************************************************************************)
EXTENDS ServerLifecycle, TLAPS

-----------------------------------------------------------------------------
(* A queue that a connection joins at its end. *)
LEMMA AppendHolds ==
    ASSUME NEW S, NEW s \in Seq(S), NEW e \in S, Distinct(s), ~Holds(s, e)
    PROVE  /\ Append(s, e) \in Seq(S)
           /\ Distinct(Append(s, e))
           /\ \A x : Holds(Append(s, e), x) <=> x = e \/ Holds(s, x)
<1>1. /\ Append(s, e) \in Seq(S)
      /\ Len(Append(s, e)) = Len(s) + 1
      /\ DOMAIN Append(s, e) = 1 .. Len(s) + 1
      /\ DOMAIN s = 1 .. Len(s)
      /\ Len(s) \in Nat
      /\ \A i \in 1 .. Len(s) : Append(s, e)[i] = s[i]
      /\ Append(s, e)[Len(s) + 1] = e
  OBVIOUS
<1>2. \A i \in 1 .. Len(s) + 1 : i \in 1 .. Len(s) \/ i = Len(s) + 1
  BY <1>1
<1>3. Distinct(Append(s, e))
  BY <1>1, <1>2 DEF Distinct, Holds
<1>4. \A x : Holds(Append(s, e), x) <=> x = e \/ Holds(s, x)
  BY <1>1, <1>2 DEF Holds
<1> QED BY <1>1, <1>3, <1>4

(* A queue that its first connection leaves. *)
LEMMA TailHolds ==
    ASSUME NEW S, NEW s \in Seq(S), s # <<>>, Distinct(s)
    PROVE  /\ Head(s) \in S
           /\ Holds(s, Head(s))
           /\ Tail(s) \in Seq(S)
           /\ Distinct(Tail(s))
           /\ \A x : Holds(Tail(s), x) <=> x # Head(s) /\ Holds(s, x)
<1>1. /\ Tail(s) \in Seq(S)
      /\ Len(s) \in Nat \ {0}
      /\ DOMAIN s = 1 .. Len(s)
      /\ DOMAIN Tail(s) = 1 .. Len(s) - 1
      /\ \A i \in 1 .. Len(s) - 1 : Tail(s)[i] = s[i + 1]
      /\ Head(s) = s[1]
      /\ Head(s) \in S
  OBVIOUS
<1>2. Holds(s, Head(s))
  BY <1>1 DEF Holds
<1>3. Distinct(Tail(s))
  <2> SUFFICES ASSUME NEW i \in 1 .. Len(s) - 1, NEW j \in 1 .. Len(s) - 1,
                      Tail(s)[i] = Tail(s)[j]
               PROVE  i = j
    BY <1>1 DEF Distinct
  <2>1. s[i + 1] = s[j + 1] /\ i + 1 \in 1 .. Len(s) /\ j + 1 \in 1 .. Len(s)
    BY <1>1
  <2>2. i + 1 = j + 1
    BY <1>1, <2>1 DEF Distinct
  <2> QED BY <2>2
<1>4. ASSUME NEW x
      PROVE  Holds(Tail(s), x) <=> x # Head(s) /\ Holds(s, x)
  <2>1. ASSUME NEW i \in 1 .. Len(s) - 1, Tail(s)[i] = x
        PROVE  x # Head(s) /\ Holds(s, x)
    <3>1. i + 1 \in 1 .. Len(s) /\ s[i + 1] = x /\ i + 1 # 1 /\ 1 \in 1 .. Len(s)
      BY <1>1, <2>1
    <3> QED BY <1>1, <3>1 DEF Distinct, Holds
  <2>2. ASSUME NEW i \in 1 .. Len(s), s[i] = x, x # Head(s)
        PROVE  Holds(Tail(s), x)
    <3>1. i # 1
      BY <1>1, <2>2
    <3>2. i - 1 \in 1 .. Len(s) - 1 /\ (i - 1) + 1 = i
      BY <1>1, <3>1
    <3>3. Tail(s)[i - 1] = x
      BY <1>1, <2>2, <3>2
    <3> QED BY <1>1, <3>2, <3>3 DEF Holds
  <2> QED BY <1>1, <2>1, <2>2 DEF Holds
<1> QED BY <1>1, <1>2, <1>3, <1>4

(* A queue of nothing holds nothing. *)
LEMMA EmptyHolds == \A x : ~Holds(<<>>, x)
<1> QED BY DEF Holds

(* The server is the last of serve()'s five objects. *)
LEMMA TheObjects ==
    /\ Len(Declared) = 5
    /\ Declared[5] = "server"
    /\ \A i \in 1 .. 4 : Declared[i] # "server"
<1> QED BY DEF Declared

-----------------------------------------------------------------------------
(* The invariant holds before main() has looked at its arguments.          *)
THEOREM InvInit == Init => Inv
<1> SUFFICES ASSUME Init PROVE Inv
  OBVIOUS
<1>1. TypeOK
  <2>1. /\ backlog \in Seq(Connections) /\ queue \in Seq(Connections)
        /\ serving \in [Threads -> Connections \cup {NoConnection}]
    BY DEF Init
  <2>2. phase \in [Connections -> {"new", "backlog", "queued", "closed"} \cup Held]
    BY DEF Init
  <2>3. exchanges \in [Connections -> 0 .. MaxExchanges]
    BY LifecycleAssumption DEF Init
  <2>4. available \in BOOLEAN /\ health \subseteq {"available", "starting"}
    BY DEF Init
  <2>5. arguments \in {"none", "version", "other"} /\ main = "start" /\ pool \subseteq Threads
        /\ ended = "no" /\ status \in 0 .. 2 /\ built \in 0 .. Len(Declared)
    BY TheObjects DEF Init
  <2> QED BY <2>1, <2>2, <2>3, <2>4, <2>5 DEF TypeOK
<1>2. OnePlaceEach
  BY LifecycleAssumption, EmptyHolds DEF Init, OnePlaceEach, Distinct, Held
<1>3. ProcessOK /\ HealthNeverStarting /\ ExitStatusTells
  BY DEF Init, ProcessOK, HealthNeverStarting, ExitStatusTells, Listening, Idle
<1> QED BY <1>1, <1>2, <1>3 DEF Inv

(* What a step of main() leaves as it is, when it touches no connection. *)
LEMMA TrafficStands ==
    ASSUME Inv, UNCHANGED <<pool, traffic>>
    PROVE  OnePlaceEach' /\ HealthNeverStarting'
<1> QED BY DEF Inv, OnePlaceEach, HealthNeverStarting, traffic, Held, Holds, Distinct

LEMMA CloseSocketKeepsPlaces ==
    ASSUME Inv, CloseSocket, UNCHANGED pool
    PROVE  /\ OnePlaceEach' /\ HealthNeverStarting'
           /\ backlog' \in Seq(Connections)
           /\ phase' \in [Connections -> {"new", "backlog", "queued", "closed"} \cup Held]
<1> USE DEF Inv, CloseSocket
<1>1. /\ backlog' = <<>>
      /\ backlog' \in Seq(Connections)
      /\ phase' \in [Connections -> {"new", "backlog", "queued", "closed"} \cup Held]
  BY DEF TypeOK, Held
<1>2. ASSUME NEW c \in Connections
      PROVE  /\ (phase[c] \in Held)' <=> \E t \in Threads : serving'[t] = c
             /\ phase'[c] = "queued" <=> Holds(queue', c)
             /\ phase'[c] = "backlog" <=> Holds(backlog', c)
  BY <1>1, EmptyHolds DEF OnePlaceEach, TypeOK, Held
<1>3. OnePlaceEach'
  BY <1>1, <1>2 DEF OnePlaceEach, Distinct
<1> QED BY <1>1, <1>3 DEF HealthNeverStarting

LEMMA ReadArgumentsKeepsInv == Inv /\ ReadArguments => Inv'
<1> SUFFICES ASSUME Inv, ReadArguments PROVE Inv'
  OBVIOUS
<1>1. OnePlaceEach' /\ HealthNeverStarting'
  BY TrafficStands DEF ReadArguments
<1>2. TypeOK'
  BY DEF Inv, TypeOK, ReadArguments, MainGoes, Exit, traffic
<1>3. ProcessOK' /\ ExitStatusTells'
  BY TheObjects DEF Inv, TypeOK, ProcessOK, ExitStatusTells, ReadArguments, MainGoes, Exit, traffic,
     Listening, Idle
<1> QED BY <1>1, <1>2, <1>3 DEF Inv

LEMMA ConstructKeepsInv == Inv /\ Construct => Inv'
<1> SUFFICES ASSUME Inv, Construct PROVE Inv'
  OBVIOUS
<1>1. OnePlaceEach' /\ HealthNeverStarting'
  BY TrafficStands DEF Construct
<1>2. CASE Leave(1) /\ UNCHANGED built
  <2>1. TypeOK'
    BY <1>2 DEF Inv, TypeOK, Construct, Leave, traffic
  <2>2. ProcessOK' /\ ExitStatusTells'
    BY <1>2 DEF Inv, TypeOK, ProcessOK, ExitStatusTells, Construct, Leave, traffic, Listening, Idle
  <2> QED BY <1>1, <2>1, <2>2 DEF Inv
<1>3. CASE /\ built' = built + 1
           /\ MainGoes(IF built' = Len(Declared) THEN "bind" ELSE "construct")
  <2>1. built' \in 1 .. Len(Declared) /\ Len(Declared) = 5
    BY <1>3, TheObjects DEF Inv, TypeOK, ProcessOK, Construct
  <2>2. TypeOK'
    BY <1>3, <2>1 DEF Inv, TypeOK, Construct, MainGoes, traffic
  <2>3. ProcessOK' /\ ExitStatusTells'
    BY <1>3, <2>1 DEF Inv, TypeOK, ProcessOK, ExitStatusTells, Construct, MainGoes, traffic,
       Listening, Idle
  <2> QED BY <1>1, <2>2, <2>3 DEF Inv
<1> QED BY <1>2, <1>3 DEF Construct

LEMMA BindKeepsInv == Inv /\ Bind => Inv'
<1> SUFFICES ASSUME Inv, Bind PROVE Inv'
  OBVIOUS
<1>1. OnePlaceEach' /\ HealthNeverStarting'
  BY TrafficStands DEF Bind
<1>2. TypeOK'
  BY DEF Inv, TypeOK, Bind, MainGoes, Leave, traffic
<1>3. ProcessOK' /\ ExitStatusTells'
  BY DEF Inv, TypeOK, ProcessOK, ExitStatusTells, Bind, MainGoes, Leave, traffic,
     Listening, Idle
<1> QED BY <1>1, <1>2, <1>3 DEF Inv

LEMMA MarkAvailableKeepsInv == Inv /\ MarkAvailable => Inv'
<1> SUFFICES ASSUME Inv, MarkAvailable PROVE Inv'
  OBVIOUS
<1>1. OnePlaceEach' /\ HealthNeverStarting'
  BY TrafficStands DEF MarkAvailable
<1>2. TypeOK'
  BY DEF Inv, TypeOK, MarkAvailable, MainGoes, traffic
<1>3. ProcessOK' /\ ExitStatusTells'
  BY DEF Inv, TypeOK, ProcessOK, ExitStatusTells, MarkAvailable, MainGoes, traffic,
     Listening, Idle
<1> QED BY <1>1, <1>2, <1>3 DEF Inv

LEMMA ReturnKeepsInv == Inv /\ Return => Inv'
<1> SUFFICES ASSUME Inv, Return PROVE Inv'
  OBVIOUS
<1>1. OnePlaceEach' /\ HealthNeverStarting'
  BY TrafficStands DEF Return
<1>2. TypeOK'
  BY DEF Inv, TypeOK, Return, Leave, traffic
<1>3. ProcessOK' /\ ExitStatusTells'
  BY DEF Inv, TypeOK, ProcessOK, ExitStatusTells, Return, Leave, traffic, Listening, Idle
<1> QED BY <1>1, <1>2, <1>3 DEF Inv

(* The server goes first, and with nothing accepted. *)
LEMMA DestroyKeepsInv == Inv /\ Destroy => Inv'
<1> SUFFICES ASSUME Inv, Destroy PROVE Inv'
  OBVIOUS
<1>1. OnePlaceEach' /\ HealthNeverStarting'
  BY TrafficStands DEF Destroy
<1>2. built' \in 0 .. Len(Declared)
  BY TheObjects DEF Inv, TypeOK, Destroy
<1>3. TypeOK'
  BY <1>2 DEF Inv, TypeOK, Destroy, traffic
<1>4. Idle
  BY TheObjects DEF Inv, ProcessOK, Destroy
<1>5. ProcessOK' /\ ExitStatusTells'
  BY <1>4 DEF Inv, TypeOK, ProcessOK, ExitStatusTells, Destroy, traffic, Listening, Idle
<1> QED BY <1>1, <1>3, <1>5 DEF Inv

LEMMA FinishKeepsInv == Inv /\ Finish => Inv'
<1> SUFFICES ASSUME Inv, Finish PROVE Inv'
  OBVIOUS
<1>1. OnePlaceEach' /\ HealthNeverStarting'
  BY TrafficStands DEF Finish
<1>2. TypeOK'
  BY DEF Inv, TypeOK, Finish, MainGoes, traffic
<1>3. Idle
  BY TheObjects DEF Inv, ProcessOK, Finish
<1>4. ProcessOK' /\ ExitStatusTells'
  BY <1>3 DEF Inv, TypeOK, ProcessOK, ExitStatusTells, Finish, MainGoes, traffic, Listening, Idle
<1> QED BY <1>1, <1>2, <1>4 DEF Inv

LEMMA RunKeepsInv == Inv /\ Run => Inv'
<1> SUFFICES ASSUME Inv, Run PROVE Inv'
  OBVIOUS
<1>1. CASE MainGoes("accept") /\ UNCHANGED traffic
  <2>1. OnePlaceEach' /\ HealthNeverStarting'
    BY <1>1, TrafficStands DEF Run
  <2>2. TypeOK'
    BY <1>1 DEF Inv, TypeOK, Run, MainGoes, traffic
  <2>3. ProcessOK' /\ ExitStatusTells'
    BY <1>1 DEF Inv, TypeOK, ProcessOK, ExitStatusTells, Run, MainGoes, traffic, Listening, Idle
  <2> QED BY <2>1, <2>2, <2>3 DEF Inv
<1>2. CASE Leave(1) /\ CloseSocket
  <2>1. /\ OnePlaceEach' /\ HealthNeverStarting'
        /\ backlog' \in Seq(Connections)
        /\ phase' \in [Connections -> {"new", "backlog", "queued", "closed"} \cup Held]
    BY <1>2, CloseSocketKeepsPlaces DEF Run
  <2>2. TypeOK'
    BY <1>2, <2>1 DEF Inv, TypeOK, Run, Leave, CloseSocket, Held
  <2>3. ProcessOK' /\ ExitStatusTells'
    BY <1>2 DEF Inv, TypeOK, ProcessOK, ExitStatusTells, Run, Leave, CloseSocket, Listening,
       Idle
  <2> QED BY <2>1, <2>2, <2>3 DEF Inv
<1> QED BY <1>1, <1>2 DEF Run

LEMMA StopAcceptingKeepsInv == Inv /\ StopAccepting => Inv'
<1> SUFFICES ASSUME Inv, StopAccepting PROVE Inv'
  OBVIOUS
<1>1. /\ OnePlaceEach' /\ HealthNeverStarting'
      /\ backlog' \in Seq(Connections)
      /\ phase' \in [Connections -> {"new", "backlog", "queued", "closed"} \cup Held]
  BY CloseSocketKeepsPlaces DEF StopAccepting
<1>2. TypeOK'
  BY <1>1 DEF Inv, TypeOK, StopAccepting, MainGoes, CloseSocket, Held
<1>3. ProcessOK' /\ ExitStatusTells'
  BY DEF Inv, TypeOK, ProcessOK, ExitStatusTells, StopAccepting, MainGoes, CloseSocket,
     Listening, Idle
<1> QED BY <1>1, <1>2, <1>3 DEF Inv

-----------------------------------------------------------------------------
(* The steps of clients and threads.  None of them moves main(), and they  *)
(* accept a connection only while it is in run().                          *)
LEMMA ProcessStands ==
    ASSUME Inv, UNCHANGED process,
           main = "accept" \/ ~Idle \/ UNCHANGED <<queue, serving>>,
           Listening \/ UNCHANGED backlog
    PROVE  ProcessOK' /\ ExitStatusTells'
<1>1. Listening' <=> Listening
  BY DEF process, Listening
<1>2. (~Idle)' => main \in {"accept", "stopped", "unwind"} /\ built = Len(Declared) /\ available
  <2>1. CASE main = "accept"
    BY <2>1 DEF Inv, ProcessOK
  <2>2. CASE ~Idle
    BY <2>2 DEF Inv, ProcessOK
  <2>3. CASE UNCHANGED <<queue, serving>>
    BY <2>3 DEF Inv, ProcessOK, Idle
  <2> QED BY <2>1, <2>2, <2>3
<1>3. ProcessOK'
  BY <1>1, <1>2 DEF Inv, ProcessOK, process, Listening
<1> QED BY <1>3 DEF Inv, ExitStatusTells, process

LEMMA ConnectKeepsInv ==
    ASSUME Inv, NEW c \in Connections, Connect(c)
    PROVE  Inv'
<1> USE DEF Inv, Connect, process
<1>1. ~Holds(backlog, c) /\ ~Holds(queue, c)
  BY DEF OnePlaceEach
<1>2. /\ backlog' \in Seq(Connections) /\ Distinct(backlog')
      /\ \A x : Holds(backlog', x) <=> x = c \/ Holds(backlog, x)
  BY <1>1, AppendHolds DEF TypeOK, OnePlaceEach
<1>3. TypeOK'
  BY <1>2 DEF TypeOK
<1>4. ASSUME NEW d \in Connections
      PROVE  /\ (phase[d] \in Held)' <=> \E t \in Threads : serving'[t] = d
             /\ phase'[d] = "queued" <=> Holds(queue', d)
             /\ phase'[d] = "backlog" <=> Holds(backlog', d)
  BY <1>2 DEF OnePlaceEach, TypeOK, Held
<1>5. OnePlaceEach'
  BY <1>2, <1>4 DEF OnePlaceEach
<1>6. ProcessOK' /\ ExitStatusTells' /\ HealthNeverStarting'
  BY ProcessStands DEF HealthNeverStarting
<1> QED BY <1>3, <1>5, <1>6

LEMMA AcceptKeepsInv == Inv /\ Accept => Inv'
<1> SUFFICES ASSUME Inv, Accept PROVE Inv'
  OBVIOUS
<1> USE DEF Inv, Accept, process
<1> DEFINE c == Head(backlog)
<1>1. /\ c \in Connections /\ Holds(backlog, c)
      /\ backlog' \in Seq(Connections) /\ Distinct(backlog')
      /\ \A x : Holds(backlog', x) <=> x # c /\ Holds(backlog, x)
  BY TailHolds DEF TypeOK, OnePlaceEach
<1>2. phase[c] = "backlog" /\ ~Holds(queue, c)
  BY <1>1 DEF OnePlaceEach
<1>3. /\ queue' \in Seq(Connections) /\ Distinct(queue')
      /\ \A x : Holds(queue', x) <=> x = c \/ Holds(queue, x)
  BY <1>1, <1>2, AppendHolds DEF TypeOK, OnePlaceEach
<1>4. TypeOK'
  BY <1>1, <1>3 DEF TypeOK
<1>5. ASSUME NEW d \in Connections
      PROVE  /\ (phase[d] \in Held)' <=> \E t \in Threads : serving'[t] = d
             /\ phase'[d] = "queued" <=> Holds(queue', d)
             /\ phase'[d] = "backlog" <=> Holds(backlog', d)
  BY <1>1, <1>2, <1>3 DEF OnePlaceEach, TypeOK, Held
<1>6. OnePlaceEach'
  BY <1>1, <1>3, <1>5 DEF OnePlaceEach
<1>7. ProcessOK' /\ ExitStatusTells' /\ HealthNeverStarting'
  BY ProcessStands DEF HealthNeverStarting, Listening
<1> QED BY <1>4, <1>6, <1>7

LEMMA TakeKeepsInv ==
    ASSUME Inv, NEW t \in Threads, Take(t)
    PROVE  Inv'
<1> USE DEF Inv, Take, process
<1> DEFINE c == Head(queue)
<1>1. /\ c \in Connections /\ Holds(queue, c)
      /\ queue' \in Seq(Connections) /\ Distinct(queue')
      /\ \A x : Holds(queue', x) <=> x # c /\ Holds(queue, x)
  BY TailHolds DEF TypeOK, OnePlaceEach
<1>2. /\ phase[c] = "queued" /\ ~Holds(backlog, c)
      /\ \A s \in Threads : serving[s] # c
  BY <1>1 DEF OnePlaceEach, Held
<1>3. /\ serving' \in [Threads -> Connections \cup {NoConnection}]
      /\ serving'[t] = c
      /\ \A s \in Threads \ {t} : serving'[s] = serving[s]
  BY <1>1 DEF TypeOK
<1>4. TypeOK'
  BY <1>1, <1>3 DEF TypeOK, Held
<1>5. ASSUME NEW d \in Connections
      PROVE  /\ (phase[d] \in Held)' <=> \E s \in Threads : serving'[s] = d
             /\ phase'[d] = "queued" <=> Holds(queue', d)
             /\ phase'[d] = "backlog" <=> Holds(backlog', d)
  <2>1. CASE d = c
    BY <1>1, <1>2, <1>3, <2>1 DEF TypeOK, Held
  <2>2. CASE d # c
    <3>1. phase'[d] = phase[d]
      BY <2>2 DEF TypeOK
    <3>2. (\E s \in Threads : serving'[s] = d) <=> (\E s \in Threads : serving[s] = d)
      BY <1>3, <2>2, LifecycleAssumption
    <3> QED BY <1>1, <2>2, <3>1, <3>2 DEF OnePlaceEach, Held
  <2> QED BY <2>1, <2>2
<1>6. OnePlaceEach'
  <2>1. \A s \in Threads : serving'[s] # NoConnection => s \in pool'
    BY <1>3 DEF OnePlaceEach
  <2>2. \A r, s \in Threads : serving'[r] = serving'[s] => r = s \/ serving'[r] = NoConnection
    BY <1>2, <1>3 DEF OnePlaceEach
  <2> QED BY <1>1, <1>5, <2>1, <2>2 DEF OnePlaceEach
<1>7. ProcessOK' /\ ExitStatusTells' /\ HealthNeverStarting'
  BY ProcessStands DEF HealthNeverStarting, Idle
<1> QED BY <1>4, <1>6, <1>7

(* A connection that a thread keeps moves on with it. *)
LEMMA HeldMoves ==
    ASSUME Inv, NEW t \in Threads, serving[t] # NoConnection, NEW place \in Held,
           phase' = [phase EXCEPT ![serving[t]] = place],
           UNCHANGED <<process, backlog, queue, serving>>
    PROVE  /\ phase' \in [Connections -> {"new", "backlog", "queued", "closed"} \cup Held]
           /\ OnePlaceEach' /\ ProcessOK' /\ ExitStatusTells'
<1> USE DEF Inv, process
<1>1. serving[t] \in Connections /\ phase[serving[t]] \in Held
  BY DEF TypeOK, OnePlaceEach
<1>2. phase' \in [Connections -> {"new", "backlog", "queued", "closed"} \cup Held]
  BY <1>1 DEF TypeOK
<1>3. ASSUME NEW d \in Connections
      PROVE  /\ (phase[d] \in Held)' <=> \E s \in Threads : serving'[s] = d
             /\ phase'[d] = "queued" <=> Holds(queue', d)
             /\ phase'[d] = "backlog" <=> Holds(backlog', d)
  BY <1>1 DEF OnePlaceEach, TypeOK, Held
<1>4. OnePlaceEach'
  BY <1>3 DEF OnePlaceEach
<1> QED BY <1>2, <1>4, ProcessStands

LEMMA ReadRequestKeepsInv ==
    ASSUME Inv, NEW t \in Threads, ReadRequest(t)
    PROVE  Inv'
<1>1. /\ phase' \in [Connections -> {"new", "backlog", "queued", "closed"} \cup Held]
      /\ OnePlaceEach' /\ ProcessOK' /\ ExitStatusTells'
  BY HeldMoves DEF ReadRequest, In, Held
<1>2. exchanges' \in [Connections -> 0 .. MaxExchanges]
  BY LifecycleAssumption DEF Inv, TypeOK, ReadRequest, In
<1>3. TypeOK' /\ HealthNeverStarting'
  BY <1>1, <1>2 DEF Inv, TypeOK, HealthNeverStarting, ReadRequest, process
<1> QED BY <1>1, <1>3 DEF Inv

LEMMA HandleKeepsInv ==
    ASSUME Inv, NEW t \in Threads, Handle(t)
    PROVE  Inv'
<1>1. /\ phase' \in [Connections -> {"new", "backlog", "queued", "closed"} \cup Held]
      /\ OnePlaceEach' /\ ProcessOK' /\ ExitStatusTells'
  BY HeldMoves DEF Handle, In, Held
<1>2. available
  BY DEF Inv, ProcessOK, Handle, In, Idle
<1>3. HealthNeverStarting'
  BY <1>2 DEF Inv, HealthNeverStarting, Handle, HealthResponse
<1>4. TypeOK'
  BY <1>1, <1>3 DEF Inv, TypeOK, HealthNeverStarting, Handle, process
<1> QED BY <1>1, <1>3, <1>4 DEF Inv

LEMMA KeepAliveKeepsInv ==
    ASSUME Inv, NEW t \in Threads, KeepAlive(t)
    PROVE  Inv'
<1>1. /\ phase' \in [Connections -> {"new", "backlog", "queued", "closed"} \cup Held]
      /\ OnePlaceEach' /\ ProcessOK' /\ ExitStatusTells'
  BY HeldMoves DEF KeepAlive, In, Held
<1>2. TypeOK' /\ HealthNeverStarting'
  BY <1>1 DEF Inv, TypeOK, HealthNeverStarting, KeepAlive, process
<1> QED BY <1>1, <1>2 DEF Inv

LEMMA TimeOutKeepsInv ==
    ASSUME Inv, NEW t \in Threads, TimeOut(t)
    PROVE  Inv'
<1> USE DEF Inv, TimeOut, Close, In, process
<1> DEFINE c == serving[t]
<1>1. c \in Connections /\ phase[c] \in Held /\ ~Idle
  BY DEF TypeOK, Held, Idle
<1>2. /\ serving' \in [Threads -> Connections \cup {NoConnection}]
      /\ serving'[t] = NoConnection
      /\ \A s \in Threads \ {t} : serving'[s] = serving[s] /\ serving[s] # c
  BY <1>1, LifecycleAssumption DEF TypeOK, OnePlaceEach
<1>3. TypeOK'
  BY <1>1, <1>2 DEF TypeOK
<1>4. ASSUME NEW d \in Connections
      PROVE  /\ (phase[d] \in Held)' <=> \E s \in Threads : serving'[s] = d
             /\ phase'[d] = "queued" <=> Holds(queue', d)
             /\ phase'[d] = "backlog" <=> Holds(backlog', d)
  <2>1. CASE d = c
    BY <1>1, <1>2, <2>1, LifecycleAssumption DEF OnePlaceEach, TypeOK, Held
  <2>2. CASE d # c
    <3>1. phase'[d] = phase[d]
      BY <2>2 DEF TypeOK
    <3>2. (\E s \in Threads : serving'[s] = d) <=> (\E s \in Threads : serving[s] = d)
      BY <1>2, <2>2, LifecycleAssumption
    <3> QED BY <3>1, <3>2 DEF OnePlaceEach, Held
  <2> QED BY <2>1, <2>2
<1>5. OnePlaceEach'
  <2>1. \A s \in Threads : serving'[s] # NoConnection => s \in pool'
    BY <1>2 DEF OnePlaceEach
  <2>2. \A r, s \in Threads : serving'[r] = serving'[s] => r = s \/ serving'[r] = NoConnection
    BY <1>2 DEF OnePlaceEach
  <2> QED BY <1>4, <2>1, <2>2 DEF OnePlaceEach
<1>6. ProcessOK' /\ ExitStatusTells' /\ HealthNeverStarting'
  BY <1>1, ProcessStands DEF HealthNeverStarting
<1> QED BY <1>3, <1>5, <1>6

LEMMA StutterKeepsInv == Inv /\ UNCHANGED vars => Inv'
<1> SUFFICES ASSUME Inv, UNCHANGED vars PROVE Inv'
  OBVIOUS
<1>1. OnePlaceEach' /\ HealthNeverStarting'
  BY TrafficStands DEF vars, process
<1>2. ProcessOK' /\ ExitStatusTells'
  BY ProcessStands DEF vars, traffic
<1>3. TypeOK'
  BY DEF Inv, TypeOK, vars, process, traffic
<1> QED BY <1>1, <1>2, <1>3 DEF Inv

-----------------------------------------------------------------------------
(* serve(), httplib_server.cpp: each connection is in one place and one    *)
(* thread's at most, wherever main() is.                                   *)
THEOREM LifecycleInv == Spec => []Inv
<1>1. Init => Inv
  BY InvInit
<1>2. Inv /\ [Next]_vars => Inv'
  <2> SUFFICES ASSUME Inv, [Next]_vars PROVE Inv'
    OBVIOUS
  <2>1. CASE Startup
    BY <2>1, ReadArgumentsKeepsInv, ConstructKeepsInv, BindKeepsInv, MarkAvailableKeepsInv,
       RunKeepsInv, ReturnKeepsInv, DestroyKeepsInv, FinishKeepsInv DEF Startup
  <2>2. CASE StopAccepting
    BY <2>2, StopAcceptingKeepsInv
  <2>3. CASE Accept
    BY <2>3, AcceptKeepsInv
  <2>4. CASE Rest \/ UNCHANGED vars
    BY <2>4, StutterKeepsInv DEF Rest
  <2>5. CASE \E c \in Connections : Connect(c)
    BY <2>5, ConnectKeepsInv
  <2>6. CASE \E t \in Threads : Take(t) \/ ReadRequest(t) \/ TimeOut(t) \/ Handle(t)
                                \/ KeepAlive(t)
    BY <2>6, TakeKeepsInv, ReadRequestKeepsInv, TimeOutKeepsInv, HandleKeepsInv,
       KeepAliveKeepsInv
  <2> QED BY <2>1, <2>2, <2>3, <2>4, <2>5, <2>6 DEF Next
<1> QED BY <1>1, <1>2, PTL DEF Spec

(* FR-60, main.cpp: no request is answered that the server is starting.    *)
THEOREM NobodyIsToldStarting == Spec => []HealthNeverStarting
<1>1. Inv => HealthNeverStarting
  BY DEF Inv
<1> QED BY <1>1, LifecycleInv, PTL

(* main.cpp:62: whatever a route reaches outlives every request, on every  *)
(* way out of serve().                                                     *)
THEOREM RoutesReachLiveObjects == Spec => []ObjectsOutliveRequests
<1>1. Inv => ObjectsOutliveRequests
  <2> SUFFICES ASSUME Inv, queue # <<>> \/ \E c \in Connections : phase[c] \in Held
               PROVE  "server" \in Live /\ \A object \in Live : RefersTo(object) \subseteq Live
    BY DEF ObjectsOutliveRequests
  <2>1. ~Idle
    BY LifecycleAssumption DEF Inv, OnePlaceEach, Idle
  <2>2. built = 5
    BY <2>1, TheObjects DEF Inv, ProcessOK
  <2>3. Live = {"health", "indexes", "index_service", "ingest_service", "server"}
    <3>1. Live = {Declared[i] : i \in {1, 2, 3, 4, 5}}
      BY <2>2 DEF Live
    <3> QED BY <3>1 DEF Declared
  <2> QED BY <2>3 DEF RefersTo
<1> QED BY <1>1, LifecycleInv, PTL

(* main.cpp: what the exit status says of why the program ended.           *)
THEOREM ExitStatusIsTheContract == Spec => []ExitStatusTells
<1>1. Inv => ExitStatusTells
  BY DEF Inv
<1> QED BY <1>1, LifecycleInv, PTL
==============================================================================
