--------------------------- MODULE ServerLifecycle ---------------------------
(***************************************************************************)
(* main.cpp's serve(), the HttpServer port it drives, and the pool that    *)
(* serves connections (httplib_server.cpp: configure_worker_pool,          *)
(* configure_limits, bind, run, stop; health_service, system_routes).      *)
(*                                                                         *)
(* External: the kernel keeps connections in a backlog while the socket    *)
(* listens; cpp-httplib's listener thread accepts them into an unbounded   *)
(* FIFO job queue; a thread of the pool keeps a connection for all its     *)
(* requests; stop() and a failing listener end the accepting.  The pool    *)
(* has drained its queue by the end of the server's destruction, which is  *)
(* what serve() relies on; that run() waits for it too is not assumed.     *)
(***************************************************************************)
EXTENDS Integers, Sequences, FiniteSets

CONSTANTS
    Threads,        \* the threads options.worker_threads can ask for
    Connections,    \* the connections clients open, each once
    NoConnection,   \* an idle worker's connection
    MaxExchanges    \* bound: requests a client sends on one connection

ASSUME LifecycleAssumption ==
    NoConnection \notin Connections /\ MaxExchanges \in Nat

VARIABLES
    arguments,  \* argv: "none", "version" or "other"
    main,       \* where main() and serve() are
    built,      \* how many of serve()'s objects exist, in Declared's order
    pool,       \* the pool's threads
    available,  \* HealthService::is_available_
    ended,      \* why the listener stopped accepting
    status,     \* what main() returns
    backlog,    \* connections the kernel holds for a listening socket
    queue,      \* accepted connections no worker has taken yet
    serving,    \* serving[t]: the connection thread t keeps
    phase,      \* phase[c]: where connection c is
    exchanges,  \* exchanges[c]: requests received on c
    health      \* what GET /health has answered

process == <<arguments, main, built, pool, available, ended, status>>
traffic == <<backlog, queue, serving, phase, exchanges, health>>
vars == <<process, traffic>>

Listening == main \in {"mark", "run", "accept"}
Held == {"reading", "handling", "writing"}

(* Mutant: a service is declared after the server. *)
DeclaredServiceLast == <<"health", "indexes", "index_service", "server", "ingest_service">>

(* serve()'s objects, in the order of their declarations. *)
Declared == <<"health", "indexes", "index_service", "ingest_service", "server">>

Live == {Declared[i] : i \in 1 .. built}

(* The references objects hold, the server those of its routes. *)
RefersTo(object) ==
    CASE object = "server" -> {"health", "index_service", "ingest_service"}
      [] object \in {"index_service", "ingest_service"} -> {"indexes"}
      [] OTHER -> {}

(* worker_threads is any number, 0 included; the pool is a set of threads. *)
Init ==
    /\ arguments \in {"none", "version", "other"}
    /\ main = "start"
    /\ built = 0
    /\ pool \in SUBSET Threads
    /\ available = FALSE
    /\ ended = "no"
    /\ status = 0
    /\ backlog = <<>>
    /\ queue = <<>>
    /\ serving = [t \in Threads |-> NoConnection]
    /\ phase = [c \in Connections |-> "new"]
    /\ exchanges = [c \in Connections |-> 0]
    /\ health = {}

MainGoes(place) == main' = place /\ UNCHANGED status
Exit(code) == main' = "exited" /\ status' = code

(* serve() is left, by a return or by an exception that main() catches. *)
Leave(code) == main' = "unwind" /\ status' = code

(* main() *)
ReadArguments ==
    /\ main = "start"
    /\ \/ arguments = "none" /\ MainGoes("construct")
       \/ arguments = "version" /\ Exit(0)
       \/ arguments = "other" /\ Exit(2)
    /\ UNCHANGED <<arguments, built, pool, available, ended, traffic>>

(* Mutant: an assert, gone in a Release build. *)
ConstructUnchecked ==
    /\ main = "construct"
    /\ built' = built + 1
    /\ MainGoes(IF built' = Len(Declared) THEN "bind" ELSE "construct")
    /\ UNCHANGED <<arguments, pool, available, ended, traffic>>

(* The next of the objects; behind the last one, the routes.  There is no  *)
(* HttplibServer with a pool of no threads: its constructor throws.        *)
Construct ==
    /\ main = "construct"
    /\ IF Declared[built + 1] = "server" /\ pool = {}
       THEN Leave(1) /\ UNCHANGED built
       ELSE /\ built' = built + 1
            /\ MainGoes(IF built' = Len(Declared) THEN "bind" ELSE "construct")
    /\ UNCHANGED <<arguments, pool, available, ended, traffic>>

(* The port is bound and listens, or serve() returns 1. *)
Bind ==
    /\ main = "bind"
    /\ MainGoes("mark") \/ Leave(1)
    /\ UNCHANGED <<arguments, built, pool, available, ended, traffic>>

(* Mutant: the mark is forgotten. *)
MarkNothing ==
    /\ main = "mark"
    /\ MainGoes("run")
    /\ UNCHANGED <<arguments, built, pool, available, ended, traffic>>

MarkAvailable ==
    /\ main = "mark"
    /\ available' = TRUE
    /\ MainGoes("run")
    /\ UNCHANGED <<arguments, built, pool, ended, traffic>>

(* The socket is closed, and the kernel drops what it held. *)
CloseSocket ==
    /\ backlog' = <<>>
    /\ phase' = [c \in Connections |->
                   IF phase[c] = "backlog" THEN "closed" ELSE phase[c]]
    /\ UNCHANGED <<queue, serving, exchanges, health>>

(* listen_after_bind(): the pool is created here, or its threads cannot be *)
(* and main() catches what is thrown.                                      *)
Run ==
    /\ main = "run"
    /\ \/ MainGoes("accept") /\ UNCHANGED traffic
       \/ Leave(1) /\ CloseSocket
    /\ UNCHANGED <<arguments, built, pool, available, ended>>

(* stop() from another thread, or accept() fails for good. *)
StopAccepting ==
    /\ main = "accept"
    /\ ended' \in {"stop", "failure"}
    /\ MainGoes("stopped")
    /\ CloseSocket
    /\ UNCHANGED <<arguments, built, pool, available>>

(* Mutant: the result of run() is not looked at. *)
ReturnZero ==
    /\ main = "stopped"
    /\ Leave(0)
    /\ UNCHANGED <<arguments, built, pool, available, ended, traffic>>

(* run() returns, and serve() makes a status of it.  Threads may still be  *)
(* at work.                                                                *)
Return ==
    /\ main = "stopped"
    /\ Leave(IF ended = "failure" THEN 1 ELSE 0)
    /\ UNCHANGED <<arguments, built, pool, available, ended, traffic>>

Idle == queue = <<>> /\ \A t \in Threads : serving[t] = NoConnection

(* The object declared last is destroyed first; the server stops its       *)
(* workers.                                                                *)
Destroy ==
    /\ main = "unwind"
    /\ built > 0
    /\ Declared[built] = "server" => Idle
    /\ built' = built - 1
    /\ UNCHANGED <<arguments, main, pool, available, ended, status, traffic>>

(* main() hands the status on. *)
Finish ==
    /\ main = "unwind"
    /\ built = 0
    /\ MainGoes("exited")
    /\ UNCHANGED <<arguments, built, pool, available, ended, traffic>>

(* A client connects. *)
Connect(c) ==
    /\ phase[c] = "new"
    /\ Listening
    /\ backlog' = Append(backlog, c)
    /\ phase' = [phase EXCEPT ![c] = "backlog"]
    /\ UNCHANGED <<process, queue, serving, exchanges, health>>

Accept ==
    /\ main = "accept"
    /\ backlog # <<>>
    /\ queue' = Append(queue, Head(backlog))
    /\ backlog' = Tail(backlog)
    /\ phase' = [phase EXCEPT ![Head(backlog)] = "queued"]
    /\ UNCHANGED <<process, serving, exchanges, health>>

(* Mutant: two threads look at the queue before either takes from it. *)
TakeUnlocked(t) ==
    /\ "server" \in Live /\ main \in {"accept", "stopped", "unwind"}
    /\ t \in pool
    /\ serving[t] = NoConnection
    /\ queue # <<>>
    /\ serving' = [serving EXCEPT ![t] = Head(queue)]
    /\ queue' \in {queue, Tail(queue)}
    /\ phase' = [phase EXCEPT ![Head(queue)] = "reading"]
    /\ UNCHANGED <<process, backlog, exchanges, health>>

(* A thread of the pool takes the connection that waits longest. *)
Take(t) ==
    /\ "server" \in Live /\ main \in {"accept", "stopped", "unwind"}
    /\ t \in pool
    /\ serving[t] = NoConnection
    /\ queue # <<>>
    /\ serving' = [serving EXCEPT ![t] = Head(queue)]
    /\ queue' = Tail(queue)
    /\ phase' = [phase EXCEPT ![Head(queue)] = "reading"]
    /\ UNCHANGED <<process, backlog, exchanges, health>>

In(t, place) == serving[t] # NoConnection /\ phase[serving[t]] = place

Close(t) ==
    /\ phase' = [phase EXCEPT ![serving[t]] = "closed"]
    /\ serving' = [serving EXCEPT ![t] = NoConnection]
    /\ UNCHANGED <<process, backlog, queue, exchanges, health>>

(* The client's next request arrives whole. *)
ReadRequest(t) ==
    LET c == serving[t] IN
    /\ In(t, "reading")
    /\ exchanges[c] < MaxExchanges
    /\ exchanges' = [exchanges EXCEPT ![c] = @ + 1]
    /\ phase' = [phase EXCEPT ![c] = "handling"]
    /\ UNCHANGED <<process, backlog, queue, serving, health>>

(* Mutant: no read timeout is set. *)
WriteTimesOut(t) == In(t, "writing") /\ Close(t)

(* read_timeout, write_timeout: a client that falls silent loses its       *)
(* connection, if it does not close it first.                              *)
TimeOut(t) == (In(t, "reading") \/ In(t, "writing")) /\ Close(t)

(* health_response(health.readiness()), for a request that asks. *)
HealthResponse == IF available THEN "available" ELSE "starting"

(* The route's handler, GET /health among them. *)
Handle(t) ==
    /\ In(t, "handling")
    /\ phase' = [phase EXCEPT ![serving[t]] = "writing"]
    /\ health' \in {health, health \cup {HealthResponse}}
    /\ UNCHANGED <<process, backlog, queue, serving, exchanges>>

(* The response is sent; a keep-alive connection keeps its thread, unless  *)
(* the server stops.                                                       *)
KeepAlive(t) ==
    /\ In(t, "writing")
    /\ main = "accept"
    /\ phase' = [phase EXCEPT ![serving[t]] = "reading"]
    /\ UNCHANGED <<process, backlog, queue, serving, exchanges, health>>

Startup == ReadArguments \/ Construct \/ Bind \/ MarkAvailable \/ Run \/ Return
           \/ Destroy \/ Finish

(* Every thread waits, for a client or a timeout, or the program is over.  *)
Rest ==
    /\ main \in {"accept", "stopped", "unwind", "exited"}
    /\ UNCHANGED vars

Next ==
    \/ Startup \/ StopAccepting \/ Accept \/ Rest
    \/ \E c \in Connections : Connect(c)
    \/ \E t \in Threads : Take(t) \/ ReadRequest(t) \/ TimeOut(t) \/ Handle(t)
                          \/ KeepAlive(t)

(* Threads that can run do, and clocks reach their timeouts.  Nothing is   *)
(* assumed of clients, nor that anyone stops the server.                   *)
Spec ==
    /\ Init /\ [][Next]_vars
    /\ WF_vars(Startup) /\ WF_vars(Accept)
    /\ \A t \in Threads : WF_vars(Take(t)) /\ WF_vars(Handle(t)) /\ WF_vars(TimeOut(t))

-----------------------------------------------------------------------------
(* Every variable has its type. *)
TypeOK ==
    /\ arguments \in {"none", "version", "other"}
    /\ main \in {"start", "construct", "bind", "mark", "run", "accept", "stopped",
                "unwind", "exited"}
    /\ built \in 0 .. Len(Declared)
    /\ pool \subseteq Threads
    /\ available \in BOOLEAN
    /\ ended \in {"no", "stop", "failure"}
    /\ status \in 0 .. 2
    /\ backlog \in Seq(Connections)
    /\ queue \in Seq(Connections)
    /\ serving \in [Threads -> Connections \cup {NoConnection}]
    /\ phase \in [Connections -> {"new", "backlog", "queued", "closed"} \cup Held]
    /\ exchanges \in [Connections -> 0 .. MaxExchanges]
    /\ health \subseteq {"available", "starting"}

(* FR-60, main.cpp: whoever asks is told that the server is available: a   *)
(* connection made as soon as the port is bound is not served before the   *)
(* mark.                                                                   *)
HealthNeverStarting == health \subseteq {"available"}

(* main.cpp:62, and "must outlive" in the headers of the services and the  *)
(* routes: while a thread has a request, or will be given one, the server  *)
(* is there with everything that can be reached from its routes, whichever *)
(* way serve() is left and however far it has unwound.                     *)
ObjectsOutliveRequests ==
    queue # <<>> \/ (\E c \in Connections : phase[c] \in Held) =>
        "server" \in Live /\ \A object \in Live : RefersTo(object) \subseteq Live

(* main.cpp: "the exit status is the contract": 0 for the version and for  *)
(* a server that was stopped, 2 for wrong arguments, and 1 when it could   *)
(* not start or its listener failed, whatever clients do meanwhile.        *)
ExitStatusTells ==
    main = "exited" =>
        /\ status = 0 <=> arguments = "version" \/ ended = "stop"
        /\ status = 2 <=> arguments = "other"
        /\ ended # "no" => arguments = "none"

(* http_server.hpp:93: a connection made between bind() and run() is       *)
(* served once run() starts, if the server is not stopped before.          *)
BacklogIsServed ==
    \A c \in Connections :
        phase[c] = "backlog" ~> phase[c] \in Held \/ main \in {"stopped", "unwind", "exited"}

(* "a connection beyond the pool waits for a worker instead of being       *)
(* refused": every accepted connection gets a thread, however long others  *)
(* are kept alive by clients that fall silent, and even when the server is *)
(* stopped meanwhile.                                                      *)
EveryAcceptedConnectionServed ==
    \A c \in Connections : phase[c] = "queued" ~> phase[c] \in Held

(* http_server.hpp:97: stop() makes run() return, and serve() after it:    *)
(* open connections, silent clients and a full queue do not hold up the    *)
(* destruction of the server.                                              *)
StopMakesRunReturn == main = "stopped" ~> main = "exited"

-----------------------------------------------------------------------------
(* The inductive invariant.                                                *)

Distinct(s) == \A i, j \in DOMAIN s : s[i] = s[j] => i = j
Holds(s, x) == \E i \in DOMAIN s : s[i] = x

(* Each connection is in one place, and one thread's at most. *)
OnePlaceEach ==
    /\ Distinct(backlog) /\ Distinct(queue)
    /\ \A t \in Threads : serving[t] # NoConnection => t \in pool
    /\ \A s, t \in Threads : serving[s] = serving[t] => s = t \/ serving[s] = NoConnection
    /\ \A c \in Connections :
          /\ phase[c] \in Held <=> \E t \in Threads : serving[t] = c
          /\ phase[c] = "queued" <=> Holds(queue, c)
          /\ phase[c] = "backlog" <=> Holds(backlog, c)

(* What main() has done where it is.  Only between run() and the end of    *)
(* the server is there anything accepted, and once the socket is closed    *)
(* nothing is held for it.                                                 *)
ProcessOK ==
    /\ main \notin {"start", "exited"} => arguments = "none"
    /\ main \in {"start", "exited"} => built = 0
    /\ main = "construct" => built < Len(Declared)
    /\ main \in {"bind", "mark", "run", "accept", "stopped"} => built = Len(Declared)
    /\ main \in {"run", "accept", "stopped"} => available
    /\ ~Idle => /\ main \in {"accept", "stopped", "unwind"}
                /\ built = Len(Declared) /\ available
    /\ ~Listening => backlog = <<>>
    /\ main \notin {"stopped", "unwind", "exited"} => ended = "no"
    /\ main = "stopped" => ended # "no"
    /\ main = "unwind" => status = (IF ended = "stop" THEN 0 ELSE 1)

Inv ==
    TypeOK /\ OnePlaceEach /\ ProcessOK /\ HealthNeverStarting /\ ExitStatusTells
==============================================================================
