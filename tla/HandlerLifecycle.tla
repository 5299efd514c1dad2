--------------------------- MODULE HandlerLifecycle ---------------------------
(***************************************************************************)
(* The main thread's bookkeeping: MultiThreadProxy::start and what it      *)
(* calls, with the parts of the handlers that it depends on.               *)
(*                                                                         *)
(* The main thread accepts a connection, makes a ClientConnectionHandler   *)
(* and a detached thread for it, and then goes once through its list of    *)
(* handlers to drop those whose threads have said that they are ready.  A  *)
(* client's thread may make a ServerConnectionHandler and a thread for it; *)
(* that handler belongs to the client's handler until the main thread, on  *)
(* dropping the client's handler, takes it over into the list.  The ids of *)
(* all threads are kept in one vector, threadIds.                          *)
(*                                                                         *)
(* What the threads do between their start and their end is CacheStream's  *)
(* subject; here they may take any course through handle.  The start and   *)
(* the end of the program are Shutdown's.                                  *)
(***************************************************************************)
EXTENDS Integers, FiniteSets, SequencesExt

CONSTANTS Connections,    \* the connections clients make
          Ids,            \* BOUND: the values of pthread_t threads can have at one time
          NoId,           \* a pthread_t that was not assigned, or is 0
          MaxConnections  \* MAX_CONNECTIONS

ASSUME HandlerAssumption == /\ IsFiniteSet(Connections)
                            /\ NoId \notin Ids
                            /\ MaxConnections \in Nat

(* A connection has at most two handlers. *)
Client(c) == <<c, "client">>
Server(c) == <<c, "server">>
Handlers == Connections \X {"client", "server"}

VARIABLES
    main,         \* where the main thread is
    conn,         \* start: the connection newSocketFd stands for
    list,         \* connectionHandlers
    iter,         \* checkConnectionHandlers: the position in the list
    threadIds,    \* the vector of thread ids, guarded by threadIdsMutex
    alive,        \* the handlers constructed and not destroyed
    thread,       \* where the thread of each handler is
    id,           \* what pthread_create gave as the id of that thread
    pthreadId,    \* ConnectionHandler.pthreadId
    ready,        \* ConnectionHandler.ready
    interrupted,  \* ConnectionHandler.interrupted
    socket,       \* the descriptor in the handler's socketFd
    inherited     \* AUXILIARY: threads that got the id of a handler still alive

mainVars == <<main, conn, list, iter>>
threadVars == <<thread, id, pthreadId, ready, inherited>>
objectVars == <<alive, interrupted, socket>>
vars == <<mainVars, threadIds, threadVars, objectVars>>

MainPC == {"accept", "register", "check", "server", "erase"}

(* A thread uses its handler until it has called setReady. *)
UsingHandler == {"started", "handle", "register", "serve", "close", "setReady"}

Existing == UsingHandler \cup {"return"}

ThreadPC == {"none", "ended"} \cup Existing

(* "wild": close was called on a socketFd that was never assigned. *)
SocketState == {"none", "open", "closed", "closedTwice", "wild"}

Init == /\ main = "accept"
        /\ conn \in Connections
        /\ list = << >>
        /\ iter = 1
        /\ threadIds = << >>
        /\ alive = {}
        /\ thread = [h \in Handlers |-> "none"]
        /\ id = [h \in Handlers |-> NoId]
        /\ pthreadId = [h \in Handlers |-> NoId]
        /\ ready = [h \in Handlers |-> FALSE]
        /\ interrupted = [h \in Handlers |-> TRUE]
        /\ socket = [h \in Handlers |-> "none"]
        /\ inherited = {}
-----------------------------------------------------------------------------
(* Threads: an id is free for the next thread once the last one has ended. *)

FreeIds == Ids \ {id[h] : h \in {g \in Handlers : thread[g] \in Existing}}

(* The id pthread_create gives the thread of h. *)
GiveId(h, i) ==
    /\ id' = [id EXCEPT ![h] = i]
    /\ inherited' = IF \E g \in alive : id[g] = i THEN inherited \cup {h} ELSE inherited

(* close, by the thread or by the destructor. *)
Close(s) == CASE s = "open" -> "closed"
              [] s = "closed" -> "closedTwice"
              [] s = "none" -> "wild"
              [] OTHER -> s

(* The destructors of both kinds of handler close what handle did not. *)
Destroy(D) ==
    /\ alive' = alive \ D
    /\ socket' = [h \in Handlers |-> IF h \in D /\ interrupted[h] THEN Close(socket[h])
                                                                 ELSE socket[h]]
    /\ UNCHANGED interrupted

(* Mutant of RemoveThreadId: the predicate of remove_if is negated. *)
KeepThreadId(i) == SelectSeq(threadIds, LAMBDA t : t = i)

(* All entries equal to i go, not only the caller's; the others keep their *)
(* order.                                                                  *)
RemoveThreadId(i) ==
    LET kept == {k \in DOMAIN threadIds : threadIds[k] # i}
        before(k) == {j \in kept : j < k}
    IN  [n \in 1 .. Cardinality(kept) |->
            threadIds[CHOOSE k \in kept : Cardinality(before(k)) = n - 1]]
-----------------------------------------------------------------------------
(* MultiThreadProxy: addNewConnection.                                     *)

(* Mutant of ReadyToConnect: room for the client and for its fetcher. *)
ReadyToConnectTwice == Len(threadIds) <= MaxConnections + 1

ReadyToConnect == Len(threadIds) <= MaxConnections

Arrive(c) == /\ main = "accept"
             /\ socket[Client(c)] = "none"
             /\ conn' = c

RejectConnection(c) ==
    /\ Arrive(c)
    /\ ~ReadyToConnect
    /\ socket' = [socket EXCEPT ![Client(c)] = "closed"]
    /\ main' = "check"
    /\ iter' = 1
    /\ UNCHANGED <<list, threadIds, threadVars, alive, interrupted>>

AddConnection(c) ==
    /\ Arrive(c)
    /\ ReadyToConnect
    /\ list' = Append(list, Client(c))
    /\ alive' = alive \cup {Client(c)}
    /\ socket' = [socket EXCEPT ![Client(c)] = "open"]
    /\ \E i \in FreeIds : GiveId(Client(c), i)
    /\ thread' = [thread EXCEPT ![Client(c)] = "started"]
    /\ main' = "register"
    /\ UNCHANGED <<iter, threadIds, pthreadId, ready, interrupted>>

(* pthread_create failed: the handler is removed from the list again, and  *)
(* its destructor closes the socket.                                       *)
AddConnectionFails(c) ==
    /\ Arrive(c)
    /\ ReadyToConnect
    /\ socket' = [socket EXCEPT ![Client(c)] = Close("open")]
    /\ main' = "check"
    /\ iter' = 1
    /\ UNCHANGED <<list, threadIds, threadVars, alive, interrupted>>

RegisterConnection ==
    /\ main = "register"
    /\ threadIds' = Append(threadIds, id[Client(conn)])
    /\ main' = "check"
    /\ iter' = 1
    /\ UNCHANGED <<conn, list, threadVars, objectVars>>
-----------------------------------------------------------------------------
(* MultiThreadProxy: checkConnectionHandlers.                              *)

Current == list[iter]

(* Mutant of SkipHandler: the iterator stays. *)
StayAtHandler == /\ main = "check"
                 /\ iter <= Len(list)
                 /\ ~ready[Current]
                 /\ UNCHANGED vars

SkipHandler == /\ main = "check"
               /\ iter <= Len(list)
               /\ ~ready[Current]
               /\ iter' = iter + 1
               /\ UNCHANGED <<main, conn, list, threadIds, threadVars, objectVars>>

(* isReady, removeThreadId, and isServerHandlerInitiator: the handler has  *)
(* made a server handler.                                                  *)
ReapHandler ==
    /\ main = "check"
    /\ iter <= Len(list)
    /\ ready[Current]
    /\ threadIds' = RemoveThreadId(pthreadId[Current])
    /\ main' = IF \E c \in Connections : Current = Client(c) /\ Server(c) \in alive
               THEN "server" ELSE "erase"
    /\ UNCHANGED <<conn, list, iter, threadVars, objectVars>>

(* Mutant of TakeOverServer: the server handler goes with its client. *)
DropServer == /\ main = "server"
              /\ ~ready[Server(Current[1])]
              /\ main' = "erase"
              /\ UNCHANGED <<conn, list, iter, threadIds, threadVars, objectVars>>

(* checkIsServerReady: the fetch goes on without its client. *)
TakeOverServer == /\ main = "server"
                  /\ ~ready[Server(Current[1])]
                  /\ list' = Append(list, Server(Current[1]))
                  /\ main' = "erase"
                  /\ UNCHANGED <<conn, iter, threadIds, threadVars, objectVars>>

(* Mutant of ReapServer: its id stays. *)
ReapServerOnly == /\ main = "server"
                  /\ ready[Server(Current[1])]
                  /\ main' = "erase"
                  /\ UNCHANGED <<conn, list, iter, threadIds, threadVars, objectVars>>

(* checkIsServerReady: the fetch is over as well. *)
ReapServer == /\ main = "server"
              /\ ready[Server(Current[1])]
              /\ threadIds' = RemoveThreadId(pthreadId[Server(Current[1])])
              /\ main' = "erase"
              /\ UNCHANGED <<conn, list, iter, threadVars, objectVars>>

(* Mutant of LastOwned: the client's handler deletes its server handler. *)
AlwaysOwned(h) == {h} \cup {g \in alive : h[2] = "client" /\ g = Server(h[1])}

(* The handlers that nothing points to once h has left the list: h, and    *)
(* its server handler unless that is in the list.                          *)
LastOwned(h) ==
    {h} \cup {g \in alive : h[2] = "client" /\ g = Server(h[1]) /\ ~Contains(list, g)}

(* Mutants of AfterErase: the iterator is set back, or advanced as well. *)
StepBack == iter - 1

StepOn == iter + 1

(* erase returns the position of the element behind. *)
AfterErase == iter

EraseHandler == /\ main = "erase"
                /\ list' = RemoveAt(list, iter)
                /\ iter' = AfterErase
                /\ Destroy(LastOwned(Current))
                /\ main' = "check"
                /\ UNCHANGED <<conn, threadIds, threadVars>>

EndCheck == /\ main = "check"
            /\ iter > Len(list)
            /\ main' = "accept"
            /\ UNCHANGED <<conn, list, iter, threadIds, threadVars, objectVars>>
-----------------------------------------------------------------------------
(* The threads of the handlers.                                            *)

Goto(h, next) == thread' = [thread EXCEPT ![h] = next]

(* startThread: setPthreadId. *)
StartThread(h) == /\ thread[h] = "started"
                  /\ pthreadId' = [pthreadId EXCEPT ![h] = id[h]]
                  /\ Goto(h, "handle")
                  /\ UNCHANGED <<mainVars, threadIds, objectVars, id, ready, inherited>>

(* initServerThread. *)
StartFetcher(c) == /\ thread[Client(c)] = "handle"
                   /\ alive' = alive \cup {Server(c)}
                   /\ \E i \in FreeIds : GiveId(Server(c), i)
                   /\ thread' = [thread EXCEPT ![Server(c)] = "started",
                                               ![Client(c)] = "register"]
                   /\ UNCHANGED <<mainVars, threadIds, pthreadId, ready, interrupted, socket>>

(* pthread_create failed, which leaves newThreadId 0 or an id that is not  *)
(* in use; what is left is registered all the same.                        *)
StartFetcherFails(c) == /\ thread[Client(c)] = "handle"
                        /\ alive' = alive \cup {Server(c)}
                        /\ \E i \in FreeIds \cup {NoId} : id' = [id EXCEPT ![Server(c)] = i]
                        /\ Goto(Client(c), "register")
                        /\ UNCHANGED <<mainVars, threadIds, pthreadId, ready, inherited,
                                       interrupted, socket>>

RegisterFetcher(c) == /\ thread[Client(c)] = "register"
                      /\ threadIds' = Append(threadIds, id[Server(c)])
                      /\ Goto(Client(c), "serve")
                      /\ UNCHANGED <<mainVars, objectVars, id, pthreadId, ready, inherited>>

(* Every way a client's handle ends leads to closeSocket. *)
FinishClient(c) == /\ thread[Client(c)] \in {"handle", "serve"}
                   /\ Goto(Client(c), "close")
                   /\ UNCHANGED <<mainVars, threadIds, objectVars, id, pthreadId, ready,
                                  inherited>>

(* A fetch that succeeds ends with closeSocket; one that fails ends        *)
(* without, before or after socketFd was assigned.                         *)
Fetch(c) == /\ thread[Server(c)] = "handle"
            /\ \/ /\ socket' = [socket EXCEPT ![Server(c)] = "open"]
                  /\ \E next \in {"close", "setReady"} : Goto(Server(c), next)
               \/ /\ Goto(Server(c), "setReady")
                  /\ UNCHANGED socket
            /\ UNCHANGED <<mainVars, threadIds, alive, interrupted, id, pthreadId, ready,
                           inherited>>

(* Mutant of CloseSocket: the destructor is not told. *)
CloseSocketSilently(h) ==
    /\ thread[h] = "close"
    /\ socket' = [socket EXCEPT ![h] = Close(@)]
    /\ Goto(h, "setReady")
    /\ UNCHANGED <<mainVars, threadIds, alive, interrupted, id, pthreadId, ready, inherited>>

(* closeSocket, and setInterrupted(false) for the destructor. *)
CloseSocket(h) ==
    /\ thread[h] = "close"
    /\ socket' = [socket EXCEPT ![h] = Close(@)]
    /\ interrupted' = [interrupted EXCEPT ![h] = FALSE]
    /\ Goto(h, "setReady")
    /\ UNCHANGED <<mainVars, threadIds, alive, id, pthreadId, ready, inherited>>

SetReady(h) == /\ thread[h] = "setReady"
               /\ ready' = [ready EXCEPT ![h] = TRUE]
               /\ Goto(h, "return")
               /\ UNCHANGED <<mainVars, threadIds, objectVars, id, pthreadId, inherited>>

(* The thread returns from startThread; its id may be given out again. *)
EndThread(h) == /\ thread[h] = "return"
                /\ Goto(h, "ended")
                /\ UNCHANGED <<mainVars, threadIds, objectVars, id, pthreadId, ready, inherited>>
-----------------------------------------------------------------------------
Accept == \E c \in Connections :
              RejectConnection(c) \/ AddConnection(c) \/ AddConnectionFails(c)

CheckHandlers == \/ SkipHandler \/ ReapHandler \/ TakeOverServer \/ ReapServer
                 \/ EraseHandler \/ EndCheck

ClientThread(c) == \/ StartFetcher(c) \/ StartFetcherFails(c) \/ RegisterFetcher(c)
                   \/ FinishClient(c)

AnyThread(h) == StartThread(h) \/ CloseSocket(h) \/ SetReady(h) \/ EndThread(h)

(* No connection is left to come and no thread is left to run. *)
AllDone == /\ main = "accept"
           /\ \A c \in Connections : socket[Client(c)] # "none"
           /\ \A h \in Handlers : thread[h] \in {"none", "ended"}
           /\ UNCHANGED vars

Next == \/ Accept \/ RegisterConnection \/ CheckHandlers
        \/ \E c \in Connections : ClientThread(c) \/ Fetch(c)
        \/ \E h \in Handlers : AnyThread(h)
        \/ AllDone

Spec == Init /\ [][Next]_vars
-----------------------------------------------------------------------------
TypeOK == /\ main \in MainPC
          /\ conn \in Connections
          /\ list \in Seq(Handlers)
          /\ iter \in Nat \ {0}
          /\ threadIds \in Seq(Ids \cup {NoId})
          /\ alive \subseteq Handlers
          /\ thread \in [Handlers -> ThreadPC]
          /\ id \in [Handlers -> Ids \cup {NoId}]
          /\ pthreadId \in [Handlers -> Ids \cup {NoId}]
          /\ ready \in [Handlers -> BOOLEAN]
          /\ interrupted \in [Handlers -> BOOLEAN]
          /\ socket \in [Handlers -> SocketState]
          /\ inherited \subseteq Handlers

(* A handler lives as long as its thread uses it, whoever owns it when the *)
(* thread gets to setReady: the list, or the handler of the client.        *)
HandlerOutlivesThread == \A h \in Handlers : thread[h] \in UsingHandler => h \in alive

(* Nothing in the list is destroyed, nothing is in it twice, and every     *)
(* handler that lives is in it or belongs to a client's handler in it.     *)
NoHandlerLost ==
    /\ \A i \in DOMAIN list : list[i] \in alive
    /\ \A i, j \in DOMAIN list : i # j => list[i] # list[j]
    /\ \A h \in alive : Contains(list, h) \/ (h[2] = "server" /\ Contains(list, Client(h[1])))

(* The id of h was appended to threadIds, or never will be. *)
Registered(h) == IF h[2] = "server" THEN thread[Client(h[1])] # "register"
                                    ELSE ~(main = "register" /\ conn = h[1])

(* A thread that exists is missing from threadIds, and so from those a     *)
(* signal cancels, only if it was given an id that the vector still kept   *)
(* for a thread that had ended.                                            *)
LiveThreadsListed ==
    \A h \in Handlers \ inherited :
        thread[h] \in Existing /\ ready[h] = FALSE /\ Registered(h) => Contains(threadIds, id[h])

(* An id stays in threadIds no longer than the handler it was appended for. *)
NoStaleIds ==
    \A i \in DOMAIN threadIds : \E h \in alive : id[h] = threadIds[i] /\ Registered(h)

(* MAX_CONNECTIONS bounds the ids, two for each client and one client more *)
(* than the constant says, while no id has been given out again too early. *)
IdsBounded == inherited = {} => Len(threadIds) <= 2 * (MaxConnections + 1)

(* Every socket is closed once by the time its handler is destroyed, by    *)
(* handle or by the destructor, until a destructor closes a socketFd that  *)
(* was never assigned; what that closes is anybody's.                      *)
SocketsClosedOnce ==
    (\A h \in Handlers : socket[h] # "wild") =>
        \A h \in Handlers : /\ socket[h] # "closedTwice"
                            /\ h \notin alive => socket[h] # "open"

Ahead(h) == \E i \in DOMAIN list : i >= iter /\ list[i] = h

(* checkConnectionHandlers does not get past a handler that is ready: what *)
(* is ahead of the iterator stays ahead until it is dropped, though the    *)
(* list grows and shrinks on the way.  The next pass may never come.       *)
NoneSkipped ==
    [][\A h \in Handlers :
          main # "accept" /\ ready[h] /\ Ahead(h) => Ahead(h)' \/ h \notin alive']_vars
=============================================================================
