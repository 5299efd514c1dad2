----------------------------- MODULE CacheStream -----------------------------
(***************************************************************************)
(* How a response gets from an origin server through the cache to every    *)
(* client that asked for it.                                               *)
(*                                                                         *)
(*   Cache                    one map from URL to CacheNode,               *)
(*   ClientConnectionHandler  one thread per client: finds or creates the  *)
(*                            node of its URL, starts a fetcher when it    *)
(*                            created it, and sends the node's data to     *)
(*                            its socket as they arrive,                   *)
(*   ServerConnectionHandler  the fetcher: one thread, started by a        *)
(*                            client, that receives the response and       *)
(*                            appends it to the node.                      *)
(*                                                                         *)
(* The fetcher a client started carries that client's name.  Each thread   *)
(* has a program counter whose values are the names of the calls it is     *)
(* about to make.  Bookkeeping of thread ids and of handler objects by the *)
(* main thread is not part of this module: what a fetcher refers to in its *)
(* client's handler is there for as long as it looks (DroppedHandlers says *)
(* when it is).                                                            *)
(***************************************************************************)
EXTENDS CacheNode

CONSTANTS Urls,  \* the URLs the clients ask for
          NoUrl  \* URL of a handler that has parsed no request

ASSUME UrlAssumption == NoUrl \notin Urls

VARIABLES
    cache,           \* Cache.urlToCacheNode: the function from the URLs present
    pc,              \* where each client thread is
    url,             \* ClientConnectionHandler.URL
    offset,          \* sendDataFromCache: how much has been sent
    size,            \* sendDataFromCache: the node's size as last read
    cacheNodeReady,  \* sendDataFromCache: the node's readiness as last read
    sent,            \* what the client's socket was given from the cache
    fpc,             \* where the fetcher a client started is
    fetched          \* getResponseFromServer: how many chunks were received

clientVars == <<pc, url, offset, size, cacheNodeReady, sent>>
fetcherVars == <<fpc, fetched>>
vars == <<cache, clientVars, fetcherVars>>

(* Client threads between addListener and removeListener. *)
Listening == {"lock", "check", "condWait", "send", "removeListener", "sendFailed"}

(* Client threads whose URL has a node. *)
Attached == {"initServerThread", "getCacheNode"} \cup Listening

ClientPC == {"handleClientRequest", "contains", "addCacheNode"} \cup Attached
                \cup {"sendError", "closeSocket", "ready"}

(* Fetchers that have not called setReady on their node... *)
Fetching == {"initServerConnection", "recv", "broadcast", "lastBroadcast", "setReady", "handleError"}

(* ... and those that have. *)
Published == {"finalBroadcast", "closeSocket", "addError", "errorBroadcast",
              "handlerReady", "ready"}

FetcherPC == {"none", "createFailed"} \cup Fetching \cup Published

Listeners(u) == {c \in Clients : url[c] = u /\ pc[c] \in Listening}
Fetchers(u) == {f \in Clients : url[f] = u /\ fpc[f] \in Fetching \cup Published}

NodeOf(c) == cache[url[c]]
-----------------------------------------------------------------------------
Init == /\ cache = [u \in {} |-> NewNode]
        /\ pc = [c \in Clients |-> "handleClientRequest"]
        /\ url = [c \in Clients |-> NoUrl]
        /\ offset = [c \in Clients |-> 0]
        /\ size = [c \in Clients |-> 0]
        /\ cacheNodeReady = [c \in Clients |-> FALSE]
        /\ sent = [c \in Clients |-> << >>]
        /\ fpc = [c \in Clients |-> "none"]
        /\ fetched = [c \in Clients |-> 0]

Goto(c, next) == pc' = [pc EXCEPT ![c] = next]

(* A method of c's node that leaves its mutex as it found it. *)
CallOnNode(c, after) == /\ IsFree(NodeOf(c))
                        /\ cache' = [cache EXCEPT ![url[c]] = after]
-----------------------------------------------------------------------------
(* ClientConnectionHandler, up to the cache.                               *)

(* The request was read and parsed: its path is the URL from now on. *)
AcceptRequest(c, u) == /\ pc[c] = "handleClientRequest"
                       /\ url' = [url EXCEPT ![c] = u]
                       /\ Goto(c, "contains")
                       /\ UNCHANGED <<cache, offset, size, cacheNodeReady, sent, fetcherVars>>

(* recv failed or the parser refused the request (ProxyException), or the  *)
(* request had no path (std::exception, which gets no response).           *)
RejectRequest(c) == /\ pc[c] = "handleClientRequest"
                    /\ \/ Goto(c, "sendError")
                       \/ Goto(c, "closeSocket")
                    /\ UNCHANGED <<cache, url, offset, size, cacheNodeReady, sent, fetcherVars>>

(* checkUrl, first half: Cache::contains. *)
Contains(c) == /\ pc[c] = "contains"
               /\ Goto(c, IF url[c] \in DOMAIN cache THEN "getCacheNode"
                                                     ELSE "addCacheNode")
               /\ UNCHANGED <<cache, url, offset, size, cacheNodeReady, sent, fetcherVars>>

(* Mutant of Emplace: the map is assigned to instead. *)
ReplaceNode(u) ==
    [v \in DOMAIN cache \cup {u} |-> IF v = u THEN NewNode ELSE cache[v]]

(* map::emplace leaves an entry that is there already alone. *)
Emplace(u) ==
    [v \in DOMAIN cache \cup {u} |-> IF v \in DOMAIN cache THEN cache[v] ELSE NewNode]

(* checkUrl, second half: Cache::addCacheNode.  The cache's mutex was free *)
(* in between, so another client may have added the node already.          *)
AddCacheNode(c) == /\ pc[c] = "addCacheNode"
                   /\ cache' = Emplace(url[c])
                   /\ Goto(c, "initServerThread")
                   /\ UNCHANGED <<url, offset, size, cacheNodeReady, sent, fetcherVars>>

(* pthread_create may fail: that is printed, and nothing else happens. *)
InitServerThread(c) == /\ pc[c] = "initServerThread"
                       /\ \E next \in {"initServerConnection", "createFailed"} :
                              fpc' = [fpc EXCEPT ![c] = next]
                       /\ Goto(c, "getCacheNode")
                       /\ UNCHANGED <<cache, url, offset, size, cacheNodeReady,
                                      sent, fetched>>
-----------------------------------------------------------------------------
(* ClientConnectionHandler::sendDataFromCache.                             *)

StartListening(c) == /\ pc[c] = "getCacheNode"
                     /\ CallOnNode(c, AddListener(NodeOf(c)))
                     /\ Goto(c, "lock")
                     /\ UNCHANGED <<url, offset, size, cacheNodeReady, sent, fetcherVars>>

(* lockMutex, or the end of pthread_cond_wait for a woken thread. *)
TakeMutex(c) == /\ \/ pc[c] = "lock"
                   \/ pc[c] = "condWait" /\ c \notin NodeOf(c).anyDataCondVar
                /\ IsFree(NodeOf(c))
                /\ cache' = [cache EXCEPT ![url[c]] = Lock(@, c)]
                /\ Goto(c, "check")
                /\ UNCHANGED <<url, offset, size, cacheNodeReady, sent, fetcherVars>>

(* POSIX lets pthread_cond_wait return without a broadcast. *)
SpuriousWakeup(c) == /\ pc[c] = "condWait"
                     /\ c \in NodeOf(c).anyDataCondVar
                     /\ cache' = [cache EXCEPT ![url[c]] = WakeSpuriously(@, c)]
                     /\ UNCHANGED <<clientVars, fetcherVars>>

(* The loop condition: there is data the client has not got.  The second   *)
(* operand of && is not evaluated, so cacheNodeReady keeps its old value.  *)
SeeData(c) == /\ pc[c] = "check"
              /\ size' = [size EXCEPT ![c] = Len(NodeOf(c).data)]
              /\ offset[c] # size'[c]
              /\ cache' = [cache EXCEPT ![url[c]] = Unlock(@)]
              /\ Goto(c, "send")
              /\ UNCHANGED <<url, offset, cacheNodeReady, sent, fetcherVars>>

(* The loop condition: no new data, and there will be none. *)
SeeReady(c) == /\ pc[c] = "check"
               /\ size' = [size EXCEPT ![c] = Len(NodeOf(c).data)]
               /\ offset[c] = size'[c]
               /\ NodeOf(c).nodeReady
               /\ cacheNodeReady' = [cacheNodeReady EXCEPT ![c] = TRUE]
               /\ cache' = [cache EXCEPT ![url[c]] = Unlock(@)]
               /\ Goto(c, "send")
               /\ UNCHANGED <<url, offset, sent, fetcherVars>>

(* The loop condition: no new data yet. *)
WaitForData(c) == /\ pc[c] = "check"
                  /\ size' = [size EXCEPT ![c] = Len(NodeOf(c).data)]
                  /\ offset[c] = size'[c]
                  /\ ~NodeOf(c).nodeReady
                  /\ cache' = [cache EXCEPT ![url[c]] = Wait(@, c)]
                  /\ Goto(c, "condWait")
                  /\ UNCHANGED <<url, offset, cacheNodeReady, sent, fetcherVars>>

(* Mutant of StreamDone: || taken for &&. *)
EitherDone(ready, off, sz) == ready \/ off = sz

(* The negation of the outer loop's condition. *)
StreamDone(ready, off, sz) == ready /\ off = sz

(* Mutant of SendCounts: the -1 of a failed send is added to the offset. *)
SendCountsOrError(length) == IF length = 0 THEN {-1, 0} ELSE {-1} \cup 1 .. length

(* send takes some of the data it was given; of no data it takes none. *)
SendCounts(length) == IF length = 0 THEN {0} ELSE 1 .. length

(* Mutant of Send: a partial send is taken for a full one. *)
SendIgnoringCount(c) ==
    /\ pc[c] = "send"
    /\ IsFree(NodeOf(c))
    /\ \E sendCount \in SendCounts(size[c] - offset[c]) :
         sent' = [sent EXCEPT ![c] = @ \o GetData(NodeOf(c), offset[c], sendCount)]
    /\ offset' = [offset EXCEPT ![c] = size[c]]
    /\ Goto(c, IF StreamDone(cacheNodeReady[c], offset'[c], size[c])
               THEN "removeListener" ELSE "lock")
    /\ UNCHANGED <<cache, url, size, cacheNodeReady, fetcherVars>>

Send(c) == /\ pc[c] = "send"
           /\ IsFree(NodeOf(c))
           /\ \E sendCount \in SendCounts(size[c] - offset[c]) :
                /\ sent' = [sent EXCEPT ![c] = @ \o GetData(NodeOf(c), offset[c], sendCount)]
                /\ offset' = [offset EXCEPT ![c] = @ + sendCount]
           /\ Goto(c, IF StreamDone(cacheNodeReady[c], offset'[c], size[c])
                      THEN "removeListener" ELSE "lock")
           /\ UNCHANGED <<cache, url, size, cacheNodeReady, fetcherVars>>

(* The client's connection is broken. *)
SendFails(c) == /\ pc[c] = "send"
                /\ IsFree(NodeOf(c))
                /\ Goto(c, "sendFailed")
                /\ UNCHANGED <<cache, url, offset, size, cacheNodeReady, sent, fetcherVars>>

(* Mutant of StopListening: the catch block's path does not count down. *)
StopListeningUnlessFailed(c) ==
    /\ pc[c] \in {"removeListener", "sendFailed"}
    /\ CallOnNode(c, IF pc[c] = "sendFailed" THEN NodeOf(c) ELSE RemoveListener(NodeOf(c)))
    /\ Goto(c, IF pc[c] = "sendFailed" THEN "sendError" ELSE "closeSocket")
    /\ UNCHANGED <<url, offset, size, cacheNodeReady, sent, fetcherVars>>

StopListening(c) == /\ pc[c] \in {"removeListener", "sendFailed"}
                    /\ CallOnNode(c, RemoveListener(NodeOf(c)))
                    /\ Goto(c, IF pc[c] = "sendFailed" THEN "sendError" ELSE "closeSocket")
                    /\ UNCHANGED <<url, offset, size, cacheNodeReady, sent, fetcherVars>>

(* The end of handle: sendError if an exception was caught (its own send is *)
(* not looked at), closeSocket, setInterrupted(false), setReady.           *)
LeaveHandle(c) == /\ pc[c] \in {"sendError", "closeSocket"}
                  /\ Goto(c, "ready")
                  /\ UNCHANGED <<cache, url, offset, size, cacheNodeReady, sent, fetcherVars>>
-----------------------------------------------------------------------------
(* ServerConnectionHandler: the fetcher started for client f.              *)

FetcherGoto(f, next) == fpc' = [fpc EXCEPT ![f] = next]

(* initServerConnection and sendRequestToServer: socket, getaddrinfo,       *)
(* connect and send touch nothing shared, and each may fail.               *)
ContactServer(f) == /\ fpc[f] = "initServerConnection"
                    /\ \/ FetcherGoto(f, "recv")
                       \/ FetcherGoto(f, "handleError")
                    /\ UNCHANGED <<cache, clientVars, fetched>>

(* recv returned data, and addData stores it. *)
ReceiveData(f) ==
    /\ fpc[f] = "recv"
    /\ fetched[f] < MaxChunks
    /\ fetched' = [fetched EXCEPT ![f] = @ + 1]
    /\ CallOnNode(f, AddData(NodeOf(f), <<Chunk(f, fetched[f] + 1)>>))
    /\ FetcherGoto(f, "broadcast")
    /\ UNCHANGED clientVars

(* recv returned 0, and addData stores nothing. *)
ReceiveEnd(f) == /\ fpc[f] = "recv"
                 /\ CallOnNode(f, AddData(NodeOf(f), << >>))
                 /\ FetcherGoto(f, "lastBroadcast")
                 /\ UNCHANGED <<clientVars, fetched>>

(* Mutant of ReceiveFails: the fetch starts again from the beginning. *)
ReceiveAgain(f) == /\ fpc[f] = "recv"
                   /\ FetcherGoto(f, "initServerConnection")
                   /\ fetched' = [fetched EXCEPT ![f] = 0]
                   /\ UNCHANGED <<cache, clientVars>>

(* Mutant of ReceiveFails: an exception no handler turns into handleError. *)
ReceiveDies(f) == /\ fpc[f] = "recv"
                  /\ FetcherGoto(f, "handlerReady")
                  /\ UNCHANGED <<cache, clientVars, fetched>>

ReceiveFails(f) == /\ fpc[f] = "recv"
                   /\ FetcherGoto(f, "handleError")
                   /\ UNCHANGED <<cache, clientVars, fetched>>

(* The broadcast of the receive loop is made without the node's mutex. *)
BroadcastData(f) ==
    /\ \/ fpc[f] = "broadcast" /\ FetcherGoto(f, "recv")
       \/ fpc[f] = "lastBroadcast" /\ FetcherGoto(f, "setReady")
    /\ cache' = [cache EXCEPT ![url[f]] = Broadcast(@)]
    /\ UNCHANGED <<clientVars, fetched>>

FinishNode(f) == /\ fpc[f] = "setReady"
                 /\ CallOnNode(f, SetReady(NodeOf(f)))
                 /\ FetcherGoto(f, "finalBroadcast")
                 /\ UNCHANGED <<clientVars, fetched>>

(* Mutant of FinalBroadcast: the end of the response is announced to nobody. *)
FinalBroadcastOmitted(f) == /\ fpc[f] = "finalBroadcast"
                            /\ FetcherGoto(f, "closeSocket")
                            /\ UNCHANGED <<cache, clientVars, fetched>>

(* The last broadcast is made with the mutex. *)
FinalBroadcast(f) == /\ fpc[f] = "finalBroadcast"
                     /\ CallOnNode(f, Broadcast(NodeOf(f)))
                     /\ FetcherGoto(f, "closeSocket")
                     /\ UNCHANGED <<clientVars, fetched>>

(* handleError: ready first, then the text of the error, then a broadcast. *)
FailNode(f) == /\ fpc[f] = "handleError"
               /\ CallOnNode(f, SetReady(NodeOf(f)))
               /\ FetcherGoto(f, "addError")
               /\ UNCHANGED <<clientVars, fetched>>

(* Mutant of AddErrorText: nobody is told about the text. *)
AddErrorTextQuietly(f) == /\ fpc[f] = "addError"
                          /\ CallOnNode(f, AddData(NodeOf(f), <<ErrorText(f)>>))
                          /\ FetcherGoto(f, "handlerReady")
                          /\ UNCHANGED <<clientVars, fetched>>

AddErrorText(f) == /\ fpc[f] = "addError"
                   /\ CallOnNode(f, AddData(NodeOf(f), <<ErrorText(f)>>))
                   /\ FetcherGoto(f, "errorBroadcast")
                   /\ UNCHANGED <<clientVars, fetched>>

BroadcastError(f) == /\ fpc[f] = "errorBroadcast"
                     /\ cache' = [cache EXCEPT ![url[f]] = Broadcast(@)]
                     /\ FetcherGoto(f, "handlerReady")
                     /\ UNCHANGED <<clientVars, fetched>>

(* closeSocket and setInterrupted(false) unless the fetch failed; setReady. *)
LeaveFetcher(f) == /\ fpc[f] \in {"closeSocket", "handlerReady"}
                   /\ FetcherGoto(f, "ready")
                   /\ UNCHANGED <<cache, clientVars, fetched>>
-----------------------------------------------------------------------------
SendDataFromCache(c) == \/ StartListening(c) \/ TakeMutex(c)
                        \/ SeeData(c) \/ SeeReady(c) \/ WaitForData(c)
                        \/ Send(c) \/ SendFails(c) \/ StopListening(c)

ClientThread(c) == \/ \E u \in Urls : AcceptRequest(c, u)
                   \/ RejectRequest(c) \/ Contains(c) \/ AddCacheNode(c)
                   \/ InitServerThread(c) \/ SendDataFromCache(c) \/ LeaveHandle(c)

Receive(f) == ReceiveData(f) \/ ReceiveEnd(f) \/ ReceiveFails(f)

FetcherThread(f) == \/ ContactServer(f) \/ Receive(f)
                    \/ BroadcastData(f) \/ FinishNode(f) \/ FinalBroadcast(f)
                    \/ FailNode(f) \/ AddErrorText(f) \/ BroadcastError(f)
                    \/ LeaveFetcher(f)

(* Every thread has ended: the model stops here, the program would accept  *)
(* further clients.                                                        *)
AllDone == /\ \A c \in Clients : pc[c] = "ready"
           /\ \A f \in Clients : fpc[f] \in {"none", "createFailed", "ready"}
           /\ UNCHANGED vars

Next == \/ \E c \in Clients : ClientThread(c)
        \/ \E c \in Clients : SpuriousWakeup(c)
        \/ \E f \in Clients : FetcherThread(f)
        \/ AllDone

Spec == Init /\ [][Next]_vars
-----------------------------------------------------------------------------
(***************************************************************************)
(* Fairness.  A thread that can run is scheduled, calls on the network     *)
(* return, and an origin server's response ends (MaxChunks).  A client may *)
(* stay silent for ever before its request is complete, so nothing is      *)
(* assumed of the request.  Spurious wakeups do not go on for ever.        *)
(***************************************************************************)
Fairness == /\ \A c \in Clients :
                  /\ WF_vars(Contains(c) \/ AddCacheNode(c) \/ InitServerThread(c))
                  /\ WF_vars(SendDataFromCache(c) \/ LeaveHandle(c))
            /\ \A f \in Clients : WF_vars(FetcherThread(f))
            /\ <>[][\A c \in Clients : ~SpuriousWakeup(c)]_vars

FairSpec == Spec /\ Fairness
-----------------------------------------------------------------------------
TypeOK ==
    /\ DOMAIN cache \subseteq Urls
    /\ cache \in [DOMAIN cache -> Node]
    /\ pc \in [Clients -> ClientPC]
    /\ url \in [Clients -> Urls \cup {NoUrl}]
    /\ offset \in [Clients -> Nat]
    /\ size \in [Clients -> Nat]
    /\ cacheNodeReady \in [Clients -> BOOLEAN]
    /\ sent \in [Clients -> Seq(Items)]
    /\ fpc \in [Clients -> FetcherPC]
    /\ fetched \in [Clients -> 0 .. MaxChunks]

(* The node's mutex is held exactly by the client inside the wait loop's   *)
(* critical section, and only blocked clients are on the condition         *)
(* variable.                                                               *)
MonitorOK ==
    /\ \A u \in DOMAIN cache, c \in Clients :
           cache[u].mutex = c <=> url[c] = u /\ pc[c] = "check"
    /\ \A u \in DOMAIN cache : \A c \in cache[u].anyDataCondVar :
           url[c] = u /\ pc[c] = "condWait"

(* listenersCount counts the clients between addListener and               *)
(* removeListener, however they leave the loop.                            *)
ListenersCounted ==
    \A u \in DOMAIN cache : cache[u].listenersCount = Cardinality(Listeners(u))

(* The condition variable is destroyed while the node lives on.  From then *)
(* on no client is or gets into pthread_cond_wait on it, however many      *)
(* clients come and go.                                                    *)
NoWaitOnDestroyed ==
    \A u \in DOMAIN cache :
        cache[u].condVarDestroyed =>
            /\ cache[u].nodeReady
            /\ \A c \in Clients : url[c] = u => pc[c] # "condWait"

(* A client blocked although there is data for it, or although the node is *)
(* ready, has a broadcast coming.                                          *)
NoLostWakeup ==
    \A u \in DOMAIN cache : \A c \in cache[u].anyDataCondVar :
        offset[c] # Len(cache[u].data) \/ cache[u].nodeReady =>
            \E f \in Fetchers(u) :
                fpc[f] \in {"broadcast", "lastBroadcast", "finalBroadcast",
                            "addError", "errorBroadcast"}

(* Somebody is in charge of every node that is not ready: a client about   *)
(* to start its fetcher, or a fetcher that has still to make it ready.     *)
(* Only a pthread_create that failed leaves a node nobody fills.           *)
UnreadyNodeInCharge ==
    \A u \in DOMAIN cache :
        \/ cache[u].nodeReady
        \/ \E f \in Clients : /\ url[f] = u
                              /\ \/ pc[f] = "initServerThread"
                                 \/ fpc[f] \in Fetching \cup {"createFailed"}

(* What a client was sent is, in order and without gaps, the beginning of  *)
(* what the node holds.                                                    *)
SentIsPrefix ==
    \A c \in Clients :
        pc[c] \in Listening =>
            /\ offset[c] <= Len(NodeOf(c).data)
            /\ sent[c] = SubSeq(NodeOf(c).data, 1, offset[c])

(* Another fetcher of the same URL has given f's client something to send, *)
(* or has made its node ready.                                             *)
Overtaken(f) ==
    \E g \in Fetchers(url[f]) \ {f} : fetched[g] > 0 \/ fpc[g] \in Published

(* A fetcher works with references into its client: to the host, a local   *)
(* of the client's handle, until it has connected, and to the URL, in the  *)
(* handler the main thread drops when the client is ready, once more when  *)
(* it fails.  The client stays in handle for as long as the first is used, *)
(* and if it is ready before the second, its connection broke; only a      *)
(* second fetcher lets it go before.                                       *)
BorrowedAlive ==
    \A f \in Clients :
        \/ Overtaken(f)
        \/ /\ fpc[f] = "initServerConnection" =>
                  pc[f] \in {"getCacheNode", "lock", "check", "condWait"}
           /\ fpc[f] = "handleError" /\ pc[f] = "ready" => ~cacheNodeReady[f]

Body(f, n) == [k \in 1 .. n |-> Chunk(f, k)]

AllStored(u) ==
    \A f \in Fetchers(u) : \A k \in 1 .. fetched[f] :
        \E i \in DOMAIN cache[u].data : cache[u].data[i] = Chunk(f, k)

OnlyFetched(u) ==
    \A i \in DOMAIN cache[u].data :
        LET f == cache[u].data[i][1] IN f \in Fetchers(u) /\ cache[u].data[i][2] <= fetched[f]

InSequence(u) ==
    \A i, j \in DOMAIN cache[u].data :
        i < j /\ cache[u].data[i][1] = cache[u].data[j][1] =>
            /\ cache[u].data[i][2] # 0
            /\ cache[u].data[j][2] = 0 \/ cache[u].data[i][2] < cache[u].data[j][2]

(* Whoever else writes to the node, all chunks a fetcher received are in   *)
(* it, once each and in the order received; the text of its error, if it   *)
(* failed, follows them.  Nothing else is in it.                           *)
ChunksInOrder ==
    \A u \in DOMAIN cache : AllStored(u) /\ OnlyFetched(u) /\ InSequence(u)

(* While one client at most has started a fetcher for a URL, the node      *)
(* holds exactly what that fetcher received, followed by nothing but the   *)
(* text of its error.                                                      *)
SoleFetchIntact ==
    \A u \in DOMAIN cache, f \in Clients :
        Fetchers(u) = {f} =>
            \/ cache[u].data = Body(f, fetched[f])
            \/ /\ fpc[f] \in {"errorBroadcast", "handlerReady", "ready"}
               /\ cache[u].data = Append(Body(f, fetched[f]), ErrorText(f))

(* A client that takes the response for complete was sent all of it, and   *)
(* the fetch is over: nothing but the text of an error is still to come.   *)
CompleteMeansAll ==
    \A c, f \in Clients :
        /\ cacheNodeReady[c] \/ pc[c] = "removeListener"
        /\ Fetchers(url[c]) = {f}
        => /\ fpc[f] \in Published
           /\ sent[c] \in {Body(f, fetched[f]),
                           Append(Body(f, fetched[f]), ErrorText(f))}

(* No step takes a node away or changes what is already in it, whoever     *)
(* else asks for its URL, and readiness is never taken back.               *)
CacheOnlyGrows ==
    [][\A u \in DOMAIN cache :
          /\ u \in DOMAIN cache'
          /\ Len(cache[u].data) <= Len(cache'[u].data)
          /\ SubSeq(cache'[u].data, 1, Len(cache[u].data)) = cache[u].data
          /\ cache[u].nodeReady => cache'[u].nodeReady]_vars

(* The cache with its fetchers and its readers is a set of shared logs.    *)
(* A client is a reader from the moment its request has a URL.             *)
LogOf(u) == IF u \in DOMAIN cache THEN cache[u].data ELSE << >>

IsClosed(u) == u \in DOMAIN cache /\ cache[u].nodeReady

StateOf(c) ==
    IF cacheNodeReady[c] \/ pc[c] = "removeListener" THEN "complete"
    ELSE IF pc[c] = "handleClientRequest" THEN "idle"
    ELSE IF pc[c] \in {"sendFailed", "sendError", "closeSocket", "ready"} THEN "broken"
    ELSE "reading"

SL == INSTANCE SharedLog WITH
        Readers <- Clients, Topics <- Urls, NoTopic <- NoUrl, Messages <- Items,
        log <- [u \in Urls |-> LogOf(u)],
        closed <- [u \in Urls |-> IsClosed(u)],
        topic <- url,
        out <- sent,
        state <- [c \in Clients |-> StateOf(c)]

(* Every step of every thread is a step of the shared logs, or none: in    *)
(* particular no client is given anything out of order or twice, and none  *)
(* leaves with an incomplete response unless its connection broke.         *)
ImplementsSharedLog == SL!Spec

(* A client that reaches a node some fetcher was started for does not stay *)
(* in sendDataFromCache for ever.                                          *)
ClientServed ==
    \A c \in Clients :
        pc[c] \in Listening /\ Fetchers(url[c]) # {} ~> pc[c] = "ready"
=============================================================================
