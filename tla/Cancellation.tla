----------------------------- MODULE Cancellation -----------------------------
(***************************************************************************)
(* What pthread_cancel does to the threads of CacheStream.                 *)
(*                                                                         *)
(* SignalHandler::sigWait asks threads to cancel themselves (Shutdown says *)
(* which).  Such a thread goes on to its next cancellation point and ends  *)
(* there: the stack is unwound, but nothing in this code gives a mutex     *)
(* back, counts a listener down or makes a node ready on the way.  Until   *)
(* the main thread ends the process, and it may have to wait for one more  *)
(* connection, the other threads work with what is left behind.            *)
(*                                                                         *)
(* A fetcher whose client was unwound before it had connected reads a host *)
(* that is gone; here it connects or it does not, as with any host.        *)
(*                                                                         *)
(* Cancellation points are recv, send, connect, getaddrinfo, close,        *)
(* pthread_cond_wait and output; pthread_mutex_lock is none.               *)
(***************************************************************************)
EXTENDS CacheStream

VARIABLES
    cancelled,  \* threads with a cancel request
    ended,      \* threads that ended by one
    woken       \* clients in the wait loop that come from pthread_cond_wait

cancelVars == <<cancelled, ended, woken>>
allVars == <<vars, cancelVars>>

Client(c) == <<c, "client">>
Fetcher(f) == <<f, "fetcher">>
Threads == Clients \X {"client", "fetcher"}

CancelInit == Init /\ cancelled = {} /\ ended = {} /\ woken = {}

Alive(t) == /\ t \notin ended
            /\ IF t[2] = "client" THEN pc[t[1]] # "ready"
                                  ELSE fpc[t[1]] \in (Fetching \cup Published) \ {"ready"}

(* pthread_cancel, of any thread at any time. *)
Cancel(t) == /\ Alive(t)
             /\ cancelled' = cancelled \cup {t}
             /\ UNCHANGED <<vars, ended, woken>>
-----------------------------------------------------------------------------
(* removeListener destroys the condition variable and says so, all of it   *)
(* with the node's mutex.                                                  *)
DestroysCondVar(c) == /\ pc[c] \in {"removeListener", "sendFailed"}
                      /\ ~NodeOf(c).condVarDestroyed
                      /\ RemoveListener(NodeOf(c)).condVarDestroyed

(* The next thing the thread does is, or has in it, a cancellation point:  *)
(* for "getCacheNode", "removeListener" and, after the first round, "lock" *)
(* that is the debugging output before it, for "check" the output around   *)
(* pthread_cond_wait.  The message of "sendFailed" need not be one, that   *)
(* of removeListener is.                                                   *)
ClientAtPoint(c) ==
    \/ pc[c] \in {"handleClientRequest", "getCacheNode", "condWait", "send",
                  "removeListener", "sendError", "closeSocket"}
    \/ pc[c] = "lock" /\ offset[c] > 0
    \/ /\ pc[c] = "check"
       /\ c \in woken \/ (offset[c] = Len(NodeOf(c).data) /\ ~NodeOf(c).nodeReady)
    \/ DestroysCondVar(c)

FetcherAtPoint(f) == fpc[f] \in {"initServerConnection", "recv", "setReady", "closeSocket"}

(* pthread_cond_wait takes the mutex before the thread is unwound. *)
LeaveWait(n, c) == Lock(WakeSpuriously(n, c), c)

EndThread(t) == /\ t \in cancelled
                /\ Alive(t)
                /\ ended' = ended \cup {t}
                /\ UNCHANGED <<cancelled, woken>>

(* Mutant of EndInWait: requests are disabled in the wait loop. *)
EndInWaitDisabled(c) == FALSE

(* Inside pthread_cond_wait: the thread ends with the mutex locked. *)
EndInWait(c) == /\ EndThread(Client(c))
                /\ pc[c] = "condWait"
                /\ CallOnNode(c, LeaveWait(NodeOf(c), c))
                /\ Goto(c, "check")
                /\ UNCHANGED <<url, offset, size, cacheNodeReady, sent, fetcherVars>>

(* At the output of removeListener: the mutex is not given back, and what  *)
(* was done under it stays.                                                *)
EndInRemoveListener(c) == /\ EndThread(Client(c))
                          /\ DestroysCondVar(c)
                          /\ CallOnNode(c, Lock(RemoveListener(NodeOf(c)), c))
                          /\ Goto(c, "closeSocket")
                          /\ UNCHANGED <<url, offset, size, cacheNodeReady, sent, fetcherVars>>

(* Anywhere else nothing changes.  In the wait loop the mutex stays        *)
(* locked; before send, getData has to get it once more.                   *)
EndClient(c) == /\ EndThread(Client(c))
                /\ pc[c] # "condWait"
                /\ ClientAtPoint(c) \/ pc[c] = "sendFailed"
                /\ pc[c] = "send" => IsFree(NodeOf(c))
                /\ UNCHANGED vars

(* Mutant of EndFetcher: a cleanup makes its node ready, and nobody is told. *)
EndFetcherReady(f) == /\ EndThread(Fetcher(f))
                      /\ FetcherAtPoint(f)
                      /\ cache' = [cache EXCEPT ![url[f]] = SetReady(@)]
                      /\ UNCHANGED <<clientVars, fetcherVars>>

EndFetcher(f) == /\ EndThread(Fetcher(f))
                 /\ FetcherAtPoint(f)
                 /\ UNCHANGED vars

(* A thread with a request does not get past a cancellation point. *)
MayGoOn(t, atPoint) == Alive(t) /\ ~(t \in cancelled /\ atPoint)

ClientGoesOn(c) == /\ MayGoOn(Client(c), ClientAtPoint(c))
                   /\ ClientThread(c)
                   /\ woken' = IF pc[c] = "condWait" THEN woken \cup {c} ELSE woken \ {c}
                   /\ UNCHANGED <<cancelled, ended>>

FetcherGoesOn(f) == MayGoOn(Fetcher(f), FetcherAtPoint(f)) /\ FetcherThread(f)
                        /\ UNCHANGED cancelVars
-----------------------------------------------------------------------------
ClientLife(c) == \/ ClientGoesOn(c)
                 \/ EndInWait(c) \/ EndInRemoveListener(c) \/ EndClient(c)

FetcherLife(f) == FetcherGoesOn(f) \/ EndFetcher(f)

(* An ended thread holds the mutex of the node of u. *)
Abandoned(u) ==
    u \in DOMAIN cache /\ \E c \in Clients : cache[u].mutex = c /\ Client(c) \in ended

(* Nothing goes on: every thread has ended, or an ended thread holds the   *)
(* mutex it needs, or it waits for data nobody is going to fetch.          *)
NoneLeft == /\ \A t \in Threads : Alive(t) => \/ Abandoned(url[t[1]])
                                              \/ t[2] = "client" /\ pc[t[1]] = "condWait"
            /\ UNCHANGED allVars

CancelNext == \/ \E t \in Threads : Cancel(t)
              \/ \E c \in Clients : ClientLife(c)
              \/ \E c \in Clients : Alive(Client(c)) /\ SpuriousWakeup(c) /\ UNCHANGED cancelVars
              \/ \E f \in Clients : FetcherLife(f)
              \/ NoneLeft

CancelSpec == CancelInit /\ [][CancelNext]_allVars

(* As Fairness of CacheStream.  A thread with a request ends wherever the  *)
(* call it is in can be cancelled, a recv from a silent client included.   *)
FairCancel == /\ CancelSpec
              /\ \A c \in Clients : WF_allVars(pc[c] # "handleClientRequest" /\ ClientLife(c))
              /\ \A c \in Clients : WF_allVars(EndClient(c))
              /\ \A f \in Clients : WF_allVars(FetcherLife(f))
              /\ <>[][\A c \in Clients : ~SpuriousWakeup(c)]_allVars
-----------------------------------------------------------------------------
(* A response that was cut short because its fetcher was cancelled is not  *)
(* taken for complete, by anybody.                                         *)
CutShortNotComplete ==
    \A f \in Clients :
        Fetcher(f) \in ended /\ fpc[f] \in Fetching /\ Fetchers(url[f]) = {f} =>
            /\ ~cache[url[f]].nodeReady
            /\ \A c \in Clients : url[c] = url[f] => ~cacheNodeReady[c]

(* A thread that is asked to cancel itself ends, unless an ended client    *)
(* has kept the mutex of its node: waiting for that is no cancellation     *)
(* point.                                                                  *)
CancelledEnds ==
    \A t \in Threads : t \in cancelled ~> ~Alive(t) \/ Abandoned(url[t[1]])

(* A client that is not asked is served in the end, unless an ended client *)
(* has kept the mutex of its node or a fetcher was ended before the node   *)
(* was ready.                                                              *)
OthersServed ==
    \A c \in Clients :
        pc[c] \in Listening /\ Fetchers(url[c]) # {}
            ~> \/ pc[c] = "ready" \/ Client(c) \in cancelled
               \/ Abandoned(url[c])
               \/ /\ \E f \in Fetchers(url[c]) : Fetcher(f) \in ended
                  /\ ~NodeOf(c).nodeReady
=============================================================================
