--------------------------- MODULE StorageFailures ---------------------------
(***************************************************************************)
(* CacheStream on a machine where the cache does not fit into memory:      *)
(* nothing is ever removed from it.                                        *)
(*                                                                         *)
(* Whatever allocates may throw.  Adding a node, storing data, copying     *)
(* them out (which throws length_error, too, once a response has outgrown  *)
(* int: ResponseSize) and registering a fetcher's id do so while the mutex *)
(* they have locked is not going to be unlocked.  make_shared throws with  *)
(* no mutex held, and so does the copy of the text a ProxyException is     *)
(* made of: then another exception than the one meant is thrown.           *)
(*                                                                         *)
(* What is thrown is a std::exception: handle prints it, and the handler   *)
(* is ready; in a fetcher that means without handleError.  Only from       *)
(* handleError, which runs inside a catch block, nobody catches it, and    *)
(* the process aborts.                                                     *)
(***************************************************************************)
EXTENDS CacheStream

VARIABLES
    cacheLocked,      \* the mutex of Cache was left locked
    threadIdsLocked,  \* threadIdsMutex was left locked
    leftLocked,       \* URLs of nodes whose mutex was left locked
    stuck,            \* clients that wait for threadIdsMutex for ever
    silent,           \* fetchers that left without a word to their node
    aborted           \* the process has ended

failureVars == <<cacheLocked, threadIdsLocked, leftLocked, stuck, silent, aborted>>
storageVars == <<vars, failureVars>>

StorageInit == /\ Init
               /\ cacheLocked = FALSE /\ threadIdsLocked = FALSE /\ leftLocked = {}
               /\ stuck = {} /\ silent = {} /\ aborted = FALSE

AddCacheNodeThrows(c) == /\ pc[c] = "addCacheNode"
                         /\ ~cacheLocked
                         /\ cacheLocked' = TRUE
                         /\ Goto(c, "closeSocket")
                         /\ UNCHANGED <<cache, url, offset, size, cacheNodeReady, sent, fetcherVars,
                                        threadIdsLocked, leftLocked, stuck, silent, aborted>>

(* The node is there, its fetcher's handler cannot be made. *)
MakeHandlerThrows(c) == /\ pc[c] = "initServerThread"
                        /\ fpc' = [fpc EXCEPT ![c] = "createFailed"]
                        /\ Goto(c, "closeSocket")
                        /\ UNCHANGED <<cache, url, offset, size, cacheNodeReady, sent,
                                       fetched, failureVars>>

(* threadIds.push_back: the fetcher has been started, if it could be. *)
RegisterThrows(c) == /\ pc[c] = "initServerThread"
                     /\ ~threadIdsLocked
                     /\ threadIdsLocked' = TRUE
                     /\ \E next \in {"initServerConnection", "createFailed"} :
                            fpc' = [fpc EXCEPT ![c] = next]
                     /\ Goto(c, "closeSocket")
                     /\ UNCHANGED <<cache, url, offset, size, cacheNodeReady, sent, fetched,
                                    cacheLocked, leftLocked, stuck, silent, aborted>>

(* A method of t's node throws after it has locked the node's mutex. *)
ThrowLocked(t) == /\ CallOnNode(t, Lock(NodeOf(t), t))
                  /\ leftLocked' = leftLocked \cup {url[t]}
                  /\ UNCHANGED <<cacheLocked, threadIdsLocked, stuck, silent, aborted>>

(* removeListener is not called on this way out either. *)
GetDataThrows(c) == /\ pc[c] = "send"
                    /\ ThrowLocked(c)
                    /\ Goto(c, "closeSocket")
                    /\ UNCHANGED <<url, offset, size, cacheNodeReady, sent, fetcherVars>>

(* The ProxyException of a failed send, or of a failed recv before.  It is *)
(* not built, and the client gets no error.                                *)
ErrorThrows(c) == /\ pc[c] = "sendError"
                  /\ Goto(c, "closeSocket")
                  /\ UNCHANGED <<cache, url, offset, size, cacheNodeReady, sent,
                                 fetcherVars, failureVars>>

(* Mutant of AddDataThrows: a guard unlocks the mutex, and no more is done. *)
AddDataThrowsUnlocked(f) == /\ fpc[f] = "recv"
                            /\ fetched[f] < MaxChunks
                            /\ FetcherGoto(f, "handlerReady")
                            /\ UNCHANGED <<cache, clientVars, fetched, failureVars>>

AddDataThrows(f) == /\ fpc[f] = "recv"
                    /\ fetched[f] < MaxChunks
                    /\ ThrowLocked(f)
                    /\ FetcherGoto(f, "handlerReady")
                    /\ UNCHANGED <<clientVars, fetched>>

LeaveSilently(f) == /\ FetcherGoto(f, "handlerReady")
                    /\ silent' = silent \cup {f}
                    /\ UNCHANGED <<cache, clientVars, fetched, cacheLocked, threadIdsLocked,
                                   leftLocked, stuck, aborted>>

(* socket, getaddrinfo, connect, send or recv failed, and the              *)
(* ProxyException that is to say so cannot be built.                       *)
FetchErrorThrows(f) == /\ fpc[f] \in {"initServerConnection", "recv"}
                       /\ LeaveSilently(f)

Abort == aborted' = TRUE /\ UNCHANGED <<vars, cacheLocked, threadIdsLocked, leftLocked, stuck, silent>>

HandleErrorThrows(f) == /\ fpc[f] = "addError"
                        /\ IsFree(NodeOf(f))
                        /\ Abort

(* A client that broke off takes with it what its fetcher still refers to: *)
(* host when handle is left, URL when the handler is dropped.  The fetcher *)
(* may read what was there, crash, or take another node for its own.       *)
ReadsFreed(f) ==
    \/ fpc[f] = "initServerConnection" /\ pc[f] \in {"closeSocket", "ready"} /\ Abort
    \/ fpc[f] = "handleError" /\ pc[f] = "ready" /\ (Abort \/ LeaveSilently(f))

Throws == \E t \in Clients :
             \/ AddCacheNodeThrows(t) \/ MakeHandlerThrows(t) \/ RegisterThrows(t)
             \/ GetDataThrows(t) \/ ErrorThrows(t)
             \/ AddDataThrows(t) \/ FetchErrorThrows(t) \/ HandleErrorThrows(t)
             \/ ReadsFreed(t)

(* The threads of CacheStream, where they do not need the cache's mutex.   *)
(* A client that has started its fetcher gets no further without           *)
(* threadIdsMutex.                                                         *)
ClientRuns(c) ==
    /\ c \notin stuck
    /\ pc[c] \in {"contains", "addCacheNode", "getCacheNode"} => ~cacheLocked
    /\ ClientThread(c)
    /\ stuck' = IF pc[c] = "initServerThread" /\ threadIdsLocked THEN stuck \cup {c} ELSE stuck
    /\ UNCHANGED <<cacheLocked, threadIdsLocked, leftLocked, silent, aborted>>

(* Without the cache's mutex a fetcher gets no further than to an error. *)
FetcherRuns(f) ==
    /\ fpc[f] = "handleError" => ~cacheLocked
    /\ FetcherThread(f)
    /\ fpc[f] = "initServerConnection" /\ fpc'[f] = "recv" => ~cacheLocked
    /\ UNCHANGED failureVars

(* The process has ended, or every thread has, or waits in vain. *)
AtRest == /\ \/ aborted
             \/ \A c \in Clients : \/ pc[c] \in {"condWait", "ready"}
                                   \/ cacheLocked \/ c \in stuck
                                   \/ url[c] \in leftLocked
          /\ UNCHANGED storageVars

StorageNext == \/ ~aborted /\ (\/ Throws
                               \/ \E c \in Clients : ClientRuns(c)
                               \/ \E c \in Clients : SpuriousWakeup(c) /\ UNCHANGED failureVars
                               \/ \E f \in Clients : FetcherRuns(f))
               \/ AtRest

StorageSpec == StorageInit /\ [][StorageNext]_storageVars

(* As Fairness of CacheStream. *)
FairStorage ==
    /\ StorageSpec
    /\ \A c \in Clients :
          WF_storageVars(~aborted /\ pc[c] # "handleClientRequest" /\ ClientRuns(c))
    /\ \A f \in Clients : WF_storageVars(~aborted /\ FetcherRuns(f))
    /\ <>[][\A c \in Clients : ~SpuriousWakeup(c)]_storageVars
-----------------------------------------------------------------------------
(* Who was to make a node ready is not lost without a trace: a node that   *)
(* is not ready and that nobody is in charge of is locked for good, where  *)
(* a later call finds it, or no thread could be started to fetch it, or    *)
(* its fetcher could not build the exception that was to report it.        *)
UnreadyExplained ==
    \A u \in DOMAIN cache :
        \/ cache[u].nodeReady \/ u \in leftLocked
        \/ \E f \in Clients : /\ url[f] = u
                              /\ \/ pc[f] = "initServerThread"
                                 \/ fpc[f] \in Fetching \cup {"createFailed"}
                                 \/ f \in silent

(* A failure stops those who need the same node, not others: a client that *)
(* reaches a node with a fetcher is served unless a failure has locked     *)
(* that node or the cache as a whole, or silenced a fetcher of that node.  *)
OtherNodesServed ==
    \A c \in Clients :
        pc[c] \in Listening /\ Fetchers(url[c]) # {}
            ~> \/ pc[c] = "ready" \/ url[c] \in leftLocked \/ cacheLocked \/ aborted
               \/ \E f \in silent : url[f] = url[c]
=============================================================================
