--------------------------- MODULE DroppedHandlers ---------------------------
(***************************************************************************)
(* What the fetchers of CacheStream refer to, and how long it is there.    *)
(*                                                                         *)
(* A ServerConnectionHandler keeps references: to the host, a local of the *)
(* handle of the client that started it, and to the request and the URL,   *)
(* members of that client's handler.  The main thread drops the handler    *)
(* when the client is ready (MultiThreadProxy::checkConnectionHandlers),   *)
(* whether its fetcher is or not, and the memory is free for the handler   *)
(* of a client that connects later.  A fetcher that still looks up "its"   *)
(* URL then finds that client's node, or inserts a null pointer and        *)
(* follows it, or reads what happens to be there.                          *)
(*                                                                         *)
(* Clients do what they do in CacheStream; the fetchers do it to the node  *)
(* they found instead of the node of the URL they were started for.        *)
(***************************************************************************)
EXTENDS CacheStream

VARIABLES
    tenant,    \* whose handler is, or was last, where that of a client was made
    dropped,   \* clients whose handler has been destroyed
    node,      \* ServerConnectionHandler: the URL whose node cacheNode points to
    lookedUp,  \* the fetcher's call of getCacheNode that it points there for
    crashed,   \* memory that is not there was used, and the process is gone
    broken     \* AUXILIARY: clients whose connection broke

memoryVars == <<tenant, dropped, broken>>
fetchVars == <<node, lookedUp>>
dropVars == <<vars, memoryVars, fetchVars, crashed>>

(* The fetchers with the node they work on for their URL. *)
Fetch == INSTANCE CacheStream WITH url <- node

DropInit == /\ Init
            /\ tenant = [c \in Clients |-> c]
            /\ dropped = {}
            /\ node = [f \in Clients |-> NoUrl]
            /\ lookedUp = [f \in Clients |-> "none"]
            /\ crashed = FALSE
            /\ broken = {}
-----------------------------------------------------------------------------
(* Clients that may be yet to connect: nobody's memory is theirs already. *)
Expected == {d \in Clients : /\ pc[d] = "handleClientRequest"
                             /\ \A c \in Clients \ {d} : tenant[c] # d}

(* checkConnectionHandlers erases the handler, and a later addNewConnection *)
(* may put another into its place.                                          *)
DropHandler(c) ==
    /\ pc[c] = "ready"
    /\ c \notin dropped
    /\ dropped' = dropped \cup {c}
    /\ \E next \in {c} \cup Expected :
          tenant' = [d \in Clients |-> IF tenant[d] = c THEN next ELSE tenant[d]]
    /\ UNCHANGED <<vars, fetchVars, crashed, broken>>

Crash == crashed' = TRUE /\ UNCHANGED <<vars, memoryVars, fetchVars>>

(* handle has been left, and with it the host is gone. *)
ReadHost(f) == /\ fpc[f] = "initServerConnection"
               /\ pc[f] \in {"sendError", "closeSocket", "ready"}
               /\ Crash

(* getCacheNode in getResponseFromServer, and once more in handleError. *)
AtLookUp(f) == fpc[f] \in {"recv", "handleError"} /\ lookedUp[f] # fpc[f]

LookUp(f) == /\ AtLookUp(f)
             /\ url[tenant[f]] \in DOMAIN cache
             /\ node' = [node EXCEPT ![f] = url[tenant[f]]]
             /\ lookedUp' = [lookedUp EXCEPT ![f] = fpc[f]]
             /\ UNCHANGED <<vars, memoryVars, crashed>>

(* What is read is no URL that has a node, or nothing that can be read. *)
LookUpNothing(f) == /\ AtLookUp(f)
                    /\ f \in dropped \/ url[tenant[f]] \notin DOMAIN cache
                    /\ Crash

FetcherWorks(f) == /\ ~AtLookUp(f)
                   /\ Fetch!FetcherThread(f)
                   /\ UNCHANGED <<url, memoryVars, lookedUp, crashed>>

ClientWorks(c) == /\ ClientThread(c) \/ SpuriousWakeup(c)
                  /\ broken' = IF SendFails(c) THEN broken \cup {c} ELSE broken
                  /\ UNCHANGED <<tenant, dropped, fetchVars, crashed>>

(* The process is gone, or nothing is left to be done. *)
AllDropped == /\ crashed \/ (AllDone /\ dropped = Clients)
              /\ UNCHANGED dropVars

DropNext == \/ /\ ~crashed
               /\ \E t \in Clients : \/ ClientWorks(t) \/ DropHandler(t)
                                     \/ ReadHost(t) \/ LookUp(t) \/ LookUpNothing(t)
                                     \/ FetcherWorks(t)
            \/ AllDropped

DropSpec == DropInit /\ [][DropNext]_dropVars
-----------------------------------------------------------------------------
(* No connection broke, and contains and addCacheNode were not interleaved *)
(* so that a URL is fetched twice.                                         *)
Undisturbed ==
    /\ broken = {}
    /\ \A f, g \in Clients : fpc[f] # "none" /\ fpc[g] # "none" /\ url[f] = url[g] => f = g

(* Of clients that leave in good order the fetchers find everything they   *)
(* refer to, however the two are interleaved: no call of getCacheNode      *)
(* meets a URL without a node (it would insert and return a null pointer), *)
(* and none finds the node of another URL than the one that is fetched.    *)
NodeFound ==
    Undisturbed => /\ ~crashed
                   /\ \A f \in Clients : node[f] \in {NoUrl, url[f]}
=============================================================================
