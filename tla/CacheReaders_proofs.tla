-------------------------- MODULE CacheReaders_proofs --------------------------
(***************************************************************************)
(* What CacheStream promises its clients, for any number of clients, URLs  *)
(* and chunks.  A node is ready because a fetcher said so, a node that is  *)
(* not has somebody in charge of it, no wakeup is lost, some broadcasts    *)
(* come late, what a fetcher borrows from its client is there; who takes a *)
(* response for complete has all of it, and the threads, locks, wakeups    *)
(* and sockets implement a SharedLog.  The last parts are about threads    *)
(* that are cancelled, a machine that runs out of memory, and handlers     *)
(* that are dropped while something refers to them.                        *)
(***************************************************************************)
EXTENDS Cancellation, StorageFailures, DroppedHandlers, CacheDelivery_proofs
-----------------------------------------------------------------------------
(* What one step of a fetcher does to its program counter, and what to the *)
(* readiness of the nodes: the step that gets it from Fetching to          *)
(* Published, and no other, calls setReady on its node.                    *)

Publishes(f) == fpc[f] \in {"setReady", "handleError"}

LEMMA FetcherMoves ==
    ASSUME TypeInv, NEW f \in Clients, FetcherThread(f)
    PROVE  /\ fpc[f] \in Fetching \cup Published
           /\ \E next \in Fetching \cup Published :
                 /\ fpc' = [fpc EXCEPT ![f] = next]
                 /\ next \in Published <=> Publishes(f) \/ fpc[f] \in Published
                 /\ next # "initServerConnection"
           /\ \A k \in Clients : fetched[k] <= fetched'[k]
           /\ fpc[f] \in Published => UNCHANGED fetched
           /\ ~ReceiveData(f) => UNCHANGED fetched
<1>1. fetched \in [Clients -> Int]
  BY NodeAssumption DEF TypeInv, TypeOK
<1> USE DEF Fetching, Published, Publishes, FetcherGoto
<1>2. CASE ContactServer(f) \/ ReceiveFails(f) \/ LeaveFetcher(f)
  BY <1>1, <1>2 DEF ContactServer, ReceiveFails, LeaveFetcher
<1>3. CASE ReceiveData(f)
  BY <1>1, <1>3 DEF ReceiveData
<1>4. CASE ReceiveEnd(f) \/ BroadcastData(f)
  BY <1>1, <1>4 DEF ReceiveEnd, BroadcastData
<1>5. CASE FinishNode(f) \/ FinalBroadcast(f)
  BY <1>1, <1>5 DEF FinishNode, FinalBroadcast
<1>6. CASE FailNode(f) \/ AddErrorText(f) \/ BroadcastError(f)
  BY <1>1, <1>6 DEF FailNode, AddErrorText, BroadcastError
<1>7. QED
  BY <1>2, <1>3, <1>4, <1>5, <1>6 DEF FetcherThread, Receive

LEMMA FetcherReadies ==
    ASSUME TypeInv, NEW f \in Clients, FetcherThread(f), NEW u \in DOMAIN cache
    PROVE  cache'[u].nodeReady = (cache[u].nodeReady \/ (url[f] = u /\ Publishes(f)))
<1>0. cache[u].nodeReady \in BOOLEAN /\ cache[u] \in Node
  BY NodeFields DEF TypeInv, TypeOK
<1>1. ASSUME NEW n, NodeBecomes(f, n), n.nodeReady = NodeOf(f).nodeReady
      PROVE  cache'[u].nodeReady = cache[u].nodeReady
  BY <1>1 DEF NodeBecomes, NodeOf
<1>2. CASE ReceiveData(f) \/ ReceiveEnd(f) \/ AddErrorText(f)
  <2>1. PICK d \in Seq(Items) : NodeBecomes(f, AddData(NodeOf(f), d))
    BY <1>2, FetcherStores
  <2>2. AddData(NodeOf(f), d).nodeReady = NodeOf(f).nodeReady
    BY <2>1, AddDataFields DEF NodeBecomes
  <2>3. ~Publishes(f)
    BY <1>2 DEF ReceiveData, ReceiveEnd, AddErrorText, Publishes
  <2>4. QED
    BY <1>0, <1>1, <2>1, <2>2, <2>3
<1>3. CASE BroadcastData(f) \/ FinalBroadcast(f) \/ BroadcastError(f)
  <2>1. NodeBecomes(f, Broadcast(NodeOf(f)))
    BY <1>3, FetcherCalls
  <2>2. Broadcast(NodeOf(f)).nodeReady = NodeOf(f).nodeReady
    BY <2>1, BroadcastFields DEF NodeBecomes
  <2>3. ~Publishes(f)
    BY <1>3 DEF BroadcastData, FinalBroadcast, BroadcastError, Publishes
  <2>4. QED
    BY <1>0, <1>1, <2>1, <2>2, <2>3
<1>4. CASE FinishNode(f) \/ FailNode(f)
  <2>1. NodeBecomes(f, SetReady(NodeOf(f)))
    BY <1>4, FetcherCalls
  <2>2. SetReady(NodeOf(f)).nodeReady = TRUE
    BY <2>1, SetReadyFields DEF NodeBecomes
  <2>3. Publishes(f)
    BY <1>4 DEF FinishNode, FailNode, Publishes
  <2>4. CASE url[f] = u
    BY <2>1, <2>2, <2>3, <2>4 DEF NodeBecomes
  <2>5. CASE url[f] # u
    BY <1>0, <2>1, <2>5 DEF NodeBecomes
  <2>6. QED
    BY <2>4, <2>5
<1>5. CASE ContactServer(f) \/ ReceiveFails(f) \/ LeaveFetcher(f)
  BY <1>0, <1>5 DEF ContactServer, ReceiveFails, LeaveFetcher, Publishes
<1>6. QED
  BY <1>2, <1>3, <1>4, <1>5 DEF FetcherThread, Receive

(* A client's step starts at most its own fetcher. *)
LEMMA ClientStarts ==
    ASSUME TypeInv, [Next]_vars, ~(\E f \in Clients : FetcherThread(f)), NEW g \in Clients
    PROVE  /\ fetched'[g] = fetched[g]
           /\ \/ fpc'[g] = fpc[g]
              \/ /\ InitServerThread(g)
                 /\ fpc[g] = "none" /\ pc[g] = "initServerThread"
                 /\ fpc'[g] \in {"initServerConnection", "createFailed"}
                 /\ pc'[g] = "getCacheNode"
<1>1. fpc'[g] = fpc[g] \/ InitServerThread(g)
  BY OtherFetchers DEF TypeInv
<1>2. fetched'[g] = fetched[g]
  BY OtherFetchers DEF TypeInv
<1>3. InitServerThread(g) => /\ fpc[g] = "none" /\ pc[g] = "initServerThread"
                             /\ fpc'[g] \in {"initServerConnection", "createFailed"}
                             /\ pc'[g] = "getCacheNode"
  BY DEF InitServerThread, Goto, TypeInv, TypeOK, InOrder, NotYetFetching
<1>4. QED
  BY <1>1, <1>2, <1>3

(* Fetchers come and do not go. *)
LEMMA FetchersStay ==
    ASSUME TypeInv, [Next]_vars, NEW f \in Clients, fpc[f] \in Fetching \cup Published
    PROVE  /\ url'[f] = url[f]
           /\ fpc'[f] \in Fetching \cup Published
           /\ fpc[f] \in Published => fpc'[f] \in Published
           /\ fetched[f] <= fetched'[f]
           /\ fpc'[f] = "initServerConnection" => fpc[f] = "initServerConnection"
<1>1. fpc[f] # "none"
  BY DEF Fetching, Published
<1>2. url'[f] = url[f]
  BY <1>1, UrlKept
<1>3. fpc \in [Clients -> FetcherPC] /\ fetched[f] \in Int
  BY NodeAssumption DEF TypeInv, TypeOK
<1>4. CASE ~(\E g \in Clients : FetcherThread(g))
  BY <1>1, <1>2, <1>3, <1>4, ClientStarts
<1>5. ASSUME NEW g \in Clients, FetcherThread(g)
      PROVE  /\ fpc'[f] \in Fetching \cup Published
             /\ fpc[f] \in Published => fpc'[f] \in Published
             /\ fetched[f] <= fetched'[f]
             /\ fpc'[f] = "initServerConnection" => fpc[f] = "initServerConnection"
  BY <1>3, <1>5, FetcherMoves
<1>6. QED
  BY <1>2, <1>4, <1>5
-----------------------------------------------------------------------------
(* A node is ready if, and only if, one of its fetchers has said so. *)

ReadyExplained ==
    \A u \in DOMAIN cache :
        cache[u].nodeReady <=> \E f \in Fetchers(u) : fpc[f] \in Published

LEMMA ReadyInit == Init => ReadyExplained
BY DEF Init, ReadyExplained

LEMMA ReadyStep == TypeInv /\ ReadyExplained /\ [Next]_vars => ReadyExplained'
<1> SUFFICES ASSUME TypeInv, ReadyExplained, [Next]_vars, NEW u \in DOMAIN cache'
             PROVE  cache'[u].nodeReady <=> \E f \in Fetchers(u)' : fpc'[f] \in Published
  BY DEF ReadyExplained
<1>1. CASE u \notin DOMAIN cache
  BY <1>1, NewNodeUnfetched, NewNodeFields
<1>2. ASSUME u \in DOMAIN cache
      PROVE  cache[u].nodeReady <=> \E f \in Fetchers(u) : fpc[f] \in Published
  BY <1>2 DEF ReadyExplained
<1>3. fpc \in [Clients -> FetcherPC]
  BY DEF TypeInv, TypeOK
<1>4. \A f \in Clients : fpc[f] # "none" => url'[f] = url[f]
  BY UrlKept
<1>5. CASE u \in DOMAIN cache /\ ~(\E f \in Clients : FetcherThread(f))
  <2>1. cache'[u].nodeReady = cache[u].nodeReady
    BY <1>5, ClientKeepsData
  <2>2. \A g \in Clients : /\ fpc'[g] \in Published <=> fpc[g] \in Published
                           /\ fpc[g] \in Published => fpc[g] # "none"
    BY <1>5, ClientStarts DEF Published
  <2>3. \A g \in Clients : g \in Fetchers(u)' /\ fpc'[g] \in Published
                              <=> g \in Fetchers(u) /\ fpc[g] \in Published
    BY <1>4, <2>2 DEF Fetchers
  <2>4. QED
    BY <1>2, <1>5, <2>1, <2>3 DEF Fetchers
<1>6. ASSUME NEW f \in Clients, FetcherThread(f), u \in DOMAIN cache
      PROVE  cache'[u].nodeReady <=> \E g \in Fetchers(u)' : fpc'[g] \in Published
  <2>1. cache'[u].nodeReady <=> cache[u].nodeReady \/ (url[f] = u /\ Publishes(f))
    BY <1>6, FetcherReadies
  <2>2. PICK next \in Fetching \cup Published :
           /\ fpc' = [fpc EXCEPT ![f] = next]
           /\ next \in Published <=> Publishes(f) \/ fpc[f] \in Published
    BY <1>6, FetcherMoves
  <2>3. UNCHANGED url /\ fpc[f] \in Fetching \cup Published
    BY <1>6, FetcherStep, FetcherMoves DEF clientVars
  <2>4. \A g \in Clients : /\ g \in Fetchers(u)' <=> g \in Fetchers(u)
                           /\ g \in Fetchers(u) => url[g] = u
    BY <1>3, <2>2, <2>3 DEF Fetchers
  <2>5. \A g \in Clients : fpc'[g] \in Published
                              <=> fpc[g] \in Published \/ (g = f /\ Publishes(f))
    BY <1>3, <2>2
  <2>6. url[f] = u <=> f \in Fetchers(u)
    BY <2>3 DEF Fetchers
  <2>7. Fetchers(u) \subseteq Clients /\ Fetchers(u)' \subseteq Clients
    BY DEF Fetchers
  <2>8. QED
    BY <1>2, <1>6, <2>1, <2>4, <2>5, <2>6, <2>7
<1>7. QED
  BY <1>1, <1>5, <1>6
-----------------------------------------------------------------------------
(* Somebody is in charge of a node that is not ready.                      *)

InCharge(u, f) == /\ url[f] = u
                  /\ \/ pc[f] = "initServerThread"
                     \/ fpc[f] \in Fetching \cup {"createFailed"}

LEMMA InChargeInit == Init => UnreadyNodeInCharge
BY DEF Init, UnreadyNodeInCharge

LEMMA StaysInCharge ==
    ASSUME TypeInv, [Next]_vars, NEW u \in DOMAIN cache', ~cache'[u].nodeReady,
           u \in DOMAIN cache => \E f \in Clients : InCharge(u, f)
    PROVE  \E f \in Clients : InCharge(u, f)'
<1>1. CASE u \notin DOMAIN cache
  <2>1. PICK c \in Clients : AddCacheNode(c)
    BY <1>1, NodesAreAdded
  <2>2. url[c] = u
    BY <1>1, <2>1 DEF AddCacheNode, Emplace
  <2>3. QED
    BY <2>1, <2>2 DEF AddCacheNode, Goto, InCharge, TypeInv, TypeOK
<1>2. CASE u \in DOMAIN cache
  <2>1. cache[u] \in Node
    BY <1>2 DEF TypeInv, TypeOK
  <2>2. PICK f \in Clients : InCharge(u, f)
    BY <1>2
  <2>3. url'[f] = url[f]
    BY <2>2, UrlKept DEF InCharge, Fetching
  <2>4. CASE pc[f] = "initServerThread"
    <3>1. ClientThread(f) => InitServerThread(f)
      BY <2>4 DEF ClientThread, AcceptRequest, RejectRequest, Contains, AddCacheNode,
         SendDataFromCache, StartListening, TakeMutex, SeeData, SeeReady, WaitForData,
         Send, SendFails, StopListening, LeaveHandle
    <3>2. CASE InitServerThread(f)
      BY <2>2, <2>3, <3>2 DEF InitServerThread, InCharge, Fetching, TypeInv, TypeOK
    <3>3. CASE ~ClientThread(f)
      BY <2>2, <2>3, <2>4, <3>3, OtherClients DEF InCharge, TypeInv
    <3>4. QED
      BY <3>1, <3>2, <3>3
  <2>5. CASE fpc[f] \in Fetching \cup {"createFailed"}
    <3>1. fpc \in [Clients -> FetcherPC]
      BY DEF TypeInv, TypeOK
    <3>2. CASE ~(\E g \in Clients : FetcherThread(g))
      <4>1. fpc'[f] = fpc[f]
        BY <2>5, <3>2, ClientStarts DEF Fetching
      <4>2. QED
        BY <2>2, <2>3, <2>5, <4>1 DEF InCharge
    <3>3. ASSUME NEW g \in Clients, FetcherThread(g), g # f
          PROVE  InCharge(u, f)'
      <4>1. fpc'[f] = fpc[f]
        BY <3>1, <3>3, FetcherMoves
      <4>2. QED
        BY <2>2, <2>3, <2>5, <4>1 DEF InCharge
    <3>4. CASE FetcherThread(f)
      <4>1. ~Publishes(f)
        BY <1>2, <2>2, <3>4, FetcherReadies DEF InCharge
      <4>2. fpc[f] \notin Published
        BY <2>5 DEF Fetching, Published
      <4>3. fpc'[f] \in Fetching
        BY <3>1, <3>4, <4>1, <4>2, FetcherMoves
      <4>4. QED
        BY <2>2, <2>3, <4>3 DEF InCharge
    <3>5. QED
      BY <3>2, <3>3, <3>4
  <2>6. QED
    BY <2>2, <2>4, <2>5 DEF InCharge
<1>3. QED
  BY <1>1, <1>2

LEMMA InChargeStep == TypeInv /\ UnreadyNodeInCharge /\ [Next]_vars => UnreadyNodeInCharge'
<1> SUFFICES ASSUME TypeInv, UnreadyNodeInCharge, [Next]_vars,
                    NEW u \in DOMAIN cache', ~cache'[u].nodeReady
             PROVE  \E f \in Clients : InCharge(u, f)'
  BY DEF UnreadyNodeInCharge, InCharge
<1>1. u \in DOMAIN cache => ~cache[u].nodeReady
  BY CacheStep DEF CacheGrows
<1>2. QED
  BY <1>1, StaysInCharge DEF UnreadyNodeInCharge, InCharge

(* A node that is not ready is not forgotten: a client is about to start   *)
(* its fetcher, or a fetcher has still to make it ready, unless the        *)
(* creation of that fetcher's thread failed.                               *)
THEOREM UnreadyInCharge == Spec => []UnreadyNodeInCharge
BY TypeInvInit, TypeInvStep, InChargeInit, InChargeStep, PTL DEF Spec
-----------------------------------------------------------------------------
(***************************************************************************)
(* No wakeup is lost.  A client goes to wait only when there is neither    *)
(* data for it nor readiness, and it looks and waits under the mutex that  *)
(* addData and setReady take; whoever calls these has its broadcast still  *)
(* to make.                                                                *)
(***************************************************************************)

AboutToBroadcast ==
    {"broadcast", "lastBroadcast", "finalBroadcast", "addError", "errorBroadcast"}

Overdue(u, c) == offset[c] # Len(cache[u].data) \/ cache[u].nodeReady

(* A fetcher's step empties the condition variable, or leaves the node as  *)
(* it is, or is followed by a broadcast.                                   *)
LEMMA FetcherTells ==
    ASSUME TypeInv, NEW f \in Clients, FetcherThread(f), url[f] \in DOMAIN cache
    PROVE  \/ cache'[url[f]].anyDataCondVar = {}
           \/ fpc[f] \notin AboutToBroadcast /\ UNCHANGED cache
           \/ fpc'[f] \in AboutToBroadcast
<1>0. fpc \in [Clients -> FetcherPC]
  BY DEF TypeInv, TypeOK
<1>1. CASE BroadcastData(f) \/ FinalBroadcast(f) \/ BroadcastError(f)
  <2>1. NodeBecomes(f, Broadcast(NodeOf(f)))
    BY <1>1, FetcherCalls
  <2>2. Broadcast(NodeOf(f)).anyDataCondVar = {}
    BY <2>1, BroadcastFields DEF NodeBecomes
  <2>3. QED
    BY <2>1, <2>2 DEF NodeBecomes
<1>2. CASE ContactServer(f) \/ ReceiveFails(f) \/ LeaveFetcher(f)
  BY <1>2 DEF ContactServer, ReceiveFails, LeaveFetcher, AboutToBroadcast
<1>3. CASE ReceiveData(f) \/ ReceiveEnd(f) \/ FinishNode(f) \/ FailNode(f) \/ AddErrorText(f)
  BY <1>0, <1>3 DEF ReceiveData, ReceiveEnd, FinishNode, FailNode, AddErrorText, FetcherGoto,
                    AboutToBroadcast
<1>4. QED
  BY <1>1, <1>2, <1>3 DEF FetcherThread, Receive

(* A client blocks when it has everything there is. *)
LEMMA BlocksUpToDate ==
    ASSUME TypeInv, [Next]_vars, NEW u \in DOMAIN cache, NEW c \in Clients,
           c \in cache'[u].anyDataCondVar, c \notin cache[u].anyDataCondVar
    PROVE  WaitForData(c) /\ url[c] = u
<1>0. cache[u] \in Node
  BY DEF TypeInv, TypeOK
<1>1. ASSUME NEW d \in Clients, NEW n, NodeBecomes(d, n),
             n.anyDataCondVar \subseteq NodeOf(d).anyDataCondVar
      PROVE  FALSE
  BY <1>1 DEF NodeBecomes, NodeOf
<1>2. ASSUME NEW d \in Clients, StartListening(d) \/ StopListening(d)
      PROVE  FALSE
  BY <1>1, <1>2, ClientCalls, AddListenerFields, RemoveListenerFields DEF NodeBecomes
<1>3. ASSUME NEW d \in Clients, TakeMutex(d)
      PROVE  FALSE
  <2>1. NodeBecomes(d, Lock(NodeOf(d), d))
    BY <1>3, ClientCalls
  <2>2. Lock(NodeOf(d), d).anyDataCondVar = NodeOf(d).anyDataCondVar
    BY <2>1, LockFields DEF NodeBecomes
  <2>3. QED
    BY <1>1, <2>1, <2>2
<1>4. ASSUME NEW d \in Clients, SeeData(d) \/ SeeReady(d)
      PROVE  FALSE
  <2>1. NodeBecomes(d, Unlock(NodeOf(d)))
    BY <1>4, ClientCalls
  <2>2. Unlock(NodeOf(d)).anyDataCondVar = NodeOf(d).anyDataCondVar
    BY <2>1, UnlockFields DEF NodeBecomes
  <2>3. QED
    BY <1>1, <2>1, <2>2
<1>5. ASSUME NEW d \in Clients, SpuriousWakeup(d)
      PROVE  FALSE
  <2>1. NodeBecomes(d, WakeSpuriously(NodeOf(d), d))
    BY <1>5, ClientCalls
  <2>2. WakeSpuriously(NodeOf(d), d).anyDataCondVar = NodeOf(d).anyDataCondVar \ {d}
    BY <2>1, WakeSpuriouslyFields DEF NodeBecomes
  <2>3. QED
    BY <1>1, <2>1, <2>2
<1>6. ASSUME NEW d \in Clients, AddCacheNode(d)
      PROVE  FALSE
  BY <1>6 DEF AddCacheNode, Emplace
<1>7. ASSUME NEW f \in Clients, FetcherThread(f)
      PROVE  FALSE
  BY <1>7, FetcherStep DEF SparesLocks
<1>8. ASSUME NEW d \in Clients, WaitForData(d)
      PROVE  d = c /\ url[c] = u
  BY <1>8, ClientCalls, WaitFields DEF NodeBecomes, NodeOf
<1>9. CASE UNCHANGED cache
  BY <1>9
<1>10. QED
  BY <1>2, <1>3, <1>4, <1>5, <1>6, <1>7, <1>8, <1>9 DEF Next, ClientThread, SendDataFromCache,
     AllDone, vars, AcceptRequest, RejectRequest, Contains, InitServerThread, Send, SendFails,
     LeaveHandle

LEMMA WakeupInit == Init => NoLostWakeup
BY DEF Init, NoLostWakeup

LEMMA WakeupStep == TypeInv /\ MonitorOK /\ NoLostWakeup /\ [Next]_vars => NoLostWakeup'
<1> SUFFICES ASSUME TypeInv, MonitorOK, NoLostWakeup, [Next]_vars, NEW u \in DOMAIN cache',
                    NEW c \in cache'[u].anyDataCondVar, Overdue(u, c)'
             PROVE  \E f \in Fetchers(u)' : fpc'[f] \in AboutToBroadcast
  BY DEF NoLostWakeup, Overdue, AboutToBroadcast
<1>1. u \in DOMAIN cache
  BY NodesAreAdded, NewNodeFields
<1>2. c \in Clients
  BY CacheStep, NodeFields DEF CacheGrows
<1>3. CASE c \notin cache[u].anyDataCondVar
  <2>1. WaitForData(c) /\ url[c] = u
    BY <1>1, <1>2, <1>3, BlocksUpToDate
  <2>2. NodeBecomes(c, Wait(NodeOf(c), c))
    BY <1>2, <2>1, ClientCalls
  <2>3. cache'[u].data = cache[u].data /\ cache'[u].nodeReady = cache[u].nodeReady
    BY <1>2, <2>1, <2>2, WaitFields DEF NodeBecomes, NodeOf
  <2>4. offset'[c] = Len(cache[u].data) /\ ~cache[u].nodeReady
    BY <1>2, <2>1 DEF WaitForData, NodeOf, TypeInv, TypeOK
  <2>5. QED
    BY <2>3, <2>4 DEF Overdue
<1>4. CASE c \in cache[u].anyDataCondVar
  <2>1. url[c] = u /\ pc[c] = "condWait" /\ c \in NodeOf(c).anyDataCondVar
    BY <1>1, <1>4 DEF MonitorOK, NodeOf
  <2>2. offset'[c] = offset[c]
    <3>1. ~ClientThread(c)
      BY <2>1 DEF ClientThread, AcceptRequest, RejectRequest, Contains, AddCacheNode,
         InitServerThread, SendDataFromCache, StartListening, TakeMutex, SeeData, SeeReady,
         WaitForData, Send, SendFails, StopListening, LeaveHandle
    <3>2. QED
      BY <1>2, <3>1, OtherClients DEF TypeInv
  <2>3. Overdue(u, c) => \E f \in Fetchers(u) : fpc[f] \in AboutToBroadcast
    BY <1>1, <1>4 DEF NoLostWakeup, Overdue, AboutToBroadcast
  <2>4. fpc \in [Clients -> FetcherPC] /\ AboutToBroadcast \subseteq Fetching \cup Published
    BY DEF TypeInv, TypeOK, AboutToBroadcast, Fetching, Published
  <2>5. ASSUME NEW f \in Clients, f \in Fetchers(u)
        PROVE  f \in Fetchers(u)'
    BY <2>5, FetchersStay DEF Fetchers
  <2>6. CASE ~(\E f \in Clients : FetcherThread(f))
    <3>1. Overdue(u, c)
      BY <1>1, <2>2, <2>6, ClientKeepsData DEF Overdue
    <3>2. PICK f \in Fetchers(u) : fpc[f] \in AboutToBroadcast
      BY <2>3, <3>1
    <3>3. f \in Clients /\ fpc'[f] = fpc[f]
      BY <2>6, <3>2, ClientStarts DEF Fetchers, AboutToBroadcast
    <3>4. QED
      BY <2>5, <3>2, <3>3
  <2>7. ASSUME NEW g \in Clients, FetcherThread(g)
        PROVE  \E f \in Fetchers(u)' : fpc'[f] \in AboutToBroadcast
    <3>1. /\ UNCHANGED url /\ fpc[g] \in Fetching \cup Published
          /\ \A f \in Clients : f # g => fpc'[f] = fpc[f]
      BY <2>4, <2>7, FetcherStep, FetcherMoves DEF clientVars
    <3>2. ASSUME Overdue(u, c), url[g] = u => fpc[g] \notin AboutToBroadcast
          PROVE  \E f \in Fetchers(u)' : fpc'[f] \in AboutToBroadcast
      <4>1. PICK f \in Fetchers(u) : fpc[f] \in AboutToBroadcast
        BY <2>3, <3>2
      <4>2. f \in Clients /\ f # g
        BY <3>2, <4>1 DEF Fetchers
      <4>3. QED
        BY <2>5, <3>1, <4>1, <4>2
    <3>3. CASE url[g] = u /\ fpc'[g] \in AboutToBroadcast
      BY <2>5, <3>1, <3>3 DEF Fetchers
    <3>4. CASE url[g] = u /\ fpc[g] \notin AboutToBroadcast /\ UNCHANGED cache
      BY <2>2, <3>2, <3>4 DEF Overdue
    <3>5. CASE url[g] # u
      <4>1. cache'[u].data = cache[u].data /\ cache'[u].nodeReady = cache[u].nodeReady
        <5>1. cache'[u] = cache[u]
          BY <1>1, <2>7, <3>5, FetcherCalls DEF NodeBecomes, FetcherThread, Receive,
             ContactServer, ReceiveFails, LeaveFetcher
        <5>2. QED
          BY <5>1
      <4>2. QED
        BY <2>2, <3>2, <3>5, <4>1 DEF Overdue
    <3>6. QED
      BY <1>1, <2>7, <3>3, <3>4, <3>5, FetcherTells
  <2>8. QED
    BY <2>6, <2>7
<1>5. QED
  BY <1>3, <1>4

(* A client blocked although it could go on has a broadcast coming: the    *)
(* receive loop broadcasts without the mutex, and still no wakeup is lost. *)
THEOREM WakeupsComing == Spec => []NoLostWakeup
BY TypeInvInit, TypeInvStep, MonitorInit, MonitorStep, WakeupInit, WakeupStep, PTL DEF Spec
-----------------------------------------------------------------------------
(* A client that saw its node ready is done: its send takes nothing more,  *)
(* and it does not go back to the wait loop.                               *)

ReadyIsLast ==
    \A c \in Clients :
        /\ pc[c] = "removeListener" => cacheNodeReady[c]
        /\ cacheNodeReady[c] =>
              /\ pc[c] \in {"send", "removeListener", "sendFailed"} \cup Leaving
              /\ pc[c] = "send" => offset[c] = size[c]
              /\ url[c] \in DOMAIN cache
              /\ NodeOf(c).nodeReady

LEMMA ReadyIsLastInit == Init => ReadyIsLast
BY DEF Init, ReadyIsLast

(* Of no data, send takes none. *)
LEMMA SendsNothing ==
    ASSUME TypeInv, ReadyIsLast, NEW c \in Clients, Send(c), cacheNodeReady[c]
    PROVE  /\ offset'[c] = offset[c]
           /\ sent'[c] = sent[c]
           /\ pc'[c] = "removeListener"
<1>1. /\ offset[c] \in Nat /\ size[c] = offset[c]
      /\ offset \in [Clients -> Nat] /\ sent \in [Clients -> Seq(Items)]
      /\ pc \in [Clients -> ClientPC]
      /\ NodeOf(c).data \in Seq(Items)
  BY NodeFields, NodeOfType DEF TypeInv, TypeOK, ReadyIsLast, Send
<1>2. PICK k \in SendCounts(size[c] - offset[c]) :
         /\ sent' = [sent EXCEPT ![c] = @ \o GetData(NodeOf(c), offset[c], k)]
         /\ offset' = [offset EXCEPT ![c] = @ + k]
  BY DEF Send
<1>3. k = 0
  BY <1>1, <1>2 DEF SendCounts
<1>4. offset'[c] = offset[c]
  BY <1>1, <1>2, <1>3
<1>5. pc'[c] = "removeListener"
  BY <1>1, <1>4 DEF Send, StreamDone, Goto
<1>6. GetData(NodeOf(c), offset[c], 0) = << >>
  BY <1>1, SubSeqEmpty DEF GetData
<1>7. sent'[c] = sent[c]
  BY <1>1, <1>2, <1>3, <1>6, ConcatEmptySeq
<1>8. QED
  BY <1>4, <1>5, <1>7

LEMMA ReadyIsLastStep == TypeInv /\ ReadyIsLast /\ [Next]_vars => ReadyIsLast'
<1> SUFFICES ASSUME TypeInv, ReadyIsLast, [Next]_vars, NEW c \in Clients
             PROVE  /\ pc'[c] = "removeListener" => cacheNodeReady'[c]
                    /\ cacheNodeReady'[c] =>
                          /\ pc'[c] \in {"send", "removeListener", "sendFailed"} \cup Leaving
                          /\ pc'[c] = "send" => offset'[c] = size'[c]
                          /\ url'[c] \in DOMAIN cache'
                          /\ cache'[url'[c]].nodeReady
  BY DEF ReadyIsLast, NodeOf
<1>1. /\ pc \in [Clients -> ClientPC] /\ cacheNodeReady \in [Clients -> BOOLEAN]
      /\ offset \in [Clients -> Nat] /\ size \in [Clients -> Nat]
  BY DEF TypeInv, TypeOK
<1>2. \A u \in DOMAIN cache :
         /\ u \in DOMAIN cache'
         /\ cache[u].nodeReady => cache'[u].nodeReady
  BY CacheStep DEF CacheGrows
<1>3. /\ pc[c] = "removeListener" => cacheNodeReady[c]
      /\ cacheNodeReady[c] =>
            /\ pc[c] \in {"send", "removeListener", "sendFailed"} \cup Leaving
            /\ pc[c] = "send" => offset[c] = size[c]
            /\ url[c] \in DOMAIN cache
            /\ cache[url[c]].nodeReady
  BY DEF ReadyIsLast, NodeOf
<1>4. CASE ~ClientThread(c)
  BY <1>2, <1>3, <1>4, OtherClients DEF TypeInv
<1>5. CASE SeeReady(c)
  <2>1. /\ pc'[c] = "send" /\ cacheNodeReady'[c] /\ offset'[c] = size'[c]
        /\ url'[c] = url[c] /\ NodeOf(c).nodeReady
    BY <1>1, <1>5 DEF SeeReady, Goto
  <2>2. url[c] \in DOMAIN cache
    BY <1>5 DEF SeeReady, TypeInv, HasNode, Attached, Listening
  <2>3. QED
    BY <1>2, <2>1, <2>2 DEF NodeOf
<1>6. CASE Send(c)
  <2>1. UNCHANGED <<url, cacheNodeReady>> /\ pc'[c] \in {"removeListener", "lock"}
    BY <1>1, <1>6 DEF Send, Goto
  <2>2. pc'[c] = "removeListener" => cacheNodeReady[c]
    BY <1>1, <1>6 DEF Send, Goto, StreamDone
  <2>3. cacheNodeReady[c] => pc'[c] = "removeListener"
    BY <1>6, SendsNothing
  <2>4. QED
    BY <1>2, <1>3, <2>1, <2>2, <2>3
<1>7. CASE SendFails(c) \/ StopListening(c) \/ LeaveHandle(c)
  <2>1. /\ UNCHANGED <<url, cacheNodeReady>>
        /\ pc'[c] \in {"sendFailed"} \cup Leaving
    BY <1>1, <1>7 DEF SendFails, StopListening, LeaveHandle, Goto, Leaving
  <2>2. QED
    BY <1>2, <1>3, <2>1 DEF Leaving
<1>8. CASE \/ \E u \in Urls : AcceptRequest(c, u)
           \/ RejectRequest(c) \/ Contains(c) \/ AddCacheNode(c) \/ InitServerThread(c)
           \/ StartListening(c) \/ TakeMutex(c) \/ SeeData(c) \/ WaitForData(c)
  <2>1. /\ UNCHANGED cacheNodeReady
        /\ pc[c] \notin {"send", "removeListener", "sendFailed"} \cup Leaving
        /\ pc'[c] # "removeListener"
    BY <1>1, <1>8 DEF AcceptRequest, RejectRequest, Contains, AddCacheNode, InitServerThread,
       StartListening, TakeMutex, SeeData, WaitForData, Goto, Leaving
  <2>2. QED
    BY <1>3, <2>1
<1>9. QED
  BY <1>4, <1>5, <1>6, <1>7, <1>8 DEF ClientThread, SendDataFromCache
-----------------------------------------------------------------------------
(***************************************************************************)
(* What a fetcher borrows from its client.  Until it has connected it has  *)
(* put nothing into the node, so its client cannot get past the wait loop  *)
(* unless a second fetcher of the URL has done something.                  *)
(***************************************************************************)

Connecting == {"getCacheNode", "lock", "check", "condWait"}

HostAlive ==
    \A f \in Clients :
        Overtaken(f) \/ (fpc[f] = "initServerConnection" => pc[f] \in Connecting)

LEMMA OvertakenStays ==
    ASSUME TypeInv, [Next]_vars, NEW f \in Clients, fpc[f] # "none", Overtaken(f)
    PROVE  Overtaken(f)'
<1>1. PICK g \in Fetchers(url[f]) \ {f} : fetched[g] > 0 \/ fpc[g] \in Published
  BY DEF Overtaken
<1>2. g \in Clients /\ url[g] = url[f] /\ fpc[g] \in Fetching \cup Published
  BY <1>1 DEF Fetchers
<1>3. url'[f] = url[f]
  BY UrlKept
<1>4. /\ url'[g] = url[g]
      /\ fpc'[g] \in Fetching \cup Published
      /\ fpc[g] \in Published => fpc'[g] \in Published
      /\ fetched[g] <= fetched'[g]
  BY <1>2, FetchersStay
<1>5. fetched[g] \in Int /\ fetched'[g] \in Int
  BY <1>2, TypeInvStep, NodeAssumption DEF TypeInv, TypeOK
<1>6. fetched'[g] > 0 \/ fpc'[g] \in Published
  BY <1>1, <1>4, <1>5
<1>7. g \in Fetchers(url[f])' /\ g # f
  BY <1>1, <1>2, <1>3, <1>4 DEF Fetchers
<1>8. QED
  BY <1>3, <1>6, <1>7 DEF Overtaken

(* What is in the node is not from a fetcher that has not connected. *)
LEMMA OthersWereHere ==
    ASSUME TypeInv, FetchInv, ReadyExplained, NEW f \in Clients,
           fpc[f] = "initServerConnection",
           Len(NodeOf(f).data) # 0 \/ NodeOf(f).nodeReady
    PROVE  Overtaken(f)
<1> DEFINE u == url[f]
<1>1. u \in DOMAIN cache /\ fetched[f] = 0 /\ fpc[f] \notin Published
  BY DEF TypeInv, HasNode, InOrder, Published
<1>2. CASE NodeOf(f).nodeReady
  <2>1. PICK g \in Fetchers(u) : fpc[g] \in Published
    BY <1>1, <1>2 DEF ReadyExplained, NodeOf
  <2>2. QED
    BY <1>1, <2>1 DEF Overtaken
<1>3. CASE Len(NodeOf(f).data) # 0
  <2> DEFINE data == cache[u].data
             g == data[1][1]
  <2>1. data \in Seq(Items) /\ Len(data) \in Nat
    BY <1>1, NodeFields DEF TypeInv, TypeOK
  <2>2. 1 \in DOMAIN data /\ data[1] \in Items
    BY <1>3, <2>1 DEF NodeOf
  <2>3. g \in Fetchers(u) /\ data[1][2] <= fetched[g] /\ (data[1][2] = 0 => Errored(g))
    BY <1>1, <2>2 DEF FetchInv, ChunksInOrder, OnlyFetched, ErrorComesLast
  <2>4. data[1][2] \in Nat
    BY <2>2, NodeAssumption DEF Items
  <2>5. g \in Clients /\ fetched[g] \in Int
    BY <2>3, NodeAssumption DEF Fetchers, TypeInv, TypeOK
  <2> HIDE DEF data, g, u
  <2>6. CASE data[1][2] = 0
    <3>1. fpc[g] \in Published /\ g # f
      BY <1>1, <2>3, <2>6 DEF Errored, Published
    <3>2. QED
      BY <2>3, <3>1 DEF Overtaken, u
  <2>7. CASE data[1][2] # 0
    <3>1. fetched[g] > 0
      BY <2>3, <2>4, <2>5, <2>7
    <3>2. QED
      BY <1>1, <2>3, <3>1 DEF Overtaken, u
  <2>8. QED
    BY <2>6, <2>7
<1>4. QED
  BY <1>2, <1>3

LEMMA HostAliveInit == Init => HostAlive
BY DEF Init, HostAlive

LEMMA HostAliveStep ==
    TypeInv /\ FetchInv /\ ReadyExplained /\ HostAlive /\ [Next]_vars => HostAlive'
<1> SUFFICES ASSUME TypeInv, FetchInv, ReadyExplained, HostAlive, [Next]_vars,
                    NEW f \in Clients, fpc'[f] = "initServerConnection", ~Overtaken(f)'
             PROVE  pc'[f] \in Connecting
  BY DEF HostAlive
<1>1. pc \in [Clients -> ClientPC] /\ fpc \in [Clients -> FetcherPC]
  BY DEF TypeInv, TypeOK
<1>2. CASE fpc[f] \notin Fetching \cup Published
  <2>1. \A g \in Clients : FetcherThread(g) => fpc'[f] = fpc[f]
    BY <1>1, <1>2, FetcherMoves
  <2>2. ~(\E g \in Clients : FetcherThread(g))
    BY <1>2, <2>1 DEF Fetching
  <2>3. QED
    BY <1>2, <2>2, ClientStarts DEF Fetching, Connecting
<1>3. CASE fpc[f] \in Fetching \cup Published
  <2>1. fpc[f] = "initServerConnection" /\ ~Overtaken(f)
    BY <1>3, FetchersStay, OvertakenStays
  <2>2. pc[f] \in Connecting
    BY <2>1 DEF HostAlive
  <2>3. Len(NodeOf(f).data) = 0 /\ ~NodeOf(f).nodeReady
    BY <2>1, OthersWereHere
  <2>4. offset[f] = 0
    <3>1. pc[f] = "getCacheNode" => offset[f] = 0
      BY DEF TypeInv, InOrder, Listening, Leaving
    <3>2. pc[f] # "getCacheNode" => offset[f] <= 0
      BY <2>2, <2>3 DEF TypeInv, WithinData, Connecting, Listening
    <3>3. offset[f] \in Nat
      BY DEF TypeInv, TypeOK
    <3>4. QED
      BY <3>1, <3>2, <3>3
  <2>5. CASE ~ClientThread(f)
    BY <2>2, <2>5, OtherClients DEF TypeInv
  <2>6. CASE ClientThread(f)
    <3>1. ~SeeData(f) /\ ~SeeReady(f)
      BY <2>3, <2>4 DEF SeeData, SeeReady, TypeInv, TypeOK
    <3>2. StartListening(f) \/ TakeMutex(f) \/ WaitForData(f)
      BY <2>2, <2>6, <3>1 DEF ClientThread, AcceptRequest, RejectRequest, Contains, AddCacheNode,
         InitServerThread, SendDataFromCache, Send, SendFails, StopListening, LeaveHandle,
         Connecting
    <3>3. QED
      BY <1>1, <3>2 DEF StartListening, TakeMutex, WaitForData, Goto, Connecting
  <2>7. QED
    BY <2>5, <2>6
<1>4. QED
  BY <1>2, <1>3

(* The references a fetcher keeps into its client are good when it uses    *)
(* them, but for a client whose connection broke or that a second fetcher  *)
(* let go.                                                                 *)
THEOREM BorrowedOutlive == Spec => []BorrowedAlive
<1>1. TypeInv /\ ReadyExplained /\ ReadyIsLast /\ HostAlive => BorrowedAlive
  <2> SUFFICES ASSUME TypeInv, ReadyExplained, ReadyIsLast, HostAlive, NEW f \in Clients,
                      ~Overtaken(f)
               PROVE  /\ fpc[f] = "initServerConnection" => pc[f] \in Connecting
                      /\ fpc[f] = "handleError" /\ pc[f] = "ready" => ~cacheNodeReady[f]
    BY DEF BorrowedAlive, Connecting
  <2>1. ASSUME fpc[f] = "handleError", cacheNodeReady[f]
        PROVE  FALSE
    <3>1. url[f] \in DOMAIN cache /\ NodeOf(f).nodeReady
      BY <2>1 DEF ReadyIsLast
    <3>2. PICK g \in Fetchers(url[f]) : fpc[g] \in Published
      BY <3>1 DEF ReadyExplained, NodeOf
    <3>3. g # f
      BY <2>1, <3>2 DEF Published
    <3>4. QED
      BY <3>2, <3>3 DEF Overtaken
  <2>2. QED
    BY <2>1 DEF HostAlive
<1>2. QED
  BY <1>1, TypeInvInit, TypeInvStep, FetchInvInit, FetchInvStep, ReadyInit, ReadyStep,
     ReadyIsLastInit, ReadyIsLastStep, HostAliveInit, HostAliveStep, PTL DEF Spec
-----------------------------------------------------------------------------
(***************************************************************************)
(* A client that saw its node ready had then been sent all its data, and   *)
(* is sent nothing more.  The sole fetcher that made the node ready adds   *)
(* nothing to it but the text of its error.                                *)
(***************************************************************************)

Whole(f) == {Body(f, fetched[f]), Append(Body(f, fetched[f]), ErrorText(f))}

AllSent ==
    \A c, f \in Clients :
        cacheNodeReady[c] /\ Fetchers(url[c]) = {f} => sent[c] \in Whole(f)

(* The client is done, or becomes so at the end of its node's data. *)
LEMMA CompleteStays ==
    ASSUME TypeInv, ReadyIsLast, [Next]_vars, NEW c \in Clients, cacheNodeReady[c]
    PROVE  sent'[c] = sent[c] /\ url'[c] = url[c] /\ cacheNodeReady'[c]
<1>1. pc[c] \in {"send", "removeListener", "sendFailed"} \cup Leaving
  BY DEF ReadyIsLast
<1>2. CASE ~ClientThread(c)
  BY <1>2, OtherClients DEF TypeInv
<1>3. CASE Send(c)
  BY <1>3, SendsNothing DEF Send
<1>4. CASE SendFails(c) \/ StopListening(c) \/ LeaveHandle(c)
  BY <1>4 DEF SendFails, StopListening, LeaveHandle
<1>5. QED
  BY <1>1, <1>2, <1>3, <1>4 DEF ClientThread, AcceptRequest, RejectRequest, Contains,
     AddCacheNode, InitServerThread, SendDataFromCache, StartListening, TakeMutex, SeeData,
     SeeReady, WaitForData, Leaving

LEMMA BecomesComplete ==
    ASSUME TypeInv, [Next]_vars, NEW c \in Clients, ~cacheNodeReady[c], cacheNodeReady'[c]
    PROVE  SeeReady(c)
<1>1. cacheNodeReady \in [Clients -> BOOLEAN]
  BY DEF TypeInv, TypeOK
<1>2. ~ClientThread(c) => cacheNodeReady'[c] = cacheNodeReady[c]
  BY OtherClients DEF TypeInv
<1>3. QED
  BY <1>1, <1>2 DEF ClientThread, AcceptRequest, RejectRequest, Contains, AddCacheNode,
     InitServerThread, SendDataFromCache, StartListening, TakeMutex, SeeData, WaitForData,
     Send, SendFails, StopListening, LeaveHandle

LEMMA HasAllThereIs ==
    ASSUME TypeInv, SentIsPrefix, NEW c \in Clients, SeeReady(c)
    PROVE  /\ url[c] \in DOMAIN cache
           /\ cache[url[c]].nodeReady
           /\ sent[c] = cache[url[c]].data
<1> DEFINE data == NodeOf(c).data
<1>1. url[c] \in DOMAIN cache /\ pc[c] \in Listening
  BY DEF SeeReady, TypeInv, HasNode, Attached, Listening
<1>2. data \in Seq(Items) /\ Len(data) \in Nat
  BY <1>1, NodeFields, NodeOfType DEF TypeInv
<1>3. offset[c] = Len(data) /\ NodeOf(c).nodeReady
  BY DEF SeeReady, TypeInv, TypeOK
<1>4. sent[c] = SubSeq(data, 1, Len(data))
  BY <1>1, <1>3 DEF SentIsPrefix
<1> HIDE DEF data
<1>5. SubSeq(data, 1, Len(data)) = data
  <2>1. \A i \in 1 .. Len(data) : data[i] \in Items
    BY <1>2
  <2>2. /\ SubSeq(data, 1, Len(data)) \in Seq(Items)
        /\ Len(SubSeq(data, 1, Len(data))) = Len(data)
        /\ \A i \in 1 .. Len(data) : SubSeq(data, 1, Len(data))[i] = data[i]
    BY <1>2, <2>1, SubSeqProperties
  <2>3. QED
    BY <1>2, <2>2, SeqEqual
<1>6. QED
  BY <1>1, <1>3, <1>4, <1>5 DEF data, NodeOf

LEMMA PublishedIsFetched ==
    ASSUME TypeInv, [Next]_vars, NEW f \in Clients, fpc[f] \in Published
    PROVE  fetched'[f] = fetched[f]
BY FetcherMoves, OtherFetchers DEF TypeInv

LEMMA AllSentInit == Init => AllSent
BY DEF Init, AllSent

LEMMA AllSentStep ==
    /\ TypeInv /\ SentIsPrefix /\ ReadyExplained /\ ReadyIsLast /\ SoleFetchIntact
    /\ AllSent
    /\ [Next]_vars
    => AllSent'
<1> SUFFICES ASSUME TypeInv, SentIsPrefix, ReadyExplained, ReadyIsLast, SoleFetchIntact,
                    AllSent, [Next]_vars,
                    NEW c \in Clients, NEW f \in Clients,
                    cacheNodeReady'[c], Fetchers(url[c])' = {f}
             PROVE  sent'[c] \in Whole(f)'
  BY DEF AllSent
<1> DEFINE u == url[c]
<1>1. CASE ~cacheNodeReady[c]
  <2>1. SeeReady(c)
    BY <1>1, BecomesComplete
  <2>2. UNCHANGED <<url, sent, fpc, fetched>>
    BY <2>1 DEF SeeReady, fetcherVars
  <2>3. Fetchers(u) = {f}
    BY <2>2 DEF Fetchers
  <2>4. u \in DOMAIN cache /\ sent[c] = cache[u].data
    BY <2>1, HasAllThereIs
  <2>5. cache[u].data \in Whole(f)
    BY <2>3, <2>4 DEF SoleFetchIntact, Whole
  <2>6. QED
    BY <2>2, <2>4, <2>5 DEF Whole
<1>2. CASE cacheNodeReady[c]
  <2>1. sent'[c] = sent[c] /\ url'[c] = url[c]
    BY <1>2, CompleteStays
  <2>2. u \in DOMAIN cache /\ cache[u].nodeReady
    BY <1>2 DEF ReadyIsLast, NodeOf
  <2>3. PICK g \in Fetchers(u) : fpc[g] \in Published
    BY <2>2 DEF ReadyExplained
  <2>4. \A h \in Fetchers(u) : h \in Fetchers(u)'
    BY <2>1, FetchersStay DEF Fetchers
  <2>5. Fetchers(u) = {f} /\ g = f
    BY <2>1, <2>3, <2>4
  <2>6. fetched'[f] = fetched[f]
    BY <2>3, <2>5, PublishedIsFetched
  <2>7. sent[c] \in Whole(f)
    BY <1>2, <2>5 DEF AllSent
  <2>8. QED
    BY <2>1, <2>6, <2>7 DEF Whole
<1>3. QED
  BY <1>1, <1>2

(* A client that takes its response for complete was sent everything its   *)
(* node's fetcher received, and that fetcher is through with the response. *)
THEOREM CompleteHasAll == Spec => []CompleteMeansAll
<1>1. ReadyExplained /\ ReadyIsLast /\ AllSent => CompleteMeansAll
  BY DEF ReadyExplained, ReadyIsLast, AllSent, CompleteMeansAll, Whole, NodeOf
<1>2. QED
  BY <1>1, TypeInvInit, TypeInvStep, PrefixInit, PrefixStep, FetchInvInit, FetchInvStep,
     SoleInit, SoleStep, ReadyInit, ReadyStep, ReadyIsLastInit, ReadyIsLastStep,
     AllSentInit, AllSentStep, PTL DEF Spec
-----------------------------------------------------------------------------
(***************************************************************************)
(* The refinement.  What the logs of SharedLog see of a step is decided by *)
(* the fetchers, what its readers see of it by the clients.                *)
(***************************************************************************)

logOfUrl == [u \in Urls |-> LogOf(u)]
closedUrl == [u \in Urls |-> IsClosed(u)]
stateOfClient == [c \in Clients |-> StateOf(c)]

Gone == {"sendFailed", "sendError", "closeSocket", "ready"}

StateTable ==
    \A c \in Clients :
        /\ cacheNodeReady[c] \/ pc[c] = "removeListener" => StateOf(c) = "complete"
        /\ ~cacheNodeReady[c] =>
              /\ pc[c] = "handleClientRequest" => StateOf(c) = "idle"
              /\ pc[c] \in Gone => StateOf(c) = "broken"
              /\ pc[c] \notin Gone \cup {"handleClientRequest", "removeListener"} =>
                     StateOf(c) = "reading"

LEMMA StatesAre == StateTable
BY DEF StateTable, StateOf, Gone

LEMMA StatesAreNext == StateTable'
BY StatesAre, PTL

(* A node that comes new to the cache is an empty log that is not closed,  *)
(* as it was before.                                                       *)
LEMMA SameLogs ==
    ASSUME TypeInv, [Next]_vars,
           \A u \in DOMAIN cache : /\ cache'[u].data = cache[u].data
                                   /\ cache'[u].nodeReady = cache[u].nodeReady
    PROVE  UNCHANGED <<logOfUrl, closedUrl>>
<1>1. ASSUME NEW u \in Urls
      PROVE  LogOf(u)' = LogOf(u) /\ (IsClosed(u)' <=> IsClosed(u))
  <2>1. CASE u \in DOMAIN cache
    BY <2>1, CacheStep DEF CacheGrows, LogOf, IsClosed
  <2>2. CASE u \notin DOMAIN cache /\ u \in DOMAIN cache'
    BY <2>2, NodesAreAdded, NewNodeFields DEF LogOf, IsClosed
  <2>3. CASE u \notin DOMAIN cache /\ u \notin DOMAIN cache'
    BY <2>3 DEF LogOf, IsClosed
  <2>4. QED
    BY <2>1, <2>2, <2>3
<1>2. \A u \in Urls : IsClosed(u)' \in BOOLEAN /\ IsClosed(u) \in BOOLEAN
  BY CacheStep, NodeFields DEF IsClosed, TypeInv, TypeOK, CacheGrows
<1>3. \A u \in Urls : IsClosed(u)' = IsClosed(u)
  BY <1>1, <1>2
<1>4. QED
  BY <1>1, <1>3 DEF logOfUrl, closedUrl

(* What a fetcher's step is to the logs. *)
LEMMA FetcherPublishes ==
    ASSUME TypeInv, [Next]_vars, NEW f \in Clients, FetcherThread(f)
    PROVE  \/ UNCHANGED <<logOfUrl, closedUrl>>
           \/ /\ url[f] \in Urls
              /\ \E m \in Items : logOfUrl' = [logOfUrl EXCEPT ![url[f]] = Append(@, m)]
              /\ UNCHANGED closedUrl
           \/ /\ url[f] \in Urls
              /\ closedUrl' = [closedUrl EXCEPT ![url[f]] = TRUE]
              /\ UNCHANGED logOfUrl
<1>0. /\ url[f] \in DOMAIN cache /\ DOMAIN cache \subseteq Urls
      /\ DOMAIN cache' = DOMAIN cache
      /\ \A u \in DOMAIN cache : cache[u] \in Node
      /\ fetched \in [Clients -> 0 .. MaxChunks]
  BY FetcherMoves, FetcherStep DEF Fetching, Published, TypeInv, TypeOK, HasNode
<1>1. ASSUME NEW n, NodeBecomes(f, n), n.data = NodeOf(f).data,
             n.nodeReady = NodeOf(f).nodeReady
      PROVE  UNCHANGED <<logOfUrl, closedUrl>>
  BY <1>1, SameLogs DEF NodeBecomes, NodeOf
<1>2. ASSUME NEW m \in Items, NodeBecomes(f, AddData(NodeOf(f), <<m>>))
      PROVE  /\ logOfUrl' = [logOfUrl EXCEPT ![url[f]] = Append(@, m)]
             /\ UNCHANGED closedUrl
  <2>1. /\ AddData(NodeOf(f), <<m>>).data = NodeOf(f).data \o <<m>>
        /\ AddData(NodeOf(f), <<m>>).nodeReady = NodeOf(f).nodeReady
    <3>1. NodeOf(f) \in Node /\ <<m>> \in Seq(Items)
      BY <1>2 DEF NodeBecomes
    <3>2. QED
      BY <3>1, AddDataFields
  <2>2. NodeOf(f).data \o <<m>> = Append(NodeOf(f).data, m)
    BY <1>0, NodeFields, AppendIsConcat DEF NodeOf
  <2>3. \A u \in Urls : LogOf(u)' = IF u = url[f] THEN Append(LogOf(u), m) ELSE LogOf(u)
    BY <1>0, <1>2, <2>1, <2>2 DEF NodeBecomes, LogOf, NodeOf
  <2>4. \A u \in Urls : IsClosed(u)' = IsClosed(u)
    BY <1>0, <1>2, <2>1 DEF NodeBecomes, IsClosed, NodeOf
  <2>5. QED
    BY <2>3, <2>4 DEF logOfUrl, closedUrl
<1>3. CASE ReceiveData(f)
  <2>1. Chunk(f, fetched[f] + 1) \in Items
    BY <1>0, <1>3, NodeAssumption DEF ReceiveData, Chunk, Items
  <2>2. QED
    BY <1>0, <1>2, <1>3, <2>1, FetcherCalls
<1>4. CASE AddErrorText(f)
  <2>1. ErrorText(f) \in Items
    BY NodeAssumption DEF ErrorText, Items
  <2>2. QED
    BY <1>0, <1>2, <1>4, <2>1, FetcherCalls
<1>5. CASE ReceiveEnd(f)
  <2>1. NodeBecomes(f, AddData(NodeOf(f), << >>))
    BY <1>5, FetcherCalls
  <2>2. NodeOf(f).data \in Seq(Items) /\ << >> \in Seq(Items)
    BY <2>1, NodeFields DEF NodeBecomes
  <2>3. /\ AddData(NodeOf(f), << >>).data = NodeOf(f).data
        /\ AddData(NodeOf(f), << >>).nodeReady = NodeOf(f).nodeReady
    BY <2>1, <2>2, AddDataFields, ConcatEmptySeq DEF NodeBecomes
  <2>4. QED
    BY <1>1, <2>1, <2>3
<1>6. CASE BroadcastData(f) \/ FinalBroadcast(f) \/ BroadcastError(f)
  <2>1. NodeBecomes(f, Broadcast(NodeOf(f)))
    BY <1>6, FetcherCalls
  <2>2. /\ Broadcast(NodeOf(f)).data = NodeOf(f).data
        /\ Broadcast(NodeOf(f)).nodeReady = NodeOf(f).nodeReady
    BY <2>1, BroadcastFields DEF NodeBecomes
  <2>3. QED
    BY <1>1, <2>1, <2>2
<1>7. CASE FinishNode(f) \/ FailNode(f)
  <2>1. NodeBecomes(f, SetReady(NodeOf(f)))
    BY <1>7, FetcherCalls
  <2>2. /\ SetReady(NodeOf(f)).data = NodeOf(f).data
        /\ SetReady(NodeOf(f)).nodeReady = TRUE
    BY <2>1, SetReadyFields DEF NodeBecomes
  <2>3. \A u \in Urls : LogOf(u)' = LogOf(u)
    BY <1>0, <2>1, <2>2 DEF NodeBecomes, LogOf, NodeOf
  <2>4. \A u \in Urls : IsClosed(u)' = IF u = url[f] THEN TRUE ELSE IsClosed(u)
    BY <1>0, <2>1, <2>2 DEF NodeBecomes, IsClosed, NodeOf
  <2>5. QED
    BY <1>0, <2>3, <2>4 DEF logOfUrl, closedUrl
<1>8. CASE ContactServer(f) \/ ReceiveFails(f) \/ LeaveFetcher(f)
  BY <1>8, SameLogs DEF ContactServer, ReceiveFails, LeaveFetcher
<1>9. QED
  BY <1>3, <1>4, <1>5, <1>6, <1>7, <1>8 DEF FetcherThread, Receive

(* A client's step is its own: it moves that client and nobody else, and   *)
(* the logs do not see it.                                                 *)
LEMMA ClientMoves ==
    ASSUME TypeInv, NEW c \in Clients, ClientThread(c)
    PROVE  /\ pc'[c] # pc[c]
           /\ \A d \in Clients : d # c => pc'[d] = pc[d]
<1>0. pc \in [Clients -> ClientPC]
  BY DEF TypeInv, TypeOK
<1> USE DEF Goto
<1>1. CASE \/ \E u \in Urls : AcceptRequest(c, u)
           \/ RejectRequest(c) \/ Contains(c) \/ AddCacheNode(c) \/ InitServerThread(c)
  BY <1>0, <1>1 DEF AcceptRequest, RejectRequest, Contains, AddCacheNode, InitServerThread
<1>2. CASE StartListening(c) \/ TakeMutex(c) \/ SeeData(c) \/ SeeReady(c) \/ WaitForData(c)
  BY <1>0, <1>2 DEF StartListening, TakeMutex, SeeData, SeeReady, WaitForData
<1>3. CASE Send(c) \/ SendFails(c) \/ StopListening(c) \/ LeaveHandle(c)
  BY <1>0, <1>3 DEF Send, SendFails, StopListening, LeaveHandle
<1>4. QED
  BY <1>1, <1>2, <1>3 DEF ClientThread, SendDataFromCache

LEMMA ClientAlone ==
    ASSUME TypeInv, [Next]_vars, NEW c \in Clients, ClientThread(c)
    PROVE  /\ UNCHANGED <<logOfUrl, closedUrl>>
           /\ url' = [url EXCEPT ![c] = url'[c]]
           /\ sent' = [sent EXCEPT ![c] = sent'[c]]
           /\ stateOfClient' = [stateOfClient EXCEPT ![c] = StateOf(c)']
<1>1. \A d \in Clients : d # c => ~ClientThread(d)
  BY ClientMoves
<1>2. ~(\E f \in Clients : FetcherThread(f))
  BY ClientMoves, FetcherStep DEF clientVars
<1>3. UNCHANGED <<logOfUrl, closedUrl>>
  BY <1>2, ClientKeepsData, SameLogs
<1>4. \A d \in Clients : d # c => /\ url'[d] = url[d] /\ sent'[d] = sent[d]
                                  /\ pc'[d] = pc[d] /\ cacheNodeReady'[d] = cacheNodeReady[d]
  BY <1>1, OtherClients DEF TypeInv
<1>5. \A d \in Clients : d # c => StateOf(d)' = StateOf(d)
  BY <1>4 DEF StateOf
<1>6. /\ url \in [Clients -> Urls \cup {NoUrl}] /\ url' \in [Clients -> Urls \cup {NoUrl}]
      /\ sent \in [Clients -> Seq(Items)] /\ sent' \in [Clients -> Seq(Items)]
  BY TypeInvStep DEF TypeInv, TypeOK
<1>7. QED
  BY <1>3, <1>4, <1>5, <1>6 DEF stateOfClient

(* What a client's step is to the reader that it is. *)
LEMMA ClientReads ==
    ASSUME TypeInv, SentIsPrefix, ReadyIsLast, [Next]_vars, NEW c \in Clients, ClientThread(c)
    PROVE  \/ url'[c] = url[c] /\ sent'[c] = sent[c] /\ StateOf(c)' = StateOf(c)
           \/ /\ StateOf(c) = "idle"
              /\ url'[c] \in Urls /\ sent'[c] = sent[c] /\ StateOf(c)' = "reading"
           \/ /\ StateOf(c) = "reading"
              /\ \E n \in Len(sent[c]) + 1 .. Len(LogOf(url[c])) :
                    sent'[c] = SubSeq(LogOf(url[c]), 1, n)
              /\ url[c] \in Urls /\ url'[c] = url[c] /\ StateOf(c)' = "reading"
           \/ /\ StateOf(c) = "reading"
              /\ IsClosed(url[c])
              /\ sent[c] = LogOf(url[c])
              /\ url[c] \in Urls /\ url'[c] = url[c] /\ sent'[c] = sent[c]
              /\ StateOf(c)' = "complete"
           \/ /\ StateOf(c) \in {"idle", "reading"}
              /\ url'[c] = url[c] /\ sent'[c] = sent[c] /\ StateOf(c)' = "broken"
<1>0. /\ pc \in [Clients -> ClientPC] /\ url \in [Clients -> Urls \cup {NoUrl}]
      /\ cacheNodeReady \in [Clients -> BOOLEAN] /\ DOMAIN cache \subseteq Urls
  BY DEF TypeInv, TypeOK
<1>1. /\ pc[c] = "removeListener" => cacheNodeReady[c]
      /\ cacheNodeReady[c] => pc[c] \in {"send", "removeListener", "sendFailed"} \cup Leaving
  BY DEF ReadyIsLast
<1>2. CASE \E u \in Urls : AcceptRequest(c, u)
  <2>1. /\ StateOf(c) = "idle" /\ ~cacheNodeReady'[c]
        /\ url'[c] \in Urls /\ sent'[c] = sent[c] /\ pc'[c] = "contains"
    BY <1>0, <1>1, <1>2, StatesAre DEF AcceptRequest, Goto, StateTable, Leaving
  <2>2. StateOf(c)' = "reading"
    BY <2>1, StatesAreNext DEF StateTable, Gone
  <2>3. QED
    BY <2>1, <2>2
<1>3. CASE RejectRequest(c)
  <2>1. /\ StateOf(c) = "idle" /\ ~cacheNodeReady'[c]
        /\ url'[c] = url[c] /\ sent'[c] = sent[c] /\ pc'[c] \in Gone
    BY <1>0, <1>1, <1>3, StatesAre DEF RejectRequest, Goto, StateTable, Leaving, Gone
  <2>2. StateOf(c)' = "broken"
    BY <2>1, StatesAreNext DEF StateTable
  <2>3. QED
    BY <2>1, <2>2
<1>4. CASE \/ Contains(c) \/ AddCacheNode(c) \/ InitServerThread(c) \/ StartListening(c)
           \/ TakeMutex(c) \/ SeeData(c) \/ WaitForData(c)
  <2>1. /\ url'[c] = url[c] /\ sent'[c] = sent[c] /\ cacheNodeReady'[c] = cacheNodeReady[c]
        /\ pc[c] \notin {"handleClientRequest", "send", "removeListener"} \cup Gone
        /\ pc'[c] \notin {"handleClientRequest", "removeListener"} \cup Gone
    BY <1>0, <1>4 DEF Contains, AddCacheNode, InitServerThread, StartListening, TakeMutex,
                      SeeData, WaitForData, Goto, Gone
  <2>2. ~cacheNodeReady[c] /\ ~cacheNodeReady'[c]
    BY <1>1, <2>1 DEF Gone, Leaving
  <2>3. StateOf(c) = "reading" /\ StateOf(c)' = "reading"
    BY <2>1, <2>2, StatesAre, StatesAreNext DEF StateTable
  <2>4. QED
    BY <2>1, <2>3
<1>5. CASE SeeReady(c)
  <2>1. /\ url'[c] = url[c] /\ sent'[c] = sent[c] /\ cacheNodeReady'[c] /\ pc[c] = "check"
    BY <1>0, <1>5 DEF SeeReady
  <2>2. StateOf(c) = "reading"
    BY <1>1, <2>1, StatesAre DEF StateTable, Gone, Leaving
  <2>3. StateOf(c)' = "complete"
    BY <2>1, StatesAreNext DEF StateTable
  <2>4. url[c] \in Urls /\ IsClosed(url[c]) /\ sent[c] = LogOf(url[c])
    BY <1>0, <1>5, HasAllThereIs DEF IsClosed, LogOf
  <2>5. QED
    BY <2>1, <2>2, <2>3, <2>4
<1>6. CASE Send(c) /\ cacheNodeReady[c]
  <2>1. StateOf(c) = "complete" /\ StateOf(c)' = "complete"
    BY <1>6, CompleteStays, StatesAre, StatesAreNext DEF StateTable
  <2>2. QED
    BY <1>6, <2>1, CompleteStays
<1>7. CASE Send(c) /\ ~cacheNodeReady[c]
  <2>1. /\ pc[c] = "send" /\ pc'[c] = "lock" /\ ~cacheNodeReady'[c]
        /\ url'[c] = url[c] /\ UNCHANGED cache
    BY <1>0, <1>7 DEF Send, Goto, StreamDone
  <2>2. StateOf(c) = "reading" /\ StateOf(c)' = "reading"
    BY <1>7, <2>1, StatesAre, StatesAreNext DEF StateTable, Gone
  <2>3. url[c] \in DOMAIN cache /\ LogOf(url[c]) = NodeOf(c).data
    BY <2>1 DEF TypeInv, HasNode, Attached, Listening, LogOf, NodeOf
  <2>4. LogOf(url[c]) \in Seq(Items) /\ Len(LogOf(url[c])) \in Nat
    BY <2>3, NodeFields, NodeOfType DEF TypeInv
  <2>5. offset[c] <= Len(LogOf(url[c])) /\ sent[c] = SubSeq(LogOf(url[c]), 1, offset[c])
    BY <2>1, <2>3 DEF SentIsPrefix, Listening
  <2>6. offset'[c] <= Len(LogOf(url[c])) /\ sent'[c] = SubSeq(LogOf(url[c]), 1, offset'[c])
    <3>1. SentIsPrefix'
      BY PrefixStep
    <3>2. QED
      BY <2>1, <2>3, <3>1 DEF SentIsPrefix, Listening, NodeOf
  <2>7. offset[c] \in Nat /\ offset'[c] \in Nat /\ offset[c] <= offset'[c]
    BY <1>7 DEF Send, SendCounts, TypeInv, TypeOK, WithinData
  <2>8. Len(sent[c]) = offset[c]
    <3>1. \A i \in 1 .. offset[c] : LogOf(url[c])[i] \in Items
      BY <2>4, <2>5, <2>7
    <3>2. QED
      BY <2>5, <2>7, <3>1, SubSeqProperties
  <2>9. CASE offset'[c] = offset[c]
    BY <2>1, <2>2, <2>5, <2>6, <2>9
  <2>10. CASE offset'[c] # offset[c]
    <3>1. offset'[c] \in Len(sent[c]) + 1 .. Len(LogOf(url[c]))
      BY <2>4, <2>6, <2>7, <2>8, <2>10
    <3>2. QED
      BY <1>0, <2>1, <2>2, <2>3, <2>6, <3>1
  <2>11. QED
    BY <2>9, <2>10
<1>8. CASE SendFails(c) \/ StopListening(c) \/ LeaveHandle(c)
  <2>1. /\ url'[c] = url[c] /\ sent'[c] = sent[c] /\ cacheNodeReady'[c] = cacheNodeReady[c]
        /\ pc[c] \in {"send", "removeListener"} \cup Gone
        /\ pc'[c] \in Gone
    BY <1>0, <1>8 DEF SendFails, StopListening, LeaveHandle, Goto, Gone
  <2>2. CASE cacheNodeReady[c]
    BY <2>1, <2>2, StatesAre, StatesAreNext DEF StateTable
  <2>3. CASE ~cacheNodeReady[c]
    <3>1. StateOf(c) \in {"reading", "broken"} /\ StateOf(c)' = "broken"
      BY <1>1, <2>1, <2>3, StatesAre, StatesAreNext DEF StateTable, Gone
    <3>2. QED
      BY <2>1, <3>1
  <2>4. QED
    BY <2>2, <2>3
<1>9. QED
  BY <1>2, <1>3, <1>4, <1>5, <1>6, <1>7, <1>8 DEF ClientThread, SendDataFromCache

LEMMA RefineInit == Init => SL!Init
BY DEF Init, SL!Init, LogOf, IsClosed, StateOf

LEMMA RefineStep ==
    TypeInv /\ SentIsPrefix /\ ReadyIsLast /\ [Next]_vars
        => [SL!Next]_<<SL!logVars, SL!readerVars>>
<1> SUFFICES ASSUME TypeInv, SentIsPrefix, ReadyIsLast, [Next]_vars
             PROVE  SL!Next \/ UNCHANGED <<logOfUrl, closedUrl, url, sent, stateOfClient>>
  BY DEF SL!logVars, SL!readerVars, logOfUrl, closedUrl, stateOfClient
<1>1. ASSUME NEW f \in Clients, FetcherThread(f)
      PROVE  SL!Next \/ UNCHANGED <<logOfUrl, closedUrl, url, sent, stateOfClient>>
  <2>1. UNCHANGED <<url, sent, stateOfClient>>
    BY <1>1, FetcherStep DEF clientVars, stateOfClient, StateOf
  <2>2. ASSUME NEW u \in Urls, NEW m \in Items, UNCHANGED closedUrl,
               logOfUrl' = [logOfUrl EXCEPT ![u] = Append(@, m)]
        PROVE  SL!Publish(u, m)
    BY <2>1, <2>2 DEF SL!Publish, SL!readerVars, logOfUrl, closedUrl, stateOfClient
  <2>3. ASSUME NEW u \in Urls, UNCHANGED logOfUrl,
               closedUrl' = [closedUrl EXCEPT ![u] = TRUE]
        PROVE  SL!Close(u)
    BY <2>1, <2>3 DEF SL!Close, SL!readerVars, logOfUrl, closedUrl, stateOfClient
  <2>4. QED
    BY <1>1, <2>1, <2>2, <2>3, FetcherPublishes DEF SL!Next
<1>2. ASSUME NEW c \in Clients, ClientThread(c)
      PROVE  SL!Next \/ UNCHANGED <<logOfUrl, closedUrl, url, sent, stateOfClient>>
  <2>1. /\ UNCHANGED <<logOfUrl, closedUrl>>
        /\ url' = [url EXCEPT ![c] = url'[c]]
        /\ sent' = [sent EXCEPT ![c] = sent'[c]]
        /\ stateOfClient' = [stateOfClient EXCEPT ![c] = StateOf(c)']
    BY <1>2, ClientAlone
  <2>2. /\ url \in [Clients -> Urls \cup {NoUrl}] /\ sent \in [Clients -> Seq(Items)]
        /\ stateOfClient[c] = StateOf(c) /\ DOMAIN stateOfClient = Clients
        /\ \A u \in Urls : logOfUrl[u] = LogOf(u) /\ closedUrl[u] = IsClosed(u)
    BY DEF TypeInv, TypeOK, stateOfClient, logOfUrl, closedUrl
  <2>3. url'[c] = url[c] => UNCHANGED url
    BY <2>1, <2>2
  <2>4. sent'[c] = sent[c] => UNCHANGED sent
    BY <2>1, <2>2
  <2>5. StateOf(c)' = StateOf(c) => UNCHANGED stateOfClient
    BY <2>1, <2>2 DEF stateOfClient
  <2>6. CASE url'[c] = url[c] /\ sent'[c] = sent[c] /\ StateOf(c)' = StateOf(c)
    BY <2>1, <2>3, <2>4, <2>5, <2>6
  <2>7. ASSUME StateOf(c) = "idle", url'[c] \in Urls, sent'[c] = sent[c],
               StateOf(c)' = "reading"
        PROVE  SL!Subscribe(c, url'[c])
    BY <2>1, <2>2, <2>4, <2>7
       DEF SL!Subscribe, SL!logVars, logOfUrl, closedUrl, stateOfClient
  <2>8. ASSUME StateOf(c) = "reading", url'[c] = url[c], StateOf(c)' = "reading", url[c] \in Urls,
               \E n \in Len(sent[c]) + 1 .. Len(LogOf(url[c])) :
                  sent'[c] = SubSeq(LogOf(url[c]), 1, n)
        PROVE  SL!Deliver(c)
    BY <2>1, <2>2, <2>3, <2>5, <2>8
       DEF SL!Deliver, SL!logVars, logOfUrl, closedUrl, stateOfClient
  <2>9. ASSUME StateOf(c) = "reading", IsClosed(url[c]), sent[c] = LogOf(url[c]), url[c] \in Urls,
               url'[c] = url[c], sent'[c] = sent[c], StateOf(c)' = "complete"
        PROVE  SL!Complete(c)
    BY <2>1, <2>2, <2>3, <2>4, <2>9
       DEF SL!Complete, SL!logVars, logOfUrl, closedUrl, stateOfClient
  <2>10. ASSUME StateOf(c) \in {"idle", "reading"}, url'[c] = url[c], sent'[c] = sent[c],
                StateOf(c)' = "broken"
         PROVE  SL!Break(c)
    BY <2>1, <2>2, <2>3, <2>4, <2>10
       DEF SL!Break, SL!logVars, logOfUrl, closedUrl, stateOfClient
  <2>11. QED
    BY <1>2, <2>6, <2>7, <2>8, <2>9, <2>10, ClientReads DEF SL!Next
<1>3. ASSUME NEW c \in Clients, SpuriousWakeup(c)
      PROVE  UNCHANGED <<logOfUrl, closedUrl, url, sent, stateOfClient>>
  <2>1. UNCHANGED clientVars
    BY <1>3 DEF SpuriousWakeup
  <2>2. NodeBecomes(c, WakeSpuriously(NodeOf(c), c))
    BY <1>3, ClientCalls
  <2>3. \A u \in DOMAIN cache : /\ cache'[u].data = cache[u].data
                                /\ cache'[u].nodeReady = cache[u].nodeReady
    BY <2>2, WakeSpuriouslyFields DEF NodeBecomes, NodeOf
  <2>4. QED
    BY <2>1, <2>3, SameLogs DEF clientVars, stateOfClient, StateOf
<1>4. CASE UNCHANGED vars
  BY <1>4 DEF vars, clientVars, logOfUrl, closedUrl, stateOfClient, LogOf, IsClosed, StateOf
<1>5. QED
  BY <1>1, <1>2, <1>3, <1>4 DEF Next, AllDone

(* Through all locks, wakeups, partial sends and concurrent fetchers, the  *)
(* cache is a log per URL that its clients read in order and take for      *)
(* complete only at its end.                                               *)
THEOREM CacheIsSharedLog == Spec => ImplementsSharedLog
BY TypeInvInit, TypeInvStep, PrefixInit, PrefixStep, ReadyIsLastInit, ReadyIsLastStep,
   RefineInit, RefineStep, PTL DEF Spec, ImplementsSharedLog, SL!Spec
-----------------------------------------------------------------------------
(* What still holds when the threads do not get to their ends: when they   *)
(* are cancelled (Cancellation), and when the memory runs out              *)
(* (StorageFailures).  Both reuse the invariants of CacheStream, whose     *)
(* steps are all steps of theirs but for a few.                            *)

(* Of the nodes neither data nor readiness change, of the threads only     *)
(* where they are.                                                         *)
OnlyLocked ==
    /\ DOMAIN cache' = DOMAIN cache
    /\ cache' \in [DOMAIN cache -> Node]
    /\ \A u \in DOMAIN cache : /\ cache'[u].data = cache[u].data
                               /\ cache'[u].nodeReady = cache[u].nodeReady
    /\ UNCHANGED <<url, offset, size, cacheNodeReady, sent, fetched>>

LEMMA NothingLocked ==
    ASSUME TypeInv, UNCHANGED <<cache, url, offset, size, cacheNodeReady, sent, fetched>>
    PROVE  OnlyLocked
BY DEF TypeInv, TypeOK, OnlyLocked

(* A client that skips what is ahead of it stays within its types.         *)
LEMMA ClientBreaksOff ==
    ASSUME TypeInv, OnlyLocked, UNCHANGED fpc,
           NEW c \in Clients, NEW next \in {"check", "closeSocket"}, Goto(c, next),
           next = "check" => pc[c] = "condWait",
           next = "closeSocket" => pc[c] \in {"addCacheNode", "send", "removeListener",
                                              "sendFailed", "sendError"}
    PROVE  TypeInv'
<1> USE DEF TypeInv, TypeOK, OnlyLocked, Goto
<1>1. TypeOK'
  BY DEF ClientPC, Attached, Listening
<1>2. HasNode'
  BY DEF HasNode, Attached, Listening
<1>3. InOrder'
  BY DEF InOrder, NotYetFetching, Listening, Leaving
<1>4. WithinData'
  <2>1. \A d \in Clients : pc[d] \in Listening => url[d] \in DOMAIN cache
    BY DEF HasNode, Attached
  <2>2. \A d \in Clients : /\ pc'[d] \in Listening => pc[d] \in Listening
                           /\ pc'[d] = "send" => pc[d] = "send"
    BY DEF Listening
  <2>3. \A d \in Clients : pc[d] = "send" => pc[d] \in Listening
    BY DEF Listening
  <2> QED BY <2>1, <2>2, <2>3 DEF WithinData, NodeOf
<1> QED BY <1>1, <1>2, <1>3, <1>4
-----------------------------------------------------------------------------
(* Cancelled threads.                                                      *)

(* Unwinding from pthread_cond_wait: the mutex is taken, and kept. *)
LEMMA EndsLocked ==
    ASSUME TypeInv, NEW c \in Clients, EndInWait(c)
    PROVE  OnlyLocked /\ UNCHANGED fpc /\ Goto(c, "check") /\ pc[c] = "condWait"
<1>1. /\ pc[c] = "condWait" /\ Goto(c, "check")
      /\ cache' = [cache EXCEPT ![url[c]] = LeaveWait(NodeOf(c), c)]
      /\ UNCHANGED <<url, offset, size, cacheNodeReady, sent, fpc, fetched>>
  BY DEF EndInWait, CallOnNode, fetcherVars
<1>2. url[c] \in DOMAIN cache /\ NodeOf(c) \in Node
  BY <1>1, NodeOfType DEF TypeInv, HasNode, Attached, Listening
<1> DEFINE n == WakeSpuriously(NodeOf(c), c)
           m == Lock(n, c)
<1>3. n \in Node /\ n.data = NodeOf(c).data /\ n.nodeReady = NodeOf(c).nodeReady
  BY <1>2, WakeSpuriouslyFields
<1> HIDE DEF n
<1>4. m \in Node /\ m.data = n.data /\ m.nodeReady = n.nodeReady
  BY <1>3, LockFields
<1> HIDE DEF m
<1>5. cache' = [cache EXCEPT ![url[c]] = m]
  BY <1>1 DEF LeaveWait, m, n
<1>6. NodeBecomes(c, m)
  BY <1>2, <1>4, <1>5, NodeStep DEF TypeInv
<1> QED BY <1>1, <1>3, <1>4, <1>6 DEF NodeBecomes, NodeOf, OnlyLocked

(* Unwinding from removeListener: it has done its work, and keeps the mutex. *)
LEMMA EndsRemoved ==
    ASSUME TypeInv, NEW c \in Clients, EndInRemoveListener(c)
    PROVE  /\ OnlyLocked /\ UNCHANGED fpc /\ Goto(c, "closeSocket")
           /\ pc[c] \in {"removeListener", "sendFailed"}
<1>1. /\ pc[c] \in {"removeListener", "sendFailed"} /\ Goto(c, "closeSocket")
      /\ cache' = [cache EXCEPT ![url[c]] = Lock(RemoveListener(NodeOf(c)), c)]
      /\ UNCHANGED <<url, offset, size, cacheNodeReady, sent, fpc, fetched>>
  BY DEF EndInRemoveListener, DestroysCondVar, CallOnNode, fetcherVars
<1>2. url[c] \in DOMAIN cache /\ NodeOf(c) \in Node
  BY <1>1, NodeOfType DEF TypeInv, HasNode, Attached, Listening
<1> DEFINE n == RemoveListener(NodeOf(c))
           m == Lock(n, c)
<1>3. n \in Node /\ n.data = NodeOf(c).data /\ n.nodeReady = NodeOf(c).nodeReady
  BY <1>2, RemoveListenerFields
<1> HIDE DEF n
<1>4. m \in Node /\ m.data = n.data /\ m.nodeReady = n.nodeReady
  BY <1>3, LockFields
<1> HIDE DEF m
<1>5. cache' = [cache EXCEPT ![url[c]] = m]
  BY <1>1 DEF m, n
<1>6. NodeBecomes(c, m)
  BY <1>2, <1>4, <1>5, NodeStep DEF TypeInv
<1> QED BY <1>1, <1>3, <1>4, <1>6 DEF NodeBecomes, NodeOf, OnlyLocked

CutInv == TypeInv /\ ReadyExplained /\ ReadyIsLast

LEMMA CutInvInit == CancelInit => CutInv
BY TypeInvInit, ReadyInit, ReadyIsLastInit DEF CancelInit, CutInv

LEMMA CutInvStep == CutInv /\ [CancelNext]_allVars => CutInv'
<1> SUFFICES ASSUME CutInv, [CancelNext]_allVars PROVE CutInv'
  OBVIOUS
<1>1. CASE [Next]_vars
  BY <1>1, TypeInvStep, ReadyStep, ReadyIsLastStep DEF CutInv
<1>2. ASSUME NEW c \in Clients, EndInWait(c) \/ EndInRemoveListener(c) PROVE CutInv'
  <2>1. PICK next \in {"check", "closeSocket"} :
            /\ TypeInv /\ OnlyLocked /\ UNCHANGED fpc /\ Goto(c, next)
            /\ next = "check" => pc[c] = "condWait"
            /\ next = "closeSocket" => pc[c] \in {"removeListener", "sendFailed"}
    BY <1>2, EndsLocked, EndsRemoved DEF CutInv
  <2>2. TypeInv'
    BY <2>1, ClientBreaksOff
  <2>3. ReadyExplained'
    BY <2>1 DEF CutInv, ReadyExplained, Fetchers, OnlyLocked
  <2>4. ReadyIsLast'
    BY <2>1 DEF CutInv, ReadyIsLast, Goto, Leaving, OnlyLocked, NodeOf, TypeInv, TypeOK,
       HasNode, Attached, Listening
  <2> QED BY <2>2, <2>3, <2>4 DEF CutInv
<1>3. ASSUME NEW c \in Clients, ClientLife(c), ~EndInWait(c), ~EndInRemoveListener(c)
      PROVE  [Next]_vars
  BY <1>3 DEF ClientLife, ClientGoesOn, EndClient, Next
<1>4. ASSUME NEW f \in Clients, FetcherLife(f) PROVE [Next]_vars
  BY <1>4 DEF FetcherLife, FetcherGoesOn, EndFetcher, Next
<1>5. ASSUME NEW t \in Threads, Cancel(t) PROVE [Next]_vars
  BY <1>5 DEF Cancel
<1>6. ASSUME NEW c \in Clients, SpuriousWakeup(c) PROVE [Next]_vars
  BY <1>6 DEF Next
<1>7. CASE NoneLeft \/ UNCHANGED allVars
  BY <1>1, <1>7 DEF NoneLeft, allVars
<1> QED BY <1>1, <1>2, <1>3, <1>4, <1>5, <1>6, <1>7 DEF CancelNext

(* A fetcher that is cancelled before it has called setReady leaves a node *)
(* that is not ready, and no client takes what is in it for the whole.     *)
THEOREM CutShortSeen == CancelSpec => []CutShortNotComplete
<1>1. CutInv => CutShortNotComplete
  <2> SUFFICES ASSUME CutInv, NEW f \in Clients, fpc[f] \in Fetching, Fetchers(url[f]) = {f}
               PROVE  /\ ~cache[url[f]].nodeReady
                      /\ \A c \in Clients : url[c] = url[f] => ~cacheNodeReady[c]
    BY DEF CutShortNotComplete
  <2>1. url[f] \in DOMAIN cache
    BY DEF CutInv, TypeInv, HasNode, Fetching
  <2>2. ~cache[url[f]].nodeReady
    BY <2>1 DEF CutInv, ReadyExplained, Fetching, Published
  <2> QED BY <2>2 DEF CutInv, ReadyIsLast, NodeOf
<1> QED BY <1>1, CutInvInit, CutInvStep, PTL DEF CancelSpec
-----------------------------------------------------------------------------
(* No memory.                                                              *)

StorageInv == TypeInv /\ UnreadyExplained

(* In charge of the node of u, or out of it without a word.                *)
AccountsFor(u, f) == InCharge(u, f) \/ (url[f] = u /\ f \in silent)

LEMMA StorageInvInit == StorageInit => StorageInv
BY TypeInvInit DEF StorageInit, StorageInv, UnreadyExplained, Init

(* A method of a node that throws leaves it locked. *)
LEMMA ThrowsLocked ==
    ASSUME TypeInv, NEW t \in Clients, url[t] \in DOMAIN cache, ThrowLocked(t),
           UNCHANGED <<url, offset, size, cacheNodeReady, sent, fetched>>
    PROVE  OnlyLocked /\ leftLocked' = leftLocked \cup {url[t]}
<1>1. NodeOf(t) \in Node
  BY NodeOfType DEF TypeInv
<1> DEFINE m == Lock(NodeOf(t), t)
<1>2. m \in Node /\ m.data = NodeOf(t).data /\ m.nodeReady = NodeOf(t).nodeReady
  BY <1>1, LockFields
<1>3. cache' = [cache EXCEPT ![url[t]] = m] /\ leftLocked' = leftLocked \cup {url[t]}
  BY DEF ThrowLocked, CallOnNode
<1> HIDE DEF m
<1>4. NodeBecomes(t, m)
  BY <1>2, <1>3, NodeStep DEF TypeInv
<1> QED BY <1>2, <1>3, <1>4 DEF NodeBecomes, NodeOf, OnlyLocked

(* Only its node loses the one who was in charge of it. *)
LEMMA OthersInCharge ==
    ASSUME UnreadyExplained, OnlyLocked, leftLocked \subseteq leftLocked',
           \A u \in DOMAIN cache, f \in Clients :
              AccountsFor(u, f) => AccountsFor(u, f)' \/ u \in leftLocked'
    PROVE  UnreadyExplained'
BY DEF UnreadyExplained, AccountsFor, InCharge, OnlyLocked

(* A client that breaks off: locked out of its node or not, its fetcher    *)
(* unstarted, started or none.                                             *)
LEMMA ClientThrows ==
    ASSUME StorageInv, NEW c \in Clients,
           \/ AddCacheNodeThrows(c) \/ MakeHandlerThrows(c) \/ RegisterThrows(c)
           \/ GetDataThrows(c) \/ ErrorThrows(c)
    PROVE  StorageInv'
<1> USE DEF StorageInv
<1>0. pc \in [Clients -> ClientPC] /\ fpc \in [Clients -> FetcherPC]
  BY DEF TypeInv, TypeOK
<1>1. CASE AddCacheNodeThrows(c) \/ GetDataThrows(c) \/ ErrorThrows(c)
  <2>1. /\ pc[c] \in {"addCacheNode", "send", "sendError"} /\ Goto(c, "closeSocket")
        /\ UNCHANGED <<url, offset, size, cacheNodeReady, sent, fpc, fetched, silent>>
    BY <1>1 DEF AddCacheNodeThrows, GetDataThrows, ErrorThrows, ThrowLocked, fetcherVars,
                failureVars
  <2>2. OnlyLocked /\ leftLocked \subseteq leftLocked'
    <3>1. CASE AddCacheNodeThrows(c) \/ ErrorThrows(c)
      BY <2>1, <3>1, NothingLocked DEF AddCacheNodeThrows, ErrorThrows, failureVars
    <3>2. CASE GetDataThrows(c)
      <4>1. url[c] \in DOMAIN cache
        BY <3>2 DEF GetDataThrows, TypeInv, HasNode, Attached, Listening
      <4> QED BY <2>1, <3>2, <4>1, ThrowsLocked DEF GetDataThrows
    <3> QED BY <1>1, <3>1, <3>2
  <2>3. \A u \in DOMAIN cache, f \in Clients : AccountsFor(u, f) => AccountsFor(u, f)'
    BY <1>0, <2>1 DEF AccountsFor, InCharge, Goto
  <2> QED BY <2>1, <2>2, <2>3, ClientBreaksOff, OthersInCharge
<1>2. CASE MakeHandlerThrows(c) \/ RegisterThrows(c)
  <2>1. PICK next \in {"initServerConnection", "createFailed"} :
            /\ pc[c] = "initServerThread" /\ pc' = [pc EXCEPT ![c] = "closeSocket"]
            /\ fpc' = [fpc EXCEPT ![c] = next]
            /\ UNCHANGED <<cache, url, offset, size, cacheNodeReady, sent, fetched,
                           leftLocked, silent>>
    BY <1>2 DEF MakeHandlerThrows, RegisterThrows, Goto, failureVars
  <2>2. OnlyLocked
    BY <2>1, NothingLocked
  <2>3. TypeInv'
    <3> USE DEF TypeInv, TypeOK
    <3>1. TypeOK'
      BY <2>1 DEF ClientPC, FetcherPC, Fetching
    <3>2. HasNode'
      BY <2>1 DEF HasNode, Attached, Listening
    <3>3. InOrder'
      BY <2>1 DEF InOrder, NotYetFetching, Listening, Leaving
    <3>4. WithinData'
      BY <2>1 DEF WithinData, Listening, NodeOf
    <3> QED BY <3>1, <3>2, <3>3, <3>4
  <2>4. ASSUME NEW u \in DOMAIN cache, NEW f \in Clients, AccountsFor(u, f)
        PROVE  AccountsFor(u, f)'
    <3>1. CASE f = c
      <4>1. fpc'[c] \in Fetching \cup {"createFailed"}
        BY <1>0, <2>1 DEF Fetching
      <4> QED BY <2>1, <2>4, <3>1, <4>1 DEF AccountsFor, InCharge
    <3>2. CASE f # c
      BY <1>0, <2>1, <2>4, <3>2 DEF AccountsFor, InCharge
    <3> QED BY <3>1, <3>2
  <2> QED BY <2>1, <2>2, <2>3, <2>4, OthersInCharge
<1> QED BY <1>1, <1>2

(* A fetcher that leaves by an exception, with its node locked or silently. *)
LEMMA FetcherThrows ==
    ASSUME StorageInv, NEW f \in Clients,
           AddDataThrows(f) \/ LeaveSilently(f), fpc[f] \in Fetching
    PROVE  StorageInv'
<1> USE DEF StorageInv
<1>0. pc \in [Clients -> ClientPC] /\ fpc \in [Clients -> FetcherPC]
  BY DEF TypeInv, TypeOK
<1>1. /\ fpc' = [fpc EXCEPT ![f] = "handlerReady"]
      /\ UNCHANGED <<pc, url, offset, size, cacheNodeReady, sent, fetched>>
  BY DEF AddDataThrows, LeaveSilently, FetcherGoto, clientVars
<1>2. /\ OnlyLocked
      /\ silent \subseteq silent' /\ leftLocked \subseteq leftLocked'
      /\ url[f] \in leftLocked' \/ f \in silent'
  <2>1. CASE AddDataThrows(f)
    <3>1. url[f] \in DOMAIN cache
      BY DEF TypeInv, HasNode, Fetching
    <3>2. ThrowLocked(f)
      BY <2>1 DEF AddDataThrows
    <3> QED BY <1>1, <3>1, <3>2, ThrowsLocked DEF ThrowLocked
  <2>2. CASE LeaveSilently(f)
    BY <1>1, <2>2, NothingLocked DEF LeaveSilently
  <2> QED BY <2>1, <2>2
<1>3. TypeInv'
  <2> USE DEF TypeInv, TypeOK, OnlyLocked
  <2>1. TypeOK'
    BY <1>1, <1>2 DEF FetcherPC, Published
  <2>2. HasNode'
    BY <1>0, <1>1, <1>2 DEF HasNode, Fetching
  <2>3. InOrder'
    BY <1>1, <1>2 DEF InOrder, NotYetFetching, Fetching
  <2>4. WithinData'
    <3>1. \A d \in Clients : pc[d] \in Listening => url[d] \in DOMAIN cache
      BY DEF HasNode, Attached
    <3>2. \A d \in Clients : pc[d] = "send" => pc[d] \in Listening
      BY DEF Listening
    <3> QED BY <1>1, <1>2, <3>1, <3>2 DEF WithinData, NodeOf
  <2> QED BY <2>1, <2>2, <2>3, <2>4
<1>4. ASSUME NEW u \in DOMAIN cache, NEW g \in Clients, AccountsFor(u, g)
      PROVE  AccountsFor(u, g)' \/ u \in leftLocked'
  <2>1. CASE g = f
    BY <1>1, <1>2, <1>4, <2>1 DEF AccountsFor, InCharge
  <2>2. CASE g # f
    BY <1>0, <1>1, <1>2, <1>4, <2>2 DEF AccountsFor, InCharge
  <2> QED BY <2>1, <2>2
<1> QED BY <1>2, <1>3, <1>4, OthersInCharge

LEMMA Aborts == ASSUME StorageInv, Abort PROVE StorageInv'
<1>1. UNCHANGED vars /\ UNCHANGED <<leftLocked, silent>>
  BY DEF Abort
<1> QED BY <1>1, TypeInvStep DEF StorageInv, UnreadyExplained, vars, clientVars, fetcherVars

LEMMA ThrowsStep ==
    ASSUME StorageInv, Throws
    PROVE  StorageInv'
<1>1. ASSUME NEW c \in Clients,
             \/ AddCacheNodeThrows(c) \/ MakeHandlerThrows(c) \/ RegisterThrows(c)
             \/ GetDataThrows(c) \/ ErrorThrows(c)
      PROVE  StorageInv'
  BY <1>1, ClientThrows
<1>2. ASSUME NEW f \in Clients, AddDataThrows(f) \/ FetchErrorThrows(f) PROVE StorageInv'
  BY <1>2, FetcherThrows DEF AddDataThrows, FetchErrorThrows, Fetching
<1>3. ASSUME NEW f \in Clients, HandleErrorThrows(f) \/ ReadsFreed(f) PROVE StorageInv'
  <2>1. CASE Abort
    BY <2>1, Aborts
  <2>2. CASE ~Abort
    BY <1>3, <2>2, FetcherThrows DEF HandleErrorThrows, ReadsFreed, Fetching
  <2> QED BY <2>1, <2>2
<1> QED BY <1>1, <1>2, <1>3 DEF Throws

LEMMA StorageInvStep == StorageInv /\ [StorageNext]_storageVars => StorageInv'
<1> SUFFICES ASSUME StorageInv, [StorageNext]_storageVars PROVE StorageInv'
  OBVIOUS
<1>1. CASE Throws
  BY <1>1, ThrowsStep
<1>2. CASE ~Throws
  <2>1. [Next]_vars /\ UNCHANGED <<leftLocked, silent>>
    <3>1. ASSUME NEW c \in Clients, ClientRuns(c)
          PROVE  ClientThread(c) /\ UNCHANGED <<leftLocked, silent>>
      BY <3>1 DEF ClientRuns
    <3>2. ASSUME NEW f \in Clients, FetcherRuns(f)
          PROVE  FetcherThread(f) /\ UNCHANGED failureVars
      BY <3>2, Zenon DEF FetcherRuns
    <3>3. CASE AtRest \/ UNCHANGED storageVars
      BY <3>3 DEF AtRest, storageVars, failureVars
    <3> QED BY <1>2, <3>1, <3>2, <3>3 DEF StorageNext, failureVars, Next
  <2>2. TypeInv'
    BY <2>1, TypeInvStep DEF StorageInv
  <2>3. ASSUME NEW u \in DOMAIN cache', ~cache'[u].nodeReady, u \notin leftLocked'
        PROVE  \E f \in Clients : AccountsFor(u, f)'
    <3>1. u \in DOMAIN cache => ~cache[u].nodeReady
      BY <2>1, <2>3, CacheStep DEF CacheGrows, StorageInv
    <3>2. u \in DOMAIN cache => \E f \in Clients : AccountsFor(u, f)
      BY <2>1, <2>3, <3>1 DEF StorageInv, UnreadyExplained, AccountsFor, InCharge
    <3>3. CASE u \in DOMAIN cache => \E f \in Clients : InCharge(u, f)
      BY <2>1, <2>3, <3>3, StaysInCharge DEF StorageInv, AccountsFor
    <3>4. ASSUME u \in DOMAIN cache, NEW f \in Clients, url[f] = u, f \in silent
          PROVE  AccountsFor(u, f)'
      <4>1. url[f] # NoUrl
        BY <3>4, UrlAssumption DEF StorageInv, TypeInv, TypeOK
      <4>2. pc[f] # "handleClientRequest"
        BY <4>1 DEF StorageInv, TypeInv, InOrder
      <4>3. url'[f] = url[f]
        BY <2>1, <4>2, UrlKept DEF StorageInv
      <4> QED BY <2>1, <3>4, <4>3 DEF AccountsFor
    <3> QED BY <3>2, <3>3, <3>4 DEF AccountsFor
  <2> QED BY <2>2, <2>3 DEF StorageInv, UnreadyExplained, AccountsFor, InCharge
<1> QED BY <1>1, <1>2

(* When the memory has run out, a node that is not ready and that nobody   *)
(* is in charge of was left locked, or its fetcher could not be started,   *)
(* or left because it could not build the exception to report its failure. *)
THEOREM UnreadyLeftLocked == StorageSpec => []UnreadyExplained
<1>1. StorageInv => UnreadyExplained
  BY DEF StorageInv
<1> QED BY <1>1, StorageInvInit, StorageInvStep, PTL DEF StorageSpec
-----------------------------------------------------------------------------
(* Dropped handlers.  What does not depend on where a fetcher's reference  *)
(* leads (Base) shows that what is disturbed stays so; until then a        *)
(* fetcher works on its own node, and the steps are those of CacheStream.  *)

Base ==
    /\ pc \in [Clients -> ClientPC]
    /\ fpc \in [Clients -> FetcherPC]
    /\ DOMAIN node = Clients /\ DOMAIN url = Clients
    /\ lookedUp \in [Clients -> {"none", "recv", "handleError"}]
    /\ \A c \in Clients : pc[c] \in NotYetFetching => fpc[c] = "none"

(* A call of getCacheNode has been made for the node that is used. *)
NodesLookedUp ==
    \A f \in Clients :
        /\ node[f] \in {NoUrl, url[f]}
        /\ lookedUp[f] # "none" => node[f] = url[f] /\ fpc[f] # "none"
        /\ fpc[f] \in {"broadcast", "lastBroadcast", "setReady", "finalBroadcast",
                       "addError", "errorBroadcast"} => lookedUp[f] # "none"

(* Handlers are where they were made until they are dropped. *)
HandlersThere ==
    \A c \in Clients : (c \in dropped => pc[c] = "ready") /\ (c \notin dropped => tenant[c] = c)

(* A client that started a fetcher leaves because its node is ready. *)
LeftReady ==
    \A c \in Clients : /\ pc[c] # "sendFailed"
                       /\ pc[c] \in Leaving /\ fpc[c] # "none" => cacheNodeReady[c]

Orderly == /\ ~crashed
           /\ TypeInv /\ ReadyExplained /\ ReadyIsLast
           /\ NodesLookedUp /\ HandlersThere /\ LeftReady

DropInv == Base /\ (Undisturbed => Orderly)

LEMMA DropInvInit == DropInit => DropInv
BY TypeInvInit, ReadyInit, ReadyIsLastInit
   DEF DropInit, Init, DropInv, Base, Orderly, NodesLookedUp, HandlersThere, LeftReady,
       ClientPC, FetcherPC, Leaving, Attached, Listening

(* Where a fetcher goes, whichever node it works on. *)
LEMMA StrayMoves ==
    ASSUME Base, NEW f \in Clients, FetcherWorks(f)
    PROVE  /\ fpc[f] \in Fetching \cup Published
           /\ \E next \in Fetching \cup Published : fpc' = [fpc EXCEPT ![f] = next]
           /\ UNCHANGED <<pc, url, memoryVars, fetchVars, crashed>>
<1>1. UNCHANGED <<url, memoryVars, lookedUp, crashed>> /\ Fetch!FetcherThread(f)
  BY DEF FetcherWorks
<1> USE DEF Fetching, Published, Fetch!FetcherGoto, Fetch!clientVars, fetchVars
<1>2. CASE Fetch!ContactServer(f) \/ Fetch!ReceiveFails(f) \/ Fetch!LeaveFetcher(f)
  BY <1>1, <1>2 DEF Fetch!ContactServer, Fetch!ReceiveFails, Fetch!LeaveFetcher
<1>3. CASE Fetch!ReceiveData(f) \/ Fetch!ReceiveEnd(f) \/ Fetch!BroadcastData(f)
  BY <1>1, <1>3 DEF Fetch!ReceiveData, Fetch!ReceiveEnd, Fetch!BroadcastData
<1>4. CASE Fetch!FinishNode(f) \/ Fetch!FinalBroadcast(f)
  BY <1>1, <1>4 DEF Fetch!FinishNode, Fetch!FinalBroadcast
<1>5. CASE Fetch!FailNode(f) \/ Fetch!AddErrorText(f) \/ Fetch!BroadcastError(f)
  BY <1>1, <1>5 DEF Fetch!FailNode, Fetch!AddErrorText, Fetch!BroadcastError
<1> QED BY <1>1, <1>2, <1>3, <1>4, <1>5 DEF Fetch!FetcherThread, Fetch!Receive

(* Where a client goes, whatever is in the cache. *)
LEMMA StrayClients ==
    ASSUME Base, NEW c \in Clients, ClientWorks(c)
    PROVE  /\ \E next \in ClientPC : pc' = [pc EXCEPT ![c] = next]
           /\ pc'[c] \in NotYetFetching => pc[c] \in NotYetFetching
           /\ fpc' = fpc \/ \E next \in FetcherPC \ {"none"} :
                              /\ fpc' = [fpc EXCEPT ![c] = next]
                              /\ pc[c] = "initServerThread" /\ pc'[c] = "getCacheNode"
           /\ pc[c] # "handleClientRequest" => url' = url
           /\ DOMAIN url' = Clients /\ \A d \in Clients \ {c} : url'[d] = url[d]
           /\ UNCHANGED <<tenant, dropped, fetchVars, crashed>>
           /\ broken \subseteq broken'
           /\ SendFails(c) => broken' = broken \cup {c}
<1>1. /\ UNCHANGED <<tenant, dropped, fetchVars, crashed>>
      /\ broken \subseteq broken'
      /\ SendFails(c) => broken' = broken \cup {c}
  BY DEF ClientWorks
<1> USE DEF Base, ClientPC, Attached, Listening, NotYetFetching, Goto, fetcherVars, clientVars
<1>2. CASE SpuriousWakeup(c)
  BY <1>1, <1>2 DEF SpuriousWakeup
<1>3. CASE (\E u \in Urls : AcceptRequest(c, u)) \/ RejectRequest(c) \/ Contains(c)
  BY <1>1, <1>3 DEF AcceptRequest, RejectRequest, Contains
<1>4. CASE AddCacheNode(c) \/ LeaveHandle(c)
  BY <1>1, <1>4 DEF AddCacheNode, LeaveHandle
<1>5. CASE InitServerThread(c)
  <2>1. /\ pc[c] = "initServerThread" /\ pc' = [pc EXCEPT ![c] = "getCacheNode"]
        /\ UNCHANGED url
    BY <1>5 DEF InitServerThread
  <2>2. PICK next \in {"initServerConnection", "createFailed"} : fpc' = [fpc EXCEPT ![c] = next]
    BY <1>5 DEF InitServerThread
  <2>3. next \in FetcherPC \ {"none"}
    BY DEF FetcherPC, Fetching
  <2> QED BY <1>1, <2>1, <2>2, <2>3
<1>6. CASE StartListening(c) \/ TakeMutex(c) \/ SeeData(c)
  BY <1>1, <1>6 DEF StartListening, TakeMutex, SeeData
<1>7. CASE SeeReady(c) \/ WaitForData(c) \/ StopListening(c)
  BY <1>1, <1>7 DEF SeeReady, WaitForData, StopListening
<1>8. CASE Send(c) \/ SendFails(c)
  BY <1>1, <1>8 DEF Send, SendFails
<1> QED BY <1>2, <1>3, <1>4, <1>5, <1>6, <1>7, <1>8 DEF ClientWorks, ClientThread, SendDataFromCache

LEMMA BaseStep ==
    ASSUME Base, [DropNext]_dropVars
    PROVE  Base' /\ (Undisturbed' => Undisturbed)
<1>1. ASSUME NEW c \in Clients, ClientWorks(c) PROVE Base' /\ (Undisturbed' => Undisturbed)
  <2>1. Base'
    BY <1>1, StrayClients DEF Base, NotYetFetching, fetchVars
  <2>2. broken \subseteq broken'
    BY <1>1, StrayClients
  <2>3. \A f \in Clients : fpc[f] # "none" => fpc'[f] # "none" /\ url'[f] = url[f]
    BY <1>1, StrayClients DEF Base, NotYetFetching
  <2> QED BY <2>1, <2>2, <2>3 DEF Undisturbed
<1>2. ASSUME NEW f \in Clients, FetcherWorks(f) PROVE Base' /\ (Undisturbed' => Undisturbed)
  <2>1. /\ fpc[f] \in Fetching \cup Published
        /\ UNCHANGED <<pc, url, node, lookedUp, broken>>
    BY <1>2, StrayMoves DEF memoryVars, fetchVars
  <2>2. PICK next \in Fetching \cup Published : fpc' = [fpc EXCEPT ![f] = next]
    BY <1>2, StrayMoves
  <2>3. fpc' \in [Clients -> FetcherPC] /\ fpc[f] # "none" /\ next # "none"
    BY <2>1, <2>2 DEF Base, FetcherPC, Fetching, Published
  <2> QED BY <2>1, <2>2, <2>3 DEF Base, Undisturbed
<1>3. ASSUME NEW t \in Clients, DropHandler(t) \/ ReadHost(t) \/ LookUp(t) \/ LookUpNothing(t)
      PROVE  Base' /\ (Undisturbed' => Undisturbed)
  <2>1. CASE LookUp(t)
    <3>1. fpc[t] \in {"recv", "handleError"} /\ url[tenant[t]] \in DOMAIN cache
      BY <2>1 DEF LookUp, AtLookUp
    <3> QED BY <2>1, <3>1 DEF LookUp, Base, Undisturbed, vars, clientVars, fetcherVars, memoryVars
  <2>2. CASE ~LookUp(t)
    BY <1>3, <2>2 DEF DropHandler, ReadHost, LookUpNothing, Crash, Base, Undisturbed, vars,
       clientVars, fetcherVars, memoryVars, fetchVars
  <2> QED BY <2>1, <2>2
<1>4. CASE AllDropped \/ UNCHANGED dropVars
  BY <1>4 DEF AllDropped, dropVars, Base, Undisturbed, vars, clientVars, fetcherVars,
     memoryVars, fetchVars
<1> QED BY <1>1, <1>2, <1>3, <1>4 DEF DropNext

(* On the node of its own URL a fetcher does what it does in CacheStream. *)
LEMMA WorksOnItsNode ==
    ASSUME Base, NodesLookedUp, NEW f \in Clients, FetcherWorks(f)
    PROVE  FetcherThread(f)
<1>1. UNCHANGED url /\ ~AtLookUp(f) /\ Fetch!FetcherThread(f)
  BY DEF FetcherWorks
<1>2. fpc[f] \in {"recv", "handleError", "broadcast", "lastBroadcast", "setReady",
                 "finalBroadcast", "addError", "errorBroadcast"} => node[f] = url[f]
  BY <1>1 DEF AtLookUp, NodesLookedUp
<1> USE DEF Fetch!FetcherGoto, FetcherGoto, Fetch!clientVars, clientVars, Fetch!CallOnNode,
            CallOnNode, Fetch!NodeOf, NodeOf
<1>3. CASE Fetch!ContactServer(f) \/ Fetch!ReceiveFails(f) \/ Fetch!LeaveFetcher(f)
  BY <1>1, <1>3 DEF Fetch!ContactServer, Fetch!ReceiveFails, Fetch!LeaveFetcher,
     FetcherThread, Receive, ContactServer, ReceiveFails, LeaveFetcher
<1>4. CASE Fetch!ReceiveData(f) \/ Fetch!ReceiveEnd(f)
  BY <1>1, <1>2, <1>4 DEF Fetch!ReceiveData, Fetch!ReceiveEnd, FetcherThread, Receive,
     ReceiveData, ReceiveEnd, Fetch!IsFree, IsFree, Fetch!AddData, AddData, Fetch!Chunk, Chunk
<1>5. CASE Fetch!BroadcastData(f) \/ Fetch!BroadcastError(f)
  BY <1>1, <1>2, <1>5 DEF Fetch!BroadcastData, Fetch!BroadcastError, FetcherThread,
     BroadcastData, BroadcastError, Fetch!Broadcast, Broadcast
<1>6. CASE Fetch!FinishNode(f) \/ Fetch!FinalBroadcast(f)
  BY <1>1, <1>2, <1>6 DEF Fetch!FinishNode, Fetch!FinalBroadcast, FetcherThread, FinishNode,
     FinalBroadcast, Fetch!IsFree, IsFree, Fetch!SetReady, SetReady, Fetch!Broadcast, Broadcast
<1>7. CASE Fetch!FailNode(f) \/ Fetch!AddErrorText(f)
  BY <1>1, <1>2, <1>7 DEF Fetch!FailNode, Fetch!AddErrorText, FetcherThread, FailNode,
     AddErrorText, Fetch!IsFree, IsFree, Fetch!SetReady, SetReady, Fetch!AddData, AddData,
     Fetch!ErrorText, ErrorText
<1> QED BY <1>1, <1>3, <1>4, <1>5, <1>6, <1>7 DEF Fetch!FetcherThread, Fetch!Receive

(* While a fetcher has still to use what it refers to, its client has not  *)
(* left: its node is not ready, for no other fetcher has made it so.       *)
LEMMA ClientIsThere ==
    ASSUME Undisturbed, Orderly, NEW f \in Clients,
           fpc[f] \in {"initServerConnection", "recv", "handleError"}
    PROVE  pc[f] \notin Leaving /\ f \notin dropped /\ tenant[f] = f
<1>1. pc[f] \notin Leaving
  <2> SUFFICES ASSUME pc[f] \in Leaving PROVE FALSE
    OBVIOUS
  <2>1. cacheNodeReady[f]
    BY DEF Orderly, LeftReady
  <2>2. url[f] \in DOMAIN cache /\ cache[url[f]].nodeReady
    BY <2>1 DEF Orderly, ReadyIsLast, NodeOf
  <2>3. PICK g \in Fetchers(url[f]) : fpc[g] \in Published
    BY <2>2 DEF Orderly, ReadyExplained
  <2>4. g = f
    BY <2>3 DEF Undisturbed, Fetchers, Published
  <2> QED BY <2>3, <2>4 DEF Published
<1> QED BY <1>1 DEF Orderly, HandlersThere, Leaving

LEMMA OrderlyStep ==
    ASSUME Base, Undisturbed, Orderly, [DropNext]_dropVars, Undisturbed'
    PROVE  Orderly'
<1> USE DEF Orderly
<1>1. ASSUME NEW c \in Clients, ClientWorks(c) PROVE Orderly'
  <2>1. [Next]_vars /\ (ClientThread(c) \/ SpuriousWakeup(c))
    BY <1>1 DEF ClientWorks, Next
  <2>2. TypeInv' /\ ReadyExplained' /\ ReadyIsLast'
    BY <2>1, TypeInvStep, ReadyStep, ReadyIsLastStep
  <2>3. UNCHANGED <<tenant, dropped, node, lookedUp, crashed>>
    BY <1>1, StrayClients DEF fetchVars
  <2>4. ~SendFails(c)
    BY <1>1, StrayClients DEF Undisturbed
  <2>5. PICK next \in ClientPC : pc' = [pc EXCEPT ![c] = next]
    BY <1>1, StrayClients
  <2>6. \A f \in Clients :
           /\ url'[f] = url[f] \/ (url[f] = NoUrl /\ fpc[f] = "none")
           /\ fpc'[f] = fpc[f] \/ (/\ fpc[f] = "none" /\ pc'[f] = "getCacheNode"
                                   /\ fpc'[f] \in {"initServerConnection", "createFailed"})
    <3>1. \A f \in Clients : pc[f] # "handleClientRequest" => url'[f] = url[f]
      BY <1>1, StrayClients DEF Base
    <3>2. \A f \in Clients : pc[f] = "handleClientRequest" => url[f] = NoUrl /\ fpc[f] = "none"
      BY DEF TypeInv, InOrder, NotYetFetching
    <3>3. CASE InitServerThread(c)
      BY <3>1, <3>2, <3>3 DEF InitServerThread, Goto, Base, NotYetFetching
    <3>4. CASE ~InitServerThread(c)
      <4>1. UNCHANGED fpc
        BY <2>1, <3>4 DEF ClientThread, SendDataFromCache, AcceptRequest, RejectRequest, Contains,
           AddCacheNode, StartListening, TakeMutex, SeeData, SeeReady, WaitForData, Send,
           SendFails, StopListening, LeaveHandle, SpuriousWakeup, fetcherVars
      <4> QED BY <3>1, <3>2, <4>1
    <3> QED BY <3>3, <3>4
  <2>7. NodesLookedUp'
    BY <2>3, <2>6 DEF NodesLookedUp
  <2>8. HandlersThere'
    <3>1. pc[c] # "ready"
      BY <2>1 DEF ClientThread, SendDataFromCache, AcceptRequest, RejectRequest, Contains,
         AddCacheNode, InitServerThread, StartListening, TakeMutex, SeeData, SeeReady,
         WaitForData, Send, SendFails, StopListening, LeaveHandle, SpuriousWakeup
    <3> QED BY <2>3, <2>5, <3>1 DEF HandlersThere, Base
  <2>9. LeftReady'
    <3>1. ASSUME NEW f \in Clients
          PROVE  /\ pc'[f] # "sendFailed"
                 /\ pc'[f] \in Leaving =>
                       \/ pc[f] \in Leaving /\ cacheNodeReady'[f] = cacheNodeReady[f]
                       \/ pc[f] = "removeListener" /\ cacheNodeReady'[f] = cacheNodeReady[f]
                       \/ pc[f] = "handleClientRequest"
      <4>1. CASE f # c
        <5>1. pc'[f] = pc[f]
          BY <2>5, <4>1 DEF Base
        <5>2. cacheNodeReady'[f] = cacheNodeReady[f]
          BY <2>1, <4>1 DEF TypeInv, TypeOK, ClientThread, SendDataFromCache, AcceptRequest,
             RejectRequest, Contains, AddCacheNode, InitServerThread, StartListening, TakeMutex,
             SeeData, SeeReady, WaitForData, Send, SendFails, StopListening, LeaveHandle,
             SpuriousWakeup, clientVars
        <5> QED BY <5>1, <5>2 DEF LeftReady
      <4>2. CASE f = c
        <5> USE <4>2 DEF Leaving, Goto, Base, LeftReady
        <5>1. CASE SpuriousWakeup(c)
          BY <5>1 DEF SpuriousWakeup, clientVars
        <5>2. CASE (\E u \in Urls : AcceptRequest(c, u)) \/ RejectRequest(c) \/ Contains(c)
          BY <5>2 DEF AcceptRequest, RejectRequest, Contains
        <5>3. CASE AddCacheNode(c) \/ InitServerThread(c) \/ LeaveHandle(c)
          BY <5>3 DEF AddCacheNode, InitServerThread, LeaveHandle
        <5>4. CASE StartListening(c) \/ TakeMutex(c) \/ SeeData(c)
          BY <5>4 DEF StartListening, TakeMutex, SeeData
        <5>5. CASE SeeReady(c) \/ WaitForData(c) \/ Send(c)
          BY <5>5 DEF SeeReady, WaitForData, Send
        <5>6. CASE StopListening(c)
          BY <5>6 DEF StopListening
        <5> QED BY <2>1, <2>4, <5>1, <5>2, <5>3, <5>4, <5>5, <5>6 DEF ClientThread, SendDataFromCache
      <4> QED BY <4>1, <4>2
    <3>2. \A f \in Clients : /\ pc'[f] \in Leaving => fpc'[f] = fpc[f]
                             /\ pc[f] = "handleClientRequest" => fpc[f] = "none"
      BY <2>6 DEF Leaving, Base, NotYetFetching
    <3>3. \A f \in Clients : pc[f] = "removeListener" => cacheNodeReady[f]
      BY DEF ReadyIsLast
    <3> QED BY <3>1, <3>2, <3>3 DEF LeftReady
  <2> QED BY <2>2, <2>3, <2>7, <2>8, <2>9
<1>2. ASSUME NEW f \in Clients, FetcherWorks(f) PROVE Orderly'
  <2>1. FetcherThread(f)
    BY <1>2, WorksOnItsNode
  <2>2. [Next]_vars
    BY <2>1 DEF Next
  <2>3. TypeInv' /\ ReadyExplained' /\ ReadyIsLast'
    BY <2>2, TypeInvStep, ReadyStep, ReadyIsLastStep
  <2>4. UNCHANGED <<pc, url, tenant, dropped, node, lookedUp, crashed>>
    BY <1>2, StrayMoves DEF memoryVars, fetchVars
  <2>5. UNCHANGED cacheNodeReady
    BY <2>1, FetcherStep DEF clientVars
  <2>6. HandlersThere'
    BY <2>4 DEF HandlersThere
  <2>7. LeftReady'
    <3>1. \A g \in Clients : fpc'[g] # "none" => fpc[g] # "none"
      BY <1>2, StrayMoves DEF Base, Fetching, Published
    <3> QED BY <2>4, <2>5, <3>1 DEF LeftReady
  <2>8. NodesLookedUp'
    <3>1. \A g \in Clients : g # f => fpc'[g] = fpc[g]
      BY <1>2, StrayMoves DEF Base
    <3>2. fpc'[f] \in {"broadcast", "lastBroadcast", "setReady", "finalBroadcast",
                      "addError", "errorBroadcast"}
             => fpc[f] \in {"recv", "handleError", "broadcast", "lastBroadcast", "setReady",
                           "finalBroadcast", "addError", "errorBroadcast"}
      BY <2>1 DEF Base, FetcherThread, Receive, ContactServer, ReceiveData, ReceiveEnd,
         ReceiveFails, BroadcastData, FinishNode, FinalBroadcast, FailNode, AddErrorText,
         BroadcastError, LeaveFetcher, FetcherGoto
    <3>3. fpc[f] \in {"recv", "handleError"} => lookedUp[f] # "none"
      BY <1>2 DEF FetcherWorks, AtLookUp
    <3>4. fpc'[f] # "none"
      BY <1>2, StrayMoves DEF Base, Fetching, Published
    <3> QED BY <2>4, <3>1, <3>2, <3>3, <3>4 DEF NodesLookedUp
  <2> QED BY <2>3, <2>4, <2>6, <2>7, <2>8
<1>3. ASSUME NEW c \in Clients, DropHandler(c) PROVE Orderly'
  <2>1. [Next]_vars /\ UNCHANGED <<vars, node, lookedUp, crashed>>
    BY <1>3 DEF DropHandler, fetchVars
  <2>2. TypeInv' /\ ReadyExplained' /\ ReadyIsLast'
    BY <2>1, TypeInvStep, ReadyStep, ReadyIsLastStep
  <2>3. NodesLookedUp' /\ LeftReady'
    BY <2>1 DEF NodesLookedUp, LeftReady, vars, clientVars, fetcherVars
  <2>4. HandlersThere'
    <3>1. pc[c] = "ready" /\ dropped' = dropped \cup {c} /\ UNCHANGED pc
      BY <1>3 DEF DropHandler, vars, clientVars
    <3>2. PICK next \in Clients :
             tenant' = [d \in Clients |-> IF tenant[d] = c THEN next ELSE tenant[d]]
      BY <1>3 DEF DropHandler, Expected
    <3> QED BY <3>1, <3>2 DEF HandlersThere
  <2> QED BY <2>1, <2>2, <2>3, <2>4
<1>4. ASSUME NEW f \in Clients, ReadHost(f) \/ LookUpNothing(f) PROVE FALSE
  <2>1. /\ fpc[f] \in {"initServerConnection", "recv", "handleError"}
        /\ pc[f] \in Leaving \/ f \in dropped \/ url[tenant[f]] \notin DOMAIN cache
    BY <1>4 DEF ReadHost, LookUpNothing, AtLookUp, Leaving
  <2>2. url[f] \in DOMAIN cache
    BY <2>1 DEF TypeInv, HasNode
  <2> QED BY <2>1, <2>2, ClientIsThere
<1>5. ASSUME NEW f \in Clients, LookUp(f) PROVE Orderly'
  <2>1. /\ [Next]_vars /\ UNCHANGED <<vars, tenant, dropped, crashed>>
        /\ fpc[f] \in {"recv", "handleError"}
        /\ node' = [node EXCEPT ![f] = url[tenant[f]]]
        /\ lookedUp' = [lookedUp EXCEPT ![f] = fpc[f]]
    BY <1>5 DEF LookUp, AtLookUp, memoryVars
  <2>2. tenant[f] = f
    BY <2>1, ClientIsThere
  <2>3. TypeInv' /\ ReadyExplained' /\ ReadyIsLast'
    BY <2>1, TypeInvStep, ReadyStep, ReadyIsLastStep
  <2>4. HandlersThere' /\ LeftReady'
    BY <2>1 DEF HandlersThere, LeftReady, vars, clientVars, fetcherVars
  <2>5. NodesLookedUp'
    BY <2>1, <2>2 DEF NodesLookedUp, Base, vars, clientVars, fetcherVars
  <2> QED BY <2>1, <2>3, <2>4, <2>5
<1>6. CASE UNCHANGED dropVars
  <2>1. [Next]_vars /\ UNCHANGED <<vars, tenant, dropped, node, lookedUp, crashed>>
    BY <1>6 DEF dropVars, memoryVars, fetchVars
  <2>2. TypeInv' /\ ReadyExplained' /\ ReadyIsLast'
    BY <2>1, TypeInvStep, ReadyStep, ReadyIsLastStep
  <2> QED BY <2>1, <2>2 DEF NodesLookedUp, HandlersThere, LeftReady, vars, clientVars, fetcherVars
<1> QED BY <1>1, <1>2, <1>3, <1>4, <1>5, <1>6 DEF DropNext, AllDropped

LEMMA DropInvStep == DropInv /\ [DropNext]_dropVars => DropInv'
BY BaseStep, OrderlyStep DEF DropInv

(* As long as no connection has broken and no URL is fetched twice, what a *)
(* fetcher refers to in its client's handler is there when it looks, and   *)
(* the node it looks up is the one of its URL: operator[] does not insert  *)
(* a null pointer.                                                         *)
THEOREM NodesFound == DropSpec => []NodeFound
<1>1. DropInv => NodeFound
  BY DEF DropInv, Orderly, NodesLookedUp, NodeFound
<1> QED BY <1>1, DropInvInit, DropInvStep, PTL DEF DropSpec
=============================================================================
