-------------------------- MODULE CacheStream_proofs --------------------------
(***************************************************************************)
(* What holds of the threads, locks and listeners of CacheStream for any   *)
(* number of clients, URLs and chunks.  The theorems follow each other:    *)
(* the types (TypeInv), what one step makes of the cache (CacheStep,       *)
(* FetcherStep), the monitor, the listeners, the destruction of the        *)
(* condition variable.                                                     *)
(***************************************************************************)
EXTENDS CacheStream, SequenceTheorems, FiniteSetTheorems, TLAPS
-----------------------------------------------------------------------------
(***************************************************************************)
(* What each method of CacheNode does to every field of the node, so that  *)
(* the proofs about threads need not look into a node again.               *)
(***************************************************************************)

LEMMA NewNodeFields ==
    /\ NewNode \in Node
    /\ NewNode.data = << >>
    /\ NewNode.nodeReady = FALSE
    /\ NewNode.mutex = Unlocked
    /\ NewNode.anyDataCondVar = {}
    /\ NewNode.condVarDestroyed = FALSE
    /\ NewNode.listenersCount = 0
BY DEF NewNode, Node

LEMMA NodeFields ==
    ASSUME NEW n \in Node
    PROVE  /\ n.data \in Seq(Items)
           /\ Len(n.data) \in Nat
           /\ n.nodeReady \in BOOLEAN
           /\ n.mutex \in Clients \cup {Unlocked}
           /\ n.anyDataCondVar \subseteq Clients
           /\ n.condVarDestroyed \in BOOLEAN
           /\ n.listenersCount \in Int
BY DEF Node

LEMMA LockFields ==
    ASSUME NEW n \in Node, NEW t \in Clients
    PROVE  /\ Lock(n, t) \in Node
           /\ Lock(n, t).data = n.data
           /\ Lock(n, t).nodeReady = n.nodeReady
           /\ Lock(n, t).mutex = t
           /\ Lock(n, t).anyDataCondVar = n.anyDataCondVar
           /\ Lock(n, t).condVarDestroyed = n.condVarDestroyed
           /\ Lock(n, t).listenersCount = n.listenersCount
BY DEF Lock, Node

LEMMA UnlockFields ==
    ASSUME NEW n \in Node
    PROVE  /\ Unlock(n) \in Node
           /\ Unlock(n).data = n.data
           /\ Unlock(n).nodeReady = n.nodeReady
           /\ Unlock(n).mutex = Unlocked
           /\ Unlock(n).anyDataCondVar = n.anyDataCondVar
           /\ Unlock(n).condVarDestroyed = n.condVarDestroyed
           /\ Unlock(n).listenersCount = n.listenersCount
BY DEF Unlock, Node

LEMMA WaitFields ==
    ASSUME NEW n \in Node, NEW t \in Clients
    PROVE  /\ Wait(n, t) \in Node
           /\ Wait(n, t).data = n.data
           /\ Wait(n, t).nodeReady = n.nodeReady
           /\ Wait(n, t).mutex = Unlocked
           /\ Wait(n, t).anyDataCondVar = n.anyDataCondVar \cup {t}
           /\ Wait(n, t).condVarDestroyed = n.condVarDestroyed
           /\ Wait(n, t).listenersCount = n.listenersCount
BY DEF Wait, Node

LEMMA BroadcastFields ==
    ASSUME NEW n \in Node
    PROVE  /\ Broadcast(n) \in Node
           /\ Broadcast(n).data = n.data
           /\ Broadcast(n).nodeReady = n.nodeReady
           /\ Broadcast(n).mutex = n.mutex
           /\ Broadcast(n).anyDataCondVar = {}
           /\ Broadcast(n).condVarDestroyed = n.condVarDestroyed
           /\ Broadcast(n).listenersCount = n.listenersCount
BY DEF Broadcast, Node

LEMMA WakeSpuriouslyFields ==
    ASSUME NEW n \in Node, NEW t \in Clients
    PROVE  /\ WakeSpuriously(n, t) \in Node
           /\ WakeSpuriously(n, t).data = n.data
           /\ WakeSpuriously(n, t).nodeReady = n.nodeReady
           /\ WakeSpuriously(n, t).mutex = n.mutex
           /\ WakeSpuriously(n, t).anyDataCondVar = n.anyDataCondVar \ {t}
           /\ WakeSpuriously(n, t).condVarDestroyed = n.condVarDestroyed
           /\ WakeSpuriously(n, t).listenersCount = n.listenersCount
BY DEF WakeSpuriously, Node

LEMMA AddDataFields ==
    ASSUME NEW n \in Node, NEW d \in Seq(Items)
    PROVE  /\ AddData(n, d) \in Node
           /\ AddData(n, d).data = n.data \o d
           /\ AddData(n, d).nodeReady = n.nodeReady
           /\ AddData(n, d).mutex = n.mutex
           /\ AddData(n, d).anyDataCondVar = n.anyDataCondVar
           /\ AddData(n, d).condVarDestroyed = n.condVarDestroyed
           /\ AddData(n, d).listenersCount = n.listenersCount
<1>1. n.data \o d \in Seq(Items)
  BY NodeFields, ConcatProperties
<1>2. QED
  BY <1>1 DEF AddData, Node

LEMMA SetReadyFields ==
    ASSUME NEW n \in Node
    PROVE  /\ SetReady(n) \in Node
           /\ SetReady(n).data = n.data
           /\ SetReady(n).nodeReady = TRUE
           /\ SetReady(n).mutex = n.mutex
           /\ SetReady(n).anyDataCondVar = n.anyDataCondVar
           /\ SetReady(n).condVarDestroyed = n.condVarDestroyed
           /\ SetReady(n).listenersCount = n.listenersCount
BY DEF SetReady, Node

LEMMA AddListenerFields ==
    ASSUME NEW n \in Node
    PROVE  /\ AddListener(n) \in Node
           /\ AddListener(n).data = n.data
           /\ AddListener(n).nodeReady = n.nodeReady
           /\ AddListener(n).mutex = n.mutex
           /\ AddListener(n).anyDataCondVar = n.anyDataCondVar
           /\ AddListener(n).condVarDestroyed = n.condVarDestroyed
           /\ AddListener(n).listenersCount = n.listenersCount + 1
BY DEF AddListener, Node

LEMMA RemoveListenerFields ==
    ASSUME NEW n \in Node
    PROVE  /\ RemoveListener(n) \in Node
           /\ RemoveListener(n).data = n.data
           /\ RemoveListener(n).nodeReady = n.nodeReady
           /\ RemoveListener(n).mutex = n.mutex
           /\ RemoveListener(n).anyDataCondVar = n.anyDataCondVar
           /\ RemoveListener(n).condVarDestroyed =
                  (n.condVarDestroyed \/ (n.listenersCount = 1 /\ n.nodeReady))
           /\ RemoveListener(n).listenersCount = n.listenersCount - 1
<1> DEFINE destroyed == n.condVarDestroyed \/ (n.listenersCount = 1 /\ n.nodeReady)
           count == n.listenersCount - 1
<1>1. destroyed \in BOOLEAN
  OBVIOUS
<1>2. count \in Int
  BY NodeFields
<1>3. RemoveListener(n) = [n EXCEPT !.listenersCount = count,
                                    !.condVarDestroyed = destroyed]
  BY DEF RemoveListener
<1> HIDE DEF destroyed, count
<1>4. /\ RemoveListener(n) \in Node
      /\ RemoveListener(n).data = n.data
      /\ RemoveListener(n).nodeReady = n.nodeReady
      /\ RemoveListener(n).mutex = n.mutex
      /\ RemoveListener(n).anyDataCondVar = n.anyDataCondVar
      /\ RemoveListener(n).condVarDestroyed = destroyed
      /\ RemoveListener(n).listenersCount = count
  BY <1>1, <1>2, <1>3 DEF Node
<1>5. QED
  BY <1>4 DEF destroyed, count
-----------------------------------------------------------------------------
(***************************************************************************)
(* Types, and the order in which a client and its fetcher go through their *)
(* program counters: a fetcher starts with nothing received, a client with *)
(* nothing sent, neither looks a URL up before it has a node, and no       *)
(* client asks its node for data beyond the end.  The URL a fetcher looks  *)
(* up is here its client's even when that has gone (DroppedHandlers).      *)
(***************************************************************************)

HasNode ==
    \A c \in Clients :
        pc[c] \in Attached \/ fpc[c] # "none" => url[c] \in DOMAIN cache

NotYetFetching == {"handleClientRequest", "contains", "addCacheNode", "initServerThread"}

Leaving == {"sendError", "closeSocket", "ready"}

InOrder ==
    \A c \in Clients :
        /\ pc[c] = "handleClientRequest" => url[c] = NoUrl
        /\ pc[c] \in {"contains", "addCacheNode"} => url[c] \in Urls
        /\ pc[c] \in NotYetFetching => fpc[c] = "none"
        /\ fpc[c] \in {"none", "createFailed", "initServerConnection"} => fetched[c] = 0
        /\ pc[c] \notin Listening \cup Leaving =>
               offset[c] = 0 /\ sent[c] = << >> /\ ~cacheNodeReady[c]

WithinData ==
    \A c \in Clients :
        /\ pc[c] \in Listening => offset[c] <= Len(NodeOf(c).data)
        /\ pc[c] = "send" => offset[c] <= size[c] /\ size[c] <= Len(NodeOf(c).data)

TypeInv == TypeOK /\ HasNode /\ InOrder /\ WithinData

LEMMA TypeInvInit == Init => TypeInv
BY NodeAssumption, UrlAssumption
   DEF Init, TypeInv, TypeOK, HasNode, InOrder, WithinData, NotYetFetching, Leaving,
       ClientPC, Attached, Listening, FetcherPC
-----------------------------------------------------------------------------
(* What a step makes of the cache.                                         *)

Extends(s, t) == Len(s) <= Len(t) /\ \A i \in 1 .. Len(s) : t[i] = s[i]

(* No node is lost, none loses data, and none is taken back from ready. *)
CacheGrows ==
    /\ DOMAIN cache \subseteq DOMAIN cache' /\ DOMAIN cache' \subseteq Urls
    /\ cache' \in [DOMAIN cache' -> Node]
    /\ \A u \in DOMAIN cache : /\ Extends(cache[u].data, cache'[u].data)
                               /\ cache[u].nodeReady => cache'[u].nodeReady

LEMMA NodeOfType ==
    ASSUME TypeOK, NEW c \in Clients, url[c] \in DOMAIN cache
    PROVE  NodeOf(c) \in Node
BY DEF TypeOK, NodeOf

LEMMA ExtendsItself == \A n \in Node : Extends(n.data, n.data)
BY NodeFields DEF Extends

LEMMA AddDataExtends ==
    ASSUME NEW n \in Node, NEW d \in Seq(Items)
    PROVE  Extends(n.data, AddData(n, d).data)
BY NodeFields, AddDataFields, ConcatProperties DEF Extends

LEMMA FetchedItems ==
    ASSUME TypeOK, NEW f \in Clients
    PROVE  /\ << >> \in Seq(Items)
           /\ <<ErrorText(f)>> \in Seq(Items)
           /\ fetched[f] < MaxChunks => <<Chunk(f, fetched[f] + 1)>> \in Seq(Items)
BY NodeAssumption DEF TypeOK, Items, ErrorText, Chunk

(* The step replaces the node of client c, which it has, by n. *)
NodeBecomes(c, n) ==
    /\ url[c] \in DOMAIN cache
    /\ NodeOf(c) \in Node
    /\ n \in Node
    /\ DOMAIN cache' = DOMAIN cache
    /\ cache'[url[c]] = n
    /\ \A u \in DOMAIN cache : u # url[c] => cache'[u] = cache[u]
    /\ \A u \in DOMAIN cache : cache[u] \in Node /\ cache'[u] \in Node
    /\ cache' \in [DOMAIN cache -> Node]

LEMMA NodeStep ==
    ASSUME TypeOK, NEW c \in Clients, url[c] \in DOMAIN cache,
           NEW n \in Node, cache' = [cache EXCEPT ![url[c]] = n]
    PROVE  NodeBecomes(c, n)
BY NodeOfType DEF TypeOK, NodeBecomes

(* The method each step calls on its node. *)
LEMMA ClientCalls ==
    ASSUME TypeInv, NEW c \in Clients
    PROVE  /\ StartListening(c) => NodeBecomes(c, AddListener(NodeOf(c)))
           /\ TakeMutex(c) => NodeBecomes(c, Lock(NodeOf(c), c))
           /\ SpuriousWakeup(c) => NodeBecomes(c, WakeSpuriously(NodeOf(c), c))
           /\ SeeData(c) => NodeBecomes(c, Unlock(NodeOf(c)))
           /\ SeeReady(c) => NodeBecomes(c, Unlock(NodeOf(c)))
           /\ WaitForData(c) => NodeBecomes(c, Wait(NodeOf(c), c))
           /\ StopListening(c) => NodeBecomes(c, RemoveListener(NodeOf(c)))
<1>1. (\/ StartListening(c) \/ TakeMutex(c) \/ SpuriousWakeup(c) \/ SeeData(c) \/ SeeReady(c)
       \/ WaitForData(c) \/ StopListening(c)) => url[c] \in DOMAIN cache /\ NodeOf(c) \in Node
  BY NodeOfType DEF StartListening, TakeMutex, SpuriousWakeup, SeeData, SeeReady, WaitForData,
     StopListening, TypeInv, HasNode, Attached, Listening
<1> USE DEF TypeInv, CallOnNode, NodeOf
<1>2. ASSUME StartListening(c)
      PROVE  NodeBecomes(c, AddListener(NodeOf(c)))
  BY <1>1, <1>2, AddListenerFields, NodeStep DEF StartListening
<1>3. ASSUME TakeMutex(c)
      PROVE  NodeBecomes(c, Lock(NodeOf(c), c))
  BY <1>1, <1>3, LockFields, NodeStep DEF TakeMutex
<1>4. ASSUME SpuriousWakeup(c)
      PROVE  NodeBecomes(c, WakeSpuriously(NodeOf(c), c))
  BY <1>1, <1>4, WakeSpuriouslyFields, NodeStep DEF SpuriousWakeup
<1>5. ASSUME SeeData(c)
      PROVE  NodeBecomes(c, Unlock(NodeOf(c)))
  BY <1>1, <1>5, UnlockFields, NodeStep DEF SeeData
<1>6. ASSUME SeeReady(c)
      PROVE  NodeBecomes(c, Unlock(NodeOf(c)))
  BY <1>1, <1>6, UnlockFields, NodeStep DEF SeeReady
<1>7. ASSUME WaitForData(c)
      PROVE  NodeBecomes(c, Wait(NodeOf(c), c))
  BY <1>1, <1>7, WaitFields, NodeStep DEF WaitForData
<1>8. ASSUME StopListening(c)
      PROVE  NodeBecomes(c, RemoveListener(NodeOf(c)))
  BY <1>1, <1>8, RemoveListenerFields, NodeStep DEF StopListening
<1>9. QED
  BY <1>2, <1>3, <1>4, <1>5, <1>6, <1>7, <1>8

LEMMA FetcherCalls ==
    ASSUME TypeInv, NEW f \in Clients
    PROVE  /\ ReceiveData(f) => NodeBecomes(f, AddData(NodeOf(f), <<Chunk(f, fetched[f] + 1)>>))
           /\ ReceiveEnd(f) => NodeBecomes(f, AddData(NodeOf(f), << >>))
           /\ BroadcastData(f) => NodeBecomes(f, Broadcast(NodeOf(f)))
           /\ FinishNode(f) => NodeBecomes(f, SetReady(NodeOf(f)))
           /\ FinalBroadcast(f) => NodeBecomes(f, Broadcast(NodeOf(f)))
           /\ FailNode(f) => NodeBecomes(f, SetReady(NodeOf(f)))
           /\ AddErrorText(f) => NodeBecomes(f, AddData(NodeOf(f), <<ErrorText(f)>>))
           /\ BroadcastError(f) => NodeBecomes(f, Broadcast(NodeOf(f)))
<1>1. fpc[f] # "none" => url[f] \in DOMAIN cache /\ NodeOf(f) \in Node
  BY NodeOfType DEF TypeInv, HasNode
<1> USE DEF TypeInv, CallOnNode, NodeOf
<1>2. ASSUME ReceiveData(f)
      PROVE  NodeBecomes(f, AddData(NodeOf(f), <<Chunk(f, fetched[f] + 1)>>))
  BY <1>1, <1>2, AddDataFields, FetchedItems, NodeStep DEF ReceiveData
<1>3. ASSUME ReceiveEnd(f)
      PROVE  NodeBecomes(f, AddData(NodeOf(f), << >>))
  BY <1>1, <1>3, AddDataFields, FetchedItems, NodeStep DEF ReceiveEnd
<1>4. ASSUME BroadcastData(f)
      PROVE  NodeBecomes(f, Broadcast(NodeOf(f)))
  BY <1>1, <1>4, BroadcastFields, NodeStep DEF BroadcastData
<1>5. ASSUME FinishNode(f)
      PROVE  NodeBecomes(f, SetReady(NodeOf(f)))
  BY <1>1, <1>5, SetReadyFields, NodeStep DEF FinishNode
<1>6. ASSUME FinalBroadcast(f)
      PROVE  NodeBecomes(f, Broadcast(NodeOf(f)))
  BY <1>1, <1>6, BroadcastFields, NodeStep DEF FinalBroadcast
<1>7. ASSUME FailNode(f)
      PROVE  NodeBecomes(f, SetReady(NodeOf(f)))
  BY <1>1, <1>7, SetReadyFields, NodeStep DEF FailNode
<1>8. ASSUME AddErrorText(f)
      PROVE  NodeBecomes(f, AddData(NodeOf(f), <<ErrorText(f)>>))
  BY <1>1, <1>8, AddDataFields, FetchedItems, NodeStep DEF AddErrorText
<1>9. ASSUME BroadcastError(f)
      PROVE  NodeBecomes(f, Broadcast(NodeOf(f)))
  BY <1>1, <1>9, BroadcastFields, NodeStep DEF BroadcastError
<1>10. QED
  BY <1>2, <1>3, <1>4, <1>5, <1>6, <1>7, <1>8, <1>9

(* No step on a node shortens its data or takes it back from ready. *)
LEMMA NodeGrows ==
    ASSUME TypeOK, NEW c \in Clients, NEW n, NodeBecomes(c, n),
           Extends(NodeOf(c).data, n.data), NodeOf(c).nodeReady => n.nodeReady
    PROVE  CacheGrows
<1>1. \A u \in DOMAIN cache : cache'[u] = cache[u] => Extends(cache[u].data, cache'[u].data)
  BY ExtendsItself DEF TypeOK
<1>2. QED
  BY <1>1 DEF CacheGrows, NodeBecomes, NodeOf, TypeOK

(* What becomes of the data of a fetcher's node: nothing, or more. *)
LEMMA FetcherStores ==
    ASSUME TypeInv, NEW f \in Clients, ReceiveData(f) \/ ReceiveEnd(f) \/ AddErrorText(f)
    PROVE  \E d \in Seq(Items) : NodeBecomes(f, AddData(NodeOf(f), d))
<1>1. CASE ReceiveData(f)
  <2>1. <<Chunk(f, fetched[f] + 1)>> \in Seq(Items)
    BY <1>1, FetchedItems DEF ReceiveData, TypeInv
  <2>2. QED
    BY <1>1, <2>1, FetcherCalls
<1>2. CASE ReceiveEnd(f)
  <2>1. << >> \in Seq(Items)
    BY FetchedItems DEF TypeInv
  <2>2. QED
    BY <1>2, <2>1, FetcherCalls
<1>3. CASE AddErrorText(f)
  <2>1. <<ErrorText(f)>> \in Seq(Items)
    BY FetchedItems DEF TypeInv
  <2>2. QED
    BY <1>3, <2>1, FetcherCalls
<1>4. QED
  BY <1>1, <1>2, <1>3

LEMMA CacheStep == TypeInv /\ [Next]_vars => CacheGrows
<1> SUFFICES ASSUME TypeInv, [Next]_vars
             PROVE  CacheGrows
  OBVIOUS
<1>1. CASE UNCHANGED cache
  BY <1>1, ExtendsItself DEF CacheGrows, TypeInv, TypeOK
<1>2. ASSUME NEW c \in Clients, AddCacheNode(c)
      PROVE  CacheGrows
  BY <1>2, NewNodeFields, ExtendsItself
     DEF AddCacheNode, Emplace, CacheGrows, TypeInv, TypeOK, InOrder
<1>3. ASSUME NEW c \in Clients,
             \/ StartListening(c) \/ TakeMutex(c) \/ SpuriousWakeup(c) \/ SeeData(c)
             \/ SeeReady(c) \/ WaitForData(c) \/ StopListening(c)
      PROVE  CacheGrows
  <2>1. CASE StartListening(c)
    BY <2>1, ClientCalls, AddListenerFields, ExtendsItself, NodeGrows DEF NodeBecomes, TypeInv
  <2>2. CASE TakeMutex(c)
    BY <2>2, ClientCalls, LockFields, ExtendsItself, NodeGrows DEF NodeBecomes, TypeInv
  <2>3. CASE SpuriousWakeup(c)
    BY <2>3, ClientCalls, WakeSpuriouslyFields, ExtendsItself, NodeGrows DEF NodeBecomes, TypeInv
  <2>4. CASE SeeData(c)
    BY <2>4, ClientCalls, UnlockFields, ExtendsItself, NodeGrows DEF NodeBecomes, TypeInv
  <2>5. CASE SeeReady(c)
    BY <2>5, ClientCalls, UnlockFields, ExtendsItself, NodeGrows DEF NodeBecomes, TypeInv
  <2>6. CASE WaitForData(c)
    BY <2>6, ClientCalls, WaitFields, ExtendsItself, NodeGrows DEF NodeBecomes, TypeInv
  <2>7. CASE StopListening(c)
    BY <2>7, ClientCalls, RemoveListenerFields, ExtendsItself, NodeGrows DEF NodeBecomes, TypeInv
  <2>8. QED
    BY <1>3, <2>1, <2>2, <2>3, <2>4, <2>5, <2>6, <2>7
<1>4. ASSUME NEW f \in Clients,
             \/ ReceiveData(f) \/ ReceiveEnd(f) \/ BroadcastData(f) \/ FinishNode(f)
             \/ FinalBroadcast(f) \/ FailNode(f) \/ AddErrorText(f) \/ BroadcastError(f)
      PROVE  CacheGrows
  <2>1. CASE ReceiveData(f) \/ ReceiveEnd(f) \/ AddErrorText(f)
    <3>1. PICK d \in Seq(Items) : NodeBecomes(f, AddData(NodeOf(f), d))
      BY <2>1, FetcherStores
    <3>2. NodeOf(f) \in Node
      BY <3>1 DEF NodeBecomes
    <3>3. /\ Extends(NodeOf(f).data, AddData(NodeOf(f), d).data)
          /\ AddData(NodeOf(f), d).nodeReady = NodeOf(f).nodeReady
      BY <3>2, AddDataFields, AddDataExtends
    <3>4. QED
      BY <3>1, <3>3, NodeGrows DEF TypeInv
  <2>2. CASE FinishNode(f) \/ FailNode(f)
    BY <2>2, FetcherCalls, SetReadyFields, ExtendsItself, NodeGrows DEF NodeBecomes, TypeInv
  <2>3. CASE BroadcastData(f) \/ FinalBroadcast(f) \/ BroadcastError(f)
    BY <2>3, FetcherCalls, BroadcastFields, ExtendsItself, NodeGrows DEF NodeBecomes, TypeInv
  <2>4. QED
    BY <1>4, <2>1, <2>2, <2>3
<1>5. QED
  BY <1>1, <1>2, <1>3, <1>4 DEF Next, ClientThread, SendDataFromCache, FetcherThread, Receive,
     AllDone, vars, AcceptRequest, RejectRequest, Contains, InitServerThread, Send, SendFails,
     LeaveHandle, ContactServer, ReceiveFails, LeaveFetcher

(* A fetcher touches neither the mutex nor the listeners of a node.  Of    *)
(* the condition variable it knows only how to wake everybody.             *)
SparesLocks(n, m) ==
    /\ n \in Node /\ m \in Node
    /\ m.mutex = n.mutex
    /\ m.anyDataCondVar \in {n.anyDataCondVar, {}}
    /\ m.condVarDestroyed = n.condVarDestroyed
    /\ m.listenersCount = n.listenersCount
    /\ n.nodeReady => m.nodeReady

LEMMA FetcherStep ==
    ASSUME TypeInv, NEW f \in Clients, FetcherThread(f)
    PROVE  /\ UNCHANGED clientVars
           /\ DOMAIN cache' = DOMAIN cache
           /\ \A u \in DOMAIN cache : SparesLocks(cache[u], cache'[u])
<1>1. UNCHANGED clientVars
  BY DEF FetcherThread, ContactServer, Receive, ReceiveData, ReceiveEnd, ReceiveFails,
     BroadcastData, FinishNode, FinalBroadcast, FailNode, AddErrorText, BroadcastError,
     LeaveFetcher
<1>2. \A u \in DOMAIN cache : cache[u] \in Node /\ SparesLocks(cache[u], cache[u])
  BY DEF TypeInv, TypeOK, SparesLocks
<1>3. CASE UNCHANGED cache
  BY <1>1, <1>2, <1>3
<1>4. ASSUME NEW n, NodeBecomes(f, n), SparesLocks(NodeOf(f), n)
      PROVE  DOMAIN cache' = DOMAIN cache
             /\ \A u \in DOMAIN cache : SparesLocks(cache[u], cache'[u])
  BY <1>2, <1>4 DEF NodeBecomes, NodeOf
<1>5. CASE ReceiveData(f) \/ ReceiveEnd(f) \/ AddErrorText(f)
  <2>1. PICK d \in Seq(Items) : NodeBecomes(f, AddData(NodeOf(f), d))
    BY <1>5, FetcherStores
  <2>2. NodeOf(f) \in Node
    BY <2>1 DEF NodeBecomes
  <2>3. SparesLocks(NodeOf(f), AddData(NodeOf(f), d))
    BY <2>2, AddDataFields DEF SparesLocks
  <2>4. QED
    BY <1>1, <1>4, <2>1, <2>3
<1>6. CASE FinishNode(f) \/ FailNode(f)
  <2>1. NodeBecomes(f, SetReady(NodeOf(f)))
    BY <1>6, FetcherCalls
  <2>2. SparesLocks(NodeOf(f), SetReady(NodeOf(f)))
    BY <2>1, SetReadyFields DEF SparesLocks, NodeBecomes
  <2>3. QED
    BY <1>1, <1>4, <2>1, <2>2
<1>7. CASE BroadcastData(f) \/ FinalBroadcast(f) \/ BroadcastError(f)
  <2>1. NodeBecomes(f, Broadcast(NodeOf(f)))
    BY <1>7, FetcherCalls
  <2>2. SparesLocks(NodeOf(f), Broadcast(NodeOf(f)))
    BY <2>1, BroadcastFields DEF SparesLocks, NodeBecomes
  <2>3. QED
    BY <1>1, <1>4, <2>1, <2>2
<1>8. QED
  BY <1>3, <1>5, <1>6, <1>7 DEF FetcherThread, Receive, ContactServer, ReceiveFails,
     LeaveFetcher

(* A step leaves alone the variables of every client and every fetcher     *)
(* that does not take it.                                                  *)
LEMMA OtherClients ==
    ASSUME TypeOK, [Next]_vars, NEW d \in Clients, ~ClientThread(d)
    PROVE  /\ pc'[d] = pc[d]
           /\ url'[d] = url[d]
           /\ offset'[d] = offset[d]
           /\ size'[d] = size[d]
           /\ cacheNodeReady'[d] = cacheNodeReady[d]
           /\ sent'[d] = sent[d]
<1>1. ASSUME NEW c \in Clients, c # d, ClientThread(c)
      PROVE  /\ pc'[d] = pc[d]
             /\ url'[d] = url[d]
             /\ offset'[d] = offset[d]
             /\ size'[d] = size[d]
             /\ cacheNodeReady'[d] = cacheNodeReady[d]
             /\ sent'[d] = sent[d]
  BY <1>1 DEF TypeOK, ClientThread, AcceptRequest, RejectRequest, Contains, AddCacheNode,
              InitServerThread, SendDataFromCache, StartListening, TakeMutex, SeeData,
              SeeReady, WaitForData, Send, SendFails, StopListening, LeaveHandle, Goto
<1>2. CASE UNCHANGED clientVars
  BY <1>2 DEF clientVars
<1>3. QED
  BY <1>1, <1>2 DEF Next, vars, AllDone, SpuriousWakeup, FetcherThread, ContactServer, Receive,
     ReceiveData, ReceiveEnd, ReceiveFails, BroadcastData, FinishNode, FinalBroadcast, FailNode,
     AddErrorText, BroadcastError, LeaveFetcher

LEMMA OtherFetchers ==
    ASSUME TypeOK, [Next]_vars, NEW g \in Clients, ~FetcherThread(g)
    PROVE  /\ fetched'[g] = fetched[g]
           /\ ~InitServerThread(g) => fpc'[g] = fpc[g]
<1>1. ASSUME NEW f \in Clients, f # g, FetcherThread(f)
      PROVE  fpc'[g] = fpc[g] /\ fetched'[g] = fetched[g]
  BY <1>1 DEF TypeOK, FetcherThread, ContactServer, Receive, ReceiveData, ReceiveEnd,
     ReceiveFails, BroadcastData, FinishNode, FinalBroadcast, FailNode, AddErrorText,
     BroadcastError, LeaveFetcher, FetcherGoto
<1>2. ASSUME NEW c \in Clients, InitServerThread(c)
      PROVE  fetched'[g] = fetched[g] /\ (c # g => fpc'[g] = fpc[g])
  BY <1>2 DEF TypeOK, InitServerThread
<1>3. CASE UNCHANGED fetcherVars
  BY <1>3 DEF fetcherVars
<1>4. QED
  BY <1>1, <1>2, <1>3 DEF Next, vars, AllDone, SpuriousWakeup, ClientThread, AcceptRequest,
     RejectRequest, Contains, AddCacheNode, SendDataFromCache, StartListening, TakeMutex,
     SeeData, SeeReady, WaitForData, Send, SendFails, StopListening, LeaveHandle

(* Nodes come from addCacheNode only, and come empty. *)
LEMMA NodesAreAdded ==
    ASSUME TypeInv, [Next]_vars, NEW u \in DOMAIN cache' \ DOMAIN cache
    PROVE  /\ \E c \in Clients : AddCacheNode(c)
           /\ cache'[u] = NewNode
<1>1. (\A c \in Clients : ~AddCacheNode(c)) => DOMAIN cache' = DOMAIN cache
  BY ClientCalls, FetcherStep DEF NodeBecomes, Next, ClientThread, SendDataFromCache,
     AllDone, vars, AcceptRequest, RejectRequest, Contains, InitServerThread, Send,
     SendFails, LeaveHandle
<1>2. PICK c \in Clients : AddCacheNode(c)
  BY <1>1
<1>3. cache'[u] = NewNode
  BY <1>2 DEF AddCacheNode, Emplace
<1>4. QED
  BY <1>2, <1>3

LEMMA WithinDataStep == TypeInv /\ [Next]_vars => WithinData'
<1> SUFFICES ASSUME TypeInv, [Next]_vars, NEW c \in Clients
             PROVE  /\ pc'[c] \in Listening => offset'[c] <= Len(cache'[url'[c]].data)
                    /\ pc'[c] = "send" => /\ offset'[c] <= size'[c]
                                          /\ size'[c] <= Len(cache'[url'[c]].data)
  BY DEF WithinData, NodeOf
<1> DEFINE len == Len(cache[url[c]].data)
           nextLen == Len(cache'[url[c]].data)
<1>1. pc[c] \in Attached => len \in Nat /\ nextLen \in Nat /\ len <= nextLen
  BY CacheStep, NodeFields DEF CacheGrows, Extends, TypeInv, TypeOK, HasNode
<1>2. /\ pc[c] \in Listening => offset[c] <= len
      /\ pc[c] = "send" => offset[c] <= size[c] /\ size[c] <= len
      /\ pc[c] = "getCacheNode" => offset[c] = 0
      /\ offset[c] \in Nat /\ size[c] \in Nat
  BY DEF TypeInv, TypeOK, WithinData, InOrder, NodeOf, Listening, Leaving
<1> HIDE DEF len, nextLen
<1> USE DEF Attached, Listening
<1>3. CASE ~ClientThread(c)
  BY <1>1, <1>2, <1>3, OtherClients DEF TypeInv, nextLen
<1>4. CASE StartListening(c) \/ TakeMutex(c)
  BY <1>1, <1>2, <1>4 DEF StartListening, TakeMutex, TypeInv, TypeOK, Goto, nextLen
<1>5. CASE SeeData(c) \/ SeeReady(c) \/ WaitForData(c)
  BY <1>1, <1>2, <1>5 DEF SeeData, SeeReady, WaitForData, TypeInv, TypeOK, Goto, NodeOf, len,
                          nextLen
<1>6. CASE Send(c)
  BY <1>1, <1>2, <1>6 DEF Send, SendCounts, TypeInv, TypeOK, Goto, nextLen
<1>7. CASE SendFails(c)
  BY <1>1, <1>2, <1>7 DEF SendFails, TypeInv, TypeOK, Goto, nextLen
<1>8. CASE pc'[c] \notin Listening
  BY <1>8
<1>9. (\E u \in Urls : AcceptRequest(c, u)) \/ RejectRequest(c) \/ Contains(c) \/ AddCacheNode(c)
        \/ InitServerThread(c) \/ StopListening(c) \/ LeaveHandle(c) => pc'[c] \notin Listening
  BY DEF AcceptRequest, RejectRequest, Contains, AddCacheNode, InitServerThread,
         StopListening, LeaveHandle, TypeInv, TypeOK, Goto
<1>10. QED
  BY <1>3, <1>4, <1>5, <1>6, <1>7, <1>8, <1>9 DEF ClientThread, SendDataFromCache

LEMMA TypeInvStep == TypeInv /\ [Next]_vars => TypeInv'
<1> SUFFICES ASSUME TypeInv, [Next]_vars
             PROVE  (TypeOK /\ HasNode /\ InOrder)'
  BY WithinDataStep DEF TypeInv
<1>0. /\ DOMAIN cache \subseteq DOMAIN cache' /\ DOMAIN cache' \subseteq Urls
      /\ cache' \in [DOMAIN cache' -> Node]
  BY CacheStep DEF CacheGrows
<1> USE DEF TypeInv, TypeOK, HasNode, InOrder, NotYetFetching, Leaving, ClientPC,
            Attached, Listening, FetcherPC, Fetching, Published, Goto, FetcherGoto,
            clientVars, fetcherVars
<1>1. ASSUME NEW c \in Clients, NEW u \in Urls, AcceptRequest(c, u)
      PROVE  (TypeOK /\ HasNode /\ InOrder)'
  BY <1>0, <1>1, UrlAssumption DEF AcceptRequest
<1>2. ASSUME NEW c \in Clients, RejectRequest(c)
      PROVE  (TypeOK /\ HasNode /\ InOrder)'
  BY <1>0, <1>2 DEF RejectRequest
<1>3. ASSUME NEW c \in Clients, Contains(c)
      PROVE  (TypeOK /\ HasNode /\ InOrder)'
  BY <1>0, <1>3 DEF Contains
<1>4. ASSUME NEW c \in Clients, AddCacheNode(c)
      PROVE  (TypeOK /\ HasNode /\ InOrder)'
  BY <1>0, <1>4 DEF AddCacheNode, Emplace
<1>5. ASSUME NEW c \in Clients, InitServerThread(c)
      PROVE  (TypeOK /\ HasNode /\ InOrder)'
  BY <1>0, <1>5 DEF InitServerThread
<1>6. ASSUME NEW c \in Clients, StartListening(c)
      PROVE  (TypeOK /\ HasNode /\ InOrder)'
  BY <1>0, <1>6 DEF StartListening
<1>7. ASSUME NEW c \in Clients, TakeMutex(c)
      PROVE  (TypeOK /\ HasNode /\ InOrder)'
  BY <1>0, <1>7 DEF TakeMutex
<1>8. ASSUME NEW c \in Clients, SpuriousWakeup(c)
      PROVE  (TypeOK /\ HasNode /\ InOrder)'
  BY <1>0, <1>8 DEF SpuriousWakeup
<1>9. ASSUME NEW c \in Clients, SeeData(c)
      PROVE  (TypeOK /\ HasNode /\ InOrder)'
  BY <1>0, <1>9, NodeFields, NodeOfType DEF SeeData
<1>10. ASSUME NEW c \in Clients, SeeReady(c)
      PROVE  (TypeOK /\ HasNode /\ InOrder)'
  BY <1>0, <1>10, NodeFields, NodeOfType DEF SeeReady
<1>11. ASSUME NEW c \in Clients, WaitForData(c)
      PROVE  (TypeOK /\ HasNode /\ InOrder)'
  BY <1>0, <1>11, NodeFields, NodeOfType DEF WaitForData
<1>12. ASSUME NEW c \in Clients, Send(c)
      PROVE  (TypeOK /\ HasNode /\ InOrder)'
  <2>1. PICK k \in SendCounts(size[c] - offset[c]) :
           /\ sent' = [sent EXCEPT ![c] = @ \o GetData(NodeOf(c), offset[c], k)]
           /\ offset' = [offset EXCEPT ![c] = @ + k]
    BY <1>12 DEF Send
  <2>2. k \in Nat /\ offset[c] + k <= Len(NodeOf(c).data)
    BY <1>12, NodeFields, NodeOfType DEF Send, SendCounts, WithinData
  <2>3. NodeOf(c).data \in Seq(Items)
    BY <1>12, NodeFields, NodeOfType DEF Send
  <2>4. GetData(NodeOf(c), offset[c], k) \in Seq(Items)
    <3>1. \A i \in offset[c] + 1 .. offset[c] + k : NodeOf(c).data[i] \in Items
      BY <2>2, <2>3
    <3>2. QED
      BY <3>1, <2>2, SubSeqProperties DEF GetData
  <2>5. sent[c] \o GetData(NodeOf(c), offset[c], k) \in Seq(Items)
    BY <2>4, ConcatProperties
  <2>6. sent' \in [Clients -> Seq(Items)]
    BY <2>1, <2>5
  <2>7. QED
    BY <1>0, <1>12, <2>1, <2>2, <2>6 DEF Send
<1>13. ASSUME NEW c \in Clients, SendFails(c)
      PROVE  (TypeOK /\ HasNode /\ InOrder)'
  BY <1>0, <1>13 DEF SendFails
<1>14. ASSUME NEW c \in Clients, StopListening(c)
      PROVE  (TypeOK /\ HasNode /\ InOrder)'
  BY <1>0, <1>14 DEF StopListening
<1>15. ASSUME NEW c \in Clients, LeaveHandle(c)
      PROVE  (TypeOK /\ HasNode /\ InOrder)'
  BY <1>0, <1>15 DEF LeaveHandle
<1>16. ASSUME NEW f \in Clients, ContactServer(f)
      PROVE  (TypeOK /\ HasNode /\ InOrder)'
  BY <1>0, <1>16 DEF ContactServer
<1>17. ASSUME NEW f \in Clients, ReceiveData(f)
      PROVE  (TypeOK /\ HasNode /\ InOrder)'
  BY <1>0, <1>17, NodeAssumption DEF ReceiveData
<1>18. ASSUME NEW f \in Clients, ReceiveEnd(f)
      PROVE  (TypeOK /\ HasNode /\ InOrder)'
  BY <1>0, <1>18 DEF ReceiveEnd
<1>19. ASSUME NEW f \in Clients, ReceiveFails(f)
      PROVE  (TypeOK /\ HasNode /\ InOrder)'
  BY <1>0, <1>19 DEF ReceiveFails
<1>20. ASSUME NEW f \in Clients, BroadcastData(f)
      PROVE  (TypeOK /\ HasNode /\ InOrder)'
  <2>1. CASE fpc[f] = "broadcast"
    BY <1>0, <1>20, <2>1 DEF BroadcastData
  <2>2. CASE fpc[f] = "lastBroadcast"
    BY <1>0, <1>20, <2>2 DEF BroadcastData
  <2>3. QED
    BY <1>20, <2>1, <2>2 DEF BroadcastData
<1>21. ASSUME NEW f \in Clients, FinishNode(f)
      PROVE  (TypeOK /\ HasNode /\ InOrder)'
  BY <1>0, <1>21 DEF FinishNode
<1>22. ASSUME NEW f \in Clients, FinalBroadcast(f)
      PROVE  (TypeOK /\ HasNode /\ InOrder)'
  BY <1>0, <1>22 DEF FinalBroadcast
<1>23. ASSUME NEW f \in Clients, FailNode(f)
      PROVE  (TypeOK /\ HasNode /\ InOrder)'
  BY <1>0, <1>23 DEF FailNode
<1>24. ASSUME NEW f \in Clients, AddErrorText(f)
      PROVE  (TypeOK /\ HasNode /\ InOrder)'
  BY <1>0, <1>24 DEF AddErrorText
<1>25. ASSUME NEW f \in Clients, BroadcastError(f)
      PROVE  (TypeOK /\ HasNode /\ InOrder)'
  BY <1>0, <1>25 DEF BroadcastError
<1>26. ASSUME NEW f \in Clients, LeaveFetcher(f)
      PROVE  (TypeOK /\ HasNode /\ InOrder)'
  BY <1>0, <1>26 DEF LeaveFetcher
<1>27. CASE UNCHANGED vars
  BY <1>27 DEF vars, clientVars, fetcherVars
<1>28. QED
  BY <1>1, <1>2, <1>3, <1>4, <1>5, <1>6, <1>7, <1>8, <1>9, <1>10, <1>11, <1>12, <1>13, <1>14, <1>15,
     <1>16, <1>17, <1>18, <1>19, <1>20, <1>21, <1>22, <1>23, <1>24, <1>25, <1>26, <1>27
     DEF Next, ClientThread, SendDataFromCache, FetcherThread, Receive, AllDone

(* Every variable keeps its type: in particular no client is sent anything *)
(* from beyond the end of its node's data.                                 *)
THEOREM TypeCorrect == Spec => []TypeOK
<1>1. TypeInv => TypeOK
  BY DEF TypeInv
<1>2. QED
  BY <1>1, TypeInvInit, TypeInvStep, PTL DEF Spec
-----------------------------------------------------------------------------
(***************************************************************************)
(* The monitor: who holds the mutex, and who is on the condition variable. *)
(***************************************************************************)

LEMMA MonitorInit == Init => MonitorOK
BY DEF Init, MonitorOK

LEMMA MonitorStep == TypeInv /\ MonitorOK /\ [Next]_vars => MonitorOK'
<1> SUFFICES ASSUME TypeInv, MonitorOK, [Next]_vars
             PROVE  MonitorOK'
  OBVIOUS
<1>0. /\ pc \in [Clients -> ClientPC] /\ url \in [Clients -> Urls \cup {NoUrl}]
      /\ \A u \in DOMAIN cache : cache[u] \in Node /\ cache[u].anyDataCondVar \subseteq Clients
      /\ Unlocked \notin Clients
  BY NodeAssumption, NodeFields DEF TypeInv, TypeOK
<1>1. \A c \in Clients : /\ pc[c] = "handleClientRequest" => url[c] = NoUrl
                         /\ pc[c] = "addCacheNode" => url[c] \in Urls
  BY DEF TypeInv, InOrder
<1> USE DEF MonitorOK, Goto, clientVars
<1>2. ASSUME NEW c \in Clients, NEW u \in Urls, AcceptRequest(c, u)
      PROVE  MonitorOK'
  BY <1>0, <1>1, <1>2 DEF AcceptRequest
<1>3. ASSUME NEW c \in Clients, \/ RejectRequest(c) \/ Contains(c) \/ InitServerThread(c)
                                \/ Send(c) \/ SendFails(c) \/ LeaveHandle(c)
      PROVE  MonitorOK'
  <2>1. UNCHANGED <<cache, url>>
    BY <1>3 DEF RejectRequest, Contains, InitServerThread, Send, SendFails, LeaveHandle
  <2>2. /\ pc[c] \notin {"check", "condWait"}
        /\ \E next \in ClientPC \ {"check", "condWait"} : pc' = [pc EXCEPT ![c] = next]
    BY <1>3 DEF RejectRequest, Contains, InitServerThread, Send, SendFails, LeaveHandle,
                ClientPC, Attached, Listening
  <2>3. \A d \in Clients : /\ pc'[d] = "check" <=> pc[d] = "check"
                           /\ pc'[d] = "condWait" <=> pc[d] = "condWait"
    BY <1>0, <2>2
  <2>4. QED
    BY <1>0, <2>1, <2>3
<1>4. ASSUME NEW c \in Clients, AddCacheNode(c)
      PROVE  MonitorOK'
  <2>1. \A d \in Clients : /\ pc'[d] = "check" <=> pc[d] = "check"
                           /\ pc'[d] = "condWait" <=> pc[d] = "condWait"
                           /\ pc[d] = "check" => url[d] \in DOMAIN cache
    BY <1>0, <1>4 DEF AddCacheNode, TypeInv, HasNode, Attached, Listening
  <2>2. \A u \in DOMAIN cache' :
           IF u \in DOMAIN cache THEN cache'[u] = cache[u] ELSE cache'[u] = NewNode
    BY <1>4 DEF AddCacheNode, Emplace
  <2>3. QED
    BY <1>0, <1>4, <2>1, <2>2, NewNodeFields DEF AddCacheNode
<1>5. ASSUME NEW c \in Clients, StartListening(c) \/ StopListening(c)
      PROVE  MonitorOK'
  <2>1. \A d \in Clients : /\ pc'[d] = "check" <=> pc[d] = "check"
                           /\ pc'[d] = "condWait" <=> pc[d] = "condWait"
    BY <1>0, <1>5 DEF StartListening, StopListening
  <2>2. /\ UNCHANGED url /\ DOMAIN cache' = DOMAIN cache
        /\ \A u \in DOMAIN cache : /\ cache'[u].mutex = cache[u].mutex
                                   /\ cache'[u].anyDataCondVar = cache[u].anyDataCondVar
    <3>1. CASE StartListening(c)
      <4>1. NodeBecomes(c, AddListener(NodeOf(c)))
        BY <3>1, ClientCalls
      <4>2. /\ AddListener(NodeOf(c)).mutex = cache[url[c]].mutex
            /\ AddListener(NodeOf(c)).anyDataCondVar = cache[url[c]].anyDataCondVar
        BY <4>1, AddListenerFields DEF NodeBecomes, NodeOf
      <4>3. QED
        BY <3>1, <4>1, <4>2 DEF StartListening, NodeBecomes
    <3>2. CASE StopListening(c)
      <4>1. NodeBecomes(c, RemoveListener(NodeOf(c)))
        BY <3>2, ClientCalls
      <4>2. /\ RemoveListener(NodeOf(c)).mutex = cache[url[c]].mutex
            /\ RemoveListener(NodeOf(c)).anyDataCondVar = cache[url[c]].anyDataCondVar
        BY <4>1, RemoveListenerFields DEF NodeBecomes, NodeOf
      <4>3. QED
        BY <3>2, <4>1, <4>2 DEF StopListening, NodeBecomes
    <3>3. QED
      BY <1>5, <3>1, <3>2
  <2>3. QED
    BY <1>0, <2>1, <2>2
<1>6. ASSUME NEW c \in Clients, TakeMutex(c)
      PROVE  MonitorOK'
  BY <1>0, <1>6, ClientCalls, LockFields DEF TakeMutex, NodeBecomes, NodeOf, IsFree
<1>7. ASSUME NEW c \in Clients, SpuriousWakeup(c)
      PROVE  MonitorOK'
  BY <1>0, <1>7, ClientCalls, WakeSpuriouslyFields DEF SpuriousWakeup, NodeBecomes, NodeOf
<1>8. ASSUME NEW c \in Clients, SeeData(c)
      PROVE  MonitorOK'
  BY <1>0, <1>8, ClientCalls, UnlockFields DEF SeeData, NodeBecomes, NodeOf
<1>9. ASSUME NEW c \in Clients, SeeReady(c)
      PROVE  MonitorOK'
  BY <1>0, <1>9, ClientCalls, UnlockFields DEF SeeReady, NodeBecomes, NodeOf
<1>10. ASSUME NEW c \in Clients, WaitForData(c)
      PROVE  MonitorOK'
  BY <1>0, <1>10, ClientCalls, WaitFields DEF WaitForData, NodeBecomes, NodeOf
<1>11. ASSUME NEW f \in Clients, FetcherThread(f)
      PROVE  MonitorOK'
  BY <1>0, <1>11, FetcherStep DEF SparesLocks
<1>12. CASE UNCHANGED vars
  BY <1>12 DEF vars
<1>13. QED
  BY <1>2, <1>3, <1>4, <1>5, <1>6, <1>7, <1>8, <1>9, <1>10, <1>11, <1>12
     DEF Next, ClientThread, SendDataFromCache, AllDone

(* The critical section of the wait loop excludes every other thread, and  *)
(* nobody but a client in pthread_cond_wait is on the condition variable.  *)
THEOREM MonitorSafe == Spec => []MonitorOK
BY TypeInvInit, TypeInvStep, MonitorInit, MonitorStep, PTL DEF Spec
-----------------------------------------------------------------------------
(***************************************************************************)
(* The listeners, and the destruction of the condition variable.  The last *)
(* listener of a ready node destroys it; that nobody waits then follows    *)
(* from the count being right, that nobody waits later from the node being *)
(* ready.                                                                  *)
(***************************************************************************)

LEMMA ListenersFinite == \A u : IsFiniteSet(Listeners(u))
BY NodeAssumption, FS_Subset DEF Listeners

(* A step of a client that neither starts nor stops listening. *)
LEMMA SameListeners ==
    ASSUME TypeInv, [Next]_vars, ~(\E c \in Clients : StartListening(c) \/ StopListening(c))
    PROVE  /\ \A u \in Urls : Listeners(u)' = Listeners(u)
           /\ \A u \in DOMAIN cache :
                  /\ cache'[u].listenersCount = cache[u].listenersCount
                  /\ cache'[u].condVarDestroyed = cache[u].condVarDestroyed
<1> USE DEF Goto
<1>0. pc \in [Clients -> ClientPC] /\ url \in [Clients -> Urls \cup {NoUrl}]
  BY DEF TypeInv, TypeOK
<1>1. SUFFICES /\ \A d \in Clients : /\ pc'[d] \in Listening <=> pc[d] \in Listening
                                     /\ pc[d] \in Listening => url'[d] = url[d]
               /\ \A u \in DOMAIN cache :
                     /\ cache'[u].listenersCount = cache[u].listenersCount
                     /\ cache'[u].condVarDestroyed = cache[u].condVarDestroyed
  BY DEF Listeners
<1> DEFINE Goal == /\ \A d \in Clients : /\ pc'[d] \in Listening <=> pc[d] \in Listening
                                         /\ pc[d] \in Listening => url'[d] = url[d]
                   /\ \A u \in DOMAIN cache :
                         /\ cache'[u].listenersCount = cache[u].listenersCount
                         /\ cache'[u].condVarDestroyed = cache[u].condVarDestroyed
<1>2. ASSUME NEW c \in Clients, NEW u \in Urls, AcceptRequest(c, u)
      PROVE  Goal
  BY <1>0, <1>2 DEF AcceptRequest, Listening
<1>3. ASSUME NEW c \in Clients, \/ RejectRequest(c) \/ Contains(c) \/ InitServerThread(c)
                                \/ Send(c) \/ SendFails(c) \/ LeaveHandle(c)
      PROVE  Goal
  <2>1. UNCHANGED <<cache, url>>
    BY <1>3 DEF RejectRequest, Contains, InitServerThread, Send, SendFails, LeaveHandle
  <2>2. \E next : /\ pc' = [pc EXCEPT ![c] = next]
                  /\ next \in Listening <=> pc[c] \in Listening
    BY <1>3 DEF RejectRequest, Contains, InitServerThread, Send, SendFails, LeaveHandle,
                Listening
  <2>3. QED
    BY <1>0, <2>1, <2>2
<1>4. ASSUME NEW c \in Clients, AddCacheNode(c)
      PROVE  Goal
  BY <1>0, <1>4 DEF AddCacheNode, Emplace, Listening
<1>5. ASSUME NEW c \in Clients, \/ TakeMutex(c) \/ SpuriousWakeup(c) \/ SeeData(c)
                                \/ SeeReady(c) \/ WaitForData(c)
      PROVE  Goal
  <2>1. \E n : /\ NodeBecomes(c, n)
               /\ n.listenersCount = NodeOf(c).listenersCount
               /\ n.condVarDestroyed = NodeOf(c).condVarDestroyed
    <3>1. CASE TakeMutex(c)
      BY <3>1, ClientCalls, LockFields DEF NodeBecomes
    <3>2. CASE SpuriousWakeup(c)
      BY <3>2, ClientCalls, WakeSpuriouslyFields DEF NodeBecomes
    <3>3. CASE SeeData(c) \/ SeeReady(c)
      BY <3>3, ClientCalls, UnlockFields DEF NodeBecomes
    <3>4. CASE WaitForData(c)
      BY <3>4, ClientCalls, WaitFields DEF NodeBecomes
    <3>5. QED
      BY <1>5, <3>1, <3>2, <3>3, <3>4
  <2>2. /\ UNCHANGED url
        /\ pc[c] \in Listening
        /\ UNCHANGED pc \/ \E next \in Listening : pc' = [pc EXCEPT ![c] = next]
    BY <1>5 DEF TakeMutex, SpuriousWakeup, SeeData, SeeReady, WaitForData, Listening, clientVars
  <2>3. QED
    BY <1>0, <2>1, <2>2 DEF NodeBecomes, NodeOf
<1>6. ASSUME NEW f \in Clients, FetcherThread(f)
      PROVE  Goal
  BY <1>6, FetcherStep DEF SparesLocks, clientVars
<1>7. CASE UNCHANGED vars
  BY <1>7 DEF vars, clientVars
<1>8. QED
  BY <1>2, <1>3, <1>4, <1>5, <1>6, <1>7
     DEF Next, ClientThread, SendDataFromCache, AllDone

(* What the two other steps do, to the node and to its listeners alike. *)
LEMMA ListenersChange ==
    ASSUME TypeInv, NEW c \in Clients, StartListening(c) \/ StopListening(c),
           NEW u \in DOMAIN cache
    PROVE  /\ url[c] \in DOMAIN cache /\ DOMAIN cache' = DOMAIN cache
           /\ u # url[c] => cache'[u] = cache[u] /\ Listeners(u)' = Listeners(u)
           /\ u = url[c] /\ StartListening(c) =>
                 /\ cache'[u] = AddListener(NodeOf(c))
                 /\ c \notin Listeners(u)
                 /\ Listeners(u)' = Listeners(u) \cup {c}
           /\ u = url[c] /\ StopListening(c) =>
                 /\ cache'[u] = RemoveListener(NodeOf(c))
                 /\ c \in Listeners(u)
                 /\ Listeners(u)' = Listeners(u) \ {c}
<1>1. StartListening(c) =>
         /\ UNCHANGED url
         /\ pc[c] = "getCacheNode" /\ pc' = [pc EXCEPT ![c] = "lock"]
  BY DEF StartListening, Goto
<1>2. StopListening(c) =>
         /\ UNCHANGED url
         /\ pc[c] \in Listening
         /\ \E next \in Leaving : pc' = [pc EXCEPT ![c] = next]
  BY DEF StopListening, Goto, Leaving, Listening
<1>3. pc \in [Clients -> ClientPC]
  BY DEF TypeInv, TypeOK
<1>4. QED
  BY <1>1, <1>2, <1>3, ClientCalls DEF NodeBecomes, Listeners, Listening, Leaving

LEMMA ListenersInit == Init => ListenersCounted
BY DEF Init, ListenersCounted

LEMMA ListenersStep == TypeInv /\ ListenersCounted /\ [Next]_vars => ListenersCounted'
<1> SUFFICES ASSUME TypeInv, ListenersCounted, [Next]_vars, NEW u \in DOMAIN cache'
             PROVE  cache'[u].listenersCount = Cardinality(Listeners(u)')
  BY DEF ListenersCounted
<1>1. u \in Urls
  BY CacheStep DEF CacheGrows
<1>2. CASE u \notin DOMAIN cache
  <2>1. cache'[u] = NewNode
    BY <1>2, NodesAreAdded
  <2>2. Listeners(u)' = Listeners(u)
    <3>1. ~(\E d \in Clients : StartListening(d) \/ StopListening(d))
      BY <1>2, ClientCalls DEF NodeBecomes
    <3>2. QED
      BY <1>1, <3>1, SameListeners
  <2>3. Listeners(u) = {}
    BY <1>2 DEF Listeners, TypeInv, HasNode, Attached
  <2>4. QED
    BY <2>1, <2>2, <2>3, NewNodeFields, FS_EmptySet
<1>3. CASE u \in DOMAIN cache
  <2>1. cache[u].listenersCount = Cardinality(Listeners(u))
    BY <1>3 DEF ListenersCounted
  <2>2. CASE ~(\E c \in Clients : StartListening(c) \/ StopListening(c))
    BY <1>1, <1>3, <2>1, <2>2, SameListeners
  <2>3. ASSUME NEW c \in Clients, StartListening(c) \/ StopListening(c), u # url[c]
        PROVE  cache'[u].listenersCount = Cardinality(Listeners(u)')
    BY <1>3, <2>1, <2>3, ListenersChange
  <2>4. ASSUME NEW c \in Clients, StartListening(c), u = url[c]
        PROVE  cache'[u].listenersCount = Cardinality(Listeners(u)')
    <3>1. cache'[u].listenersCount = cache[u].listenersCount + 1
      BY <2>4, ListenersChange, ClientCalls, AddListenerFields DEF NodeBecomes, NodeOf
    <3>2. Cardinality(Listeners(u)') = Cardinality(Listeners(u)) + 1
      <4>1. Listeners(u)' = Listeners(u) \cup {c} /\ c \notin Listeners(u)
        BY <1>3, <2>4, ListenersChange
      <4>2. Cardinality(Listeners(u) \cup {c}) = Cardinality(Listeners(u)) + 1
        BY <4>1, ListenersFinite, FS_AddElement
      <4>3. QED
        BY <4>1, <4>2
    <3>3. QED
      BY <2>1, <3>1, <3>2
  <2>5. ASSUME NEW c \in Clients, StopListening(c), u = url[c]
        PROVE  cache'[u].listenersCount = Cardinality(Listeners(u)')
    <3>1. cache'[u].listenersCount = cache[u].listenersCount - 1
      BY <2>5, ListenersChange, ClientCalls, RemoveListenerFields DEF NodeBecomes, NodeOf
    <3>2. Cardinality(Listeners(u)') = Cardinality(Listeners(u)) - 1
      <4>1. Listeners(u)' = Listeners(u) \ {c} /\ c \in Listeners(u)
        BY <1>3, <2>5, ListenersChange
      <4>2. Cardinality(Listeners(u) \ {c}) = Cardinality(Listeners(u)) - 1
        BY <4>1, ListenersFinite, FS_RemoveElement
      <4>3. QED
        BY <4>1, <4>2
    <3>3. QED
      BY <2>1, <3>1, <3>2
  <2>6. QED
    BY <2>2, <2>3, <2>4, <2>5
<1>4. QED
  BY <1>2, <1>3

(* The number the destruction of the condition variable depends on is the  *)
(* number of clients that may use it.                                      *)
THEOREM ListenersRight == Spec => []ListenersCounted
BY TypeInvInit, TypeInvStep, ListenersInit, ListenersStep, PTL DEF Spec

LEMMA DestroyedInit == Init => NoWaitOnDestroyed
BY DEF Init, NoWaitOnDestroyed

LEMMA DestroyedStep ==
    TypeInv /\ ListenersCounted /\ NoWaitOnDestroyed /\ [Next]_vars => NoWaitOnDestroyed'
<1> SUFFICES ASSUME TypeInv, ListenersCounted, NoWaitOnDestroyed, [Next]_vars,
                    NEW u \in DOMAIN cache', cache'[u].condVarDestroyed
             PROVE  /\ cache'[u].nodeReady
                    /\ \A d \in Clients : url'[d] = u => pc'[d] # "condWait"
  BY DEF NoWaitOnDestroyed
<1>1. u \in DOMAIN cache
  BY NodesAreAdded, NewNodeFields
<1>2. cache[u] \in Node /\ u \in Urls
  BY <1>1 DEF TypeInv, TypeOK
<1>3. cache[u].nodeReady => cache'[u].nodeReady
  BY <1>1, CacheStep DEF CacheGrows
<1>4. CASE cache[u].condVarDestroyed
  <2>1. cache[u].nodeReady /\ \A d \in Clients : url[d] = u => pc[d] # "condWait"
    BY <1>1, <1>4 DEF NoWaitOnDestroyed
  <2>2. ASSUME NEW d \in Clients, url'[d] = u, pc'[d] = "condWait"
        PROVE  FALSE
    <3>1. CASE ~ClientThread(d)
      BY <2>1, <2>2, <3>1, OtherClients DEF TypeInv
    <3>2. CASE WaitForData(d)
      BY <2>1, <2>2, <3>2 DEF WaitForData, NodeOf
    <3>3. ClientThread(d) => WaitForData(d)
      BY <2>2 DEF ClientThread, AcceptRequest, RejectRequest, Contains, AddCacheNode,
         InitServerThread, SendDataFromCache, StartListening, TakeMutex, SeeData, SeeReady,
         Send, SendFails, StopListening, LeaveHandle, Goto, TypeInv, TypeOK
    <3>4. QED
      BY <3>1, <3>2, <3>3
  <2>3. QED
    BY <1>3, <2>1, <2>2
<1>5. CASE ~cache[u].condVarDestroyed
  <2>1. PICK c \in Clients : StopListening(c)
    <3>1. ~(\E c \in Clients : StopListening(c)) => cache'[u].condVarDestroyed = cache[u].condVarDestroyed
      <4>1. ASSUME NEW c \in Clients, StartListening(c)
            PROVE  cache'[u].condVarDestroyed = cache[u].condVarDestroyed
        <5>1. NodeBecomes(c, AddListener(NodeOf(c)))
          BY <4>1, ClientCalls
        <5>2. AddListener(NodeOf(c)).condVarDestroyed = NodeOf(c).condVarDestroyed
          BY <5>1, AddListenerFields DEF NodeBecomes
        <5>3. QED
          BY <1>1, <5>1, <5>2 DEF NodeBecomes, NodeOf
      <4>2. QED
        BY <1>1, <4>1, SameListeners
    <3>2. QED
      BY <1>5, <3>1
  <2>2. u = url[c] /\ cache'[u] = RemoveListener(NodeOf(c))
    BY <1>1, <1>5, <2>1, ListenersChange
  <2>3. cache[u].listenersCount = 1 /\ cache[u].nodeReady
    <3>1. RemoveListener(cache[u]).condVarDestroyed =
             (cache[u].condVarDestroyed \/ (cache[u].listenersCount = 1 /\ cache[u].nodeReady))
      BY <1>2, RemoveListenerFields
    <3>2. RemoveListener(cache[u]).condVarDestroyed
      BY <2>2 DEF NodeOf
    <3>3. QED
      BY <1>5, <3>1, <3>2, Zenon
  <2>4. Listeners(u)' = Listeners(u) \ {c} /\ c \in Listeners(u)
    BY <1>1, <2>1, <2>2, ListenersChange
  <2>5. Cardinality(Listeners(u)) = 1
    BY <1>1, <2>3 DEF ListenersCounted
  <2>6. Listeners(u) \ {c} = {}
    <3>1. /\ IsFiniteSet(Listeners(u) \ {c})
          /\ Cardinality(Listeners(u) \ {c}) = Cardinality(Listeners(u)) - 1
      BY <2>4, ListenersFinite, FS_RemoveElement
    <3>2. QED
      BY <2>5, <3>1, FS_EmptySet
  <2>7. \A d \in Clients : url'[d] = u => pc'[d] \notin Listening
    BY <2>4, <2>6 DEF Listeners
  <2>8. QED
    BY <1>3, <2>3, <2>7 DEF Listening
<1>6. QED
  BY <1>2, <1>4, <1>5, NodeFields

(* Once the condition variable is destroyed nobody is in, or gets into,    *)
(* pthread_cond_wait on it.                                                *)
THEOREM DestroyedUnused == Spec => []NoWaitOnDestroyed
BY TypeInvInit, TypeInvStep, ListenersInit, ListenersStep, DestroyedInit, DestroyedStep,
   PTL DEF Spec
=============================================================================
