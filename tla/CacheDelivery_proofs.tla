------------------------- MODULE CacheDelivery_proofs -------------------------
(***************************************************************************)
(* What holds of the data in CacheStream for any number of clients, URLs   *)
(* and chunks: what a client was sent is the beginning of what its node    *)
(* holds, what a node holds is what was fetched, a client that takes its   *)
(* response for complete has all of it, and the whole is a SharedLog.      *)
(***************************************************************************)
EXTENDS CacheStream_proofs
-----------------------------------------------------------------------------
(* Every step of every thread leaves what is stored alone. *)
THEOREM CacheOnlyGrowing == Spec => CacheOnlyGrows
<1> DEFINE Growing == \A u \in DOMAIN cache :
                         /\ u \in DOMAIN cache'
                         /\ Len(cache[u].data) <= Len(cache'[u].data)
                         /\ SubSeq(cache'[u].data, 1, Len(cache[u].data)) = cache[u].data
                         /\ cache[u].nodeReady => cache'[u].nodeReady
<1>1. ASSUME TypeInv, [Next]_vars
      PROVE  Growing
  <2>1. CacheGrows
    BY <1>1, CacheStep
  <2>2. ASSUME NEW s \in Seq(Items), NEW t \in Seq(Items), Extends(s, t)
        PROVE  SubSeq(t, 1, Len(s)) = s
    <3>1. Len(s) \in Nat /\ Len(s) <= Len(t)
      BY <2>2 DEF Extends
    <3>2. \A i \in 1 .. Len(s) : t[i] \in Items
      BY <3>1
    <3>3. /\ SubSeq(t, 1, Len(s)) \in Seq(Items)
          /\ Len(SubSeq(t, 1, Len(s))) = Len(s)
          /\ \A i \in 1 .. Len(s) : SubSeq(t, 1, Len(s))[i] = t[i]
      BY <3>1, <3>2, SubSeqProperties
    <3>4. QED
      BY <2>2, <3>3, SeqEqual DEF Extends
  <2>3. \A u \in DOMAIN cache : /\ u \in DOMAIN cache'
                                /\ cache[u].data \in Seq(Items)
                                /\ cache'[u].data \in Seq(Items)
    BY <1>1, <2>1, NodeFields DEF CacheGrows, TypeInv, TypeOK
  <2>4. QED
    BY <2>1, <2>2, <2>3 DEF CacheGrows, Extends
<1>2. TypeInv /\ [Next]_vars => [Growing]_vars
  BY <1>1
<1>3. QED
  BY <1>2, TypeInvInit, TypeInvStep, PTL DEF Spec, CacheOnlyGrows
-----------------------------------------------------------------------------
(* What a client was sent.                                                 *)

LEMMA PrefixStays ==
    ASSUME NEW s \in Seq(Items), NEW t \in Seq(Items), Extends(s, t),
           NEW n \in Nat, n <= Len(s)
    PROVE  n <= Len(t) /\ SubSeq(t, 1, n) = SubSeq(s, 1, n)
<1>1. Len(s) \in Nat /\ Len(t) \in Nat /\ Len(s) <= Len(t)
  BY DEF Extends
<1>2. (\A i \in 1 .. n : s[i] \in Items) /\ (\A i \in 1 .. n : t[i] \in Items)
  BY <1>1
<1>3. /\ SubSeq(s, 1, n) \in Seq(Items) /\ Len(SubSeq(s, 1, n)) = n
      /\ \A i \in 1 .. n : SubSeq(s, 1, n)[i] = s[i]
  BY <1>2, SubSeqProperties
<1>4. /\ SubSeq(t, 1, n) \in Seq(Items) /\ Len(SubSeq(t, 1, n)) = n
      /\ \A i \in 1 .. n : SubSeq(t, 1, n)[i] = t[i]
  BY <1>2, SubSeqProperties
<1>5. \A i \in 1 .. n : SubSeq(t, 1, n)[i] = SubSeq(s, 1, n)[i]
  BY <1>1, <1>3, <1>4 DEF Extends
<1>6. SubSeq(t, 1, n) = SubSeq(s, 1, n)
  BY <1>3, <1>4, <1>5, SeqEqual
<1>7. QED
  BY <1>1, <1>6

LEMMA PrefixInit == Init => SentIsPrefix
BY DEF Init, SentIsPrefix, Listening

LEMMA PrefixStep == TypeInv /\ SentIsPrefix /\ [Next]_vars => SentIsPrefix'
<1> SUFFICES ASSUME TypeInv, SentIsPrefix, [Next]_vars, NEW c \in Clients, pc'[c] \in Listening
             PROVE  /\ offset'[c] <= Len(cache'[url'[c]].data)
                    /\ sent'[c] = SubSeq(cache'[url'[c]].data, 1, offset'[c])
  BY DEF SentIsPrefix, NodeOf
<1> DEFINE data == cache[url[c]].data
           nextData == cache'[url[c]].data
<1>1. ASSUME pc[c] \in Attached
      PROVE  data \in Seq(Items) /\ nextData \in Seq(Items) /\ Extends(data, nextData)
  BY <1>1, CacheStep, NodeFields DEF CacheGrows, TypeInv, TypeOK, HasNode
<1>2. /\ offset[c] \in Nat
      /\ pc[c] \in Listening => offset[c] <= Len(data) /\ sent[c] = SubSeq(data, 1, offset[c])
      /\ pc[c] = "send" => offset[c] <= size[c] /\ size[c] <= Len(data) /\ size[c] \in Nat
      /\ pc[c] = "getCacheNode" => offset[c] = 0 /\ sent[c] = << >>
  BY DEF TypeInv, TypeOK, SentIsPrefix, WithinData, InOrder, NodeOf, Listening, Leaving
<1>3. ASSUME url'[c] = url[c], offset'[c] = offset[c], sent'[c] = sent[c], pc[c] \in Listening
      PROVE  /\ offset'[c] <= Len(cache'[url'[c]].data)
             /\ sent'[c] = SubSeq(cache'[url'[c]].data, 1, offset'[c])
  <2>1. data \in Seq(Items) /\ nextData \in Seq(Items) /\ Extends(data, nextData)
    BY <1>1, <1>3 DEF Attached
  <2>2. offset[c] <= Len(nextData) /\ SubSeq(nextData, 1, offset[c]) = SubSeq(data, 1, offset[c])
    BY <1>2, <1>3, <2>1, PrefixStays
  <2>3. QED
    BY <1>2, <1>3, <2>2
<1>4. CASE ~ClientThread(c)
  BY <1>3, <1>4, OtherClients DEF TypeInv
<1>5. CASE TakeMutex(c) \/ SeeData(c) \/ SeeReady(c) \/ WaitForData(c) \/ SendFails(c)
  BY <1>3, <1>5 DEF TakeMutex, SeeData, SeeReady, WaitForData, SendFails, Listening
<1>6. CASE StartListening(c)
  <2>1. offset'[c] = 0 /\ sent'[c] = << >> /\ url'[c] = url[c]
    BY <1>2, <1>6 DEF StartListening
  <2>2. nextData \in Seq(Items)
    BY <1>1, <1>6 DEF StartListening, Attached
  <2>3. SubSeq(nextData, 1, 0) = << >> /\ 0 <= Len(nextData)
    BY <2>2, SubSeqEmpty
  <2>4. QED
    BY <2>1, <2>3
<1>7. CASE Send(c)
  <2>1. PICK k \in SendCounts(size[c] - offset[c]) :
           /\ sent' = [sent EXCEPT ![c] = @ \o GetData(NodeOf(c), offset[c], k)]
           /\ offset' = [offset EXCEPT ![c] = @ + k]
    BY <1>7 DEF Send
  <2>2. /\ pc[c] = "send" /\ UNCHANGED <<cache, url>>
        /\ k \in Nat /\ offset[c] + k <= Len(data)
        /\ data \in Seq(Items)
    BY <1>1, <1>2, <1>7, NodeFields DEF Send, SendCounts, Attached, Listening
  <2>3. sent'[c] = SubSeq(data, 1, offset[c]) \o SubSeq(data, offset[c] + 1, offset[c] + k)
        /\ offset'[c] = offset[c] + k
    BY <1>2, <2>1, <2>2 DEF TypeInv, TypeOK, GetData, NodeOf, Listening
  <2>4. SubSeq(data, 1, offset[c]) \o SubSeq(data, offset[c] + 1, offset[c] + k)
           = SubSeq(data, 1, offset[c] + k)
    <3>1. \A m \in 1 .. Len(data) + 1 : \A i \in m - 1 .. Len(data) : \A n \in i .. Len(data) :
             SubSeq(data, m, i) \o SubSeq(data, i + 1, n) = SubSeq(data, m, n)
      BY <2>2, ConcatAdjacentSubSeq
    <3>2. /\ 1 \in 1 .. Len(data) + 1
          /\ offset[c] \in 1 - 1 .. Len(data)
          /\ offset[c] + k \in offset[c] .. Len(data)
      BY <1>2, <2>2 DEF Listening
    <3> HIDE DEF data
    <3>3. QED
      BY <3>1, <3>2
  <2>5. QED
    BY <2>2, <2>3, <2>4
<1>8. ClientThread(c) => \/ TakeMutex(c) \/ SeeData(c) \/ SeeReady(c) \/ WaitForData(c)
                         \/ SendFails(c) \/ StartListening(c) \/ Send(c)
  BY DEF ClientThread, SendDataFromCache, AcceptRequest, RejectRequest, Contains, AddCacheNode,
         InitServerThread, StopListening, LeaveHandle, Goto, TypeInv, TypeOK, Listening
<1>9. QED
  BY <1>4, <1>5, <1>6, <1>7, <1>8

(* A client gets the node's data in order, without gaps and once each,     *)
(* whatever the size of the pieces send takes.                             *)
THEOREM SentPrefix == Spec => []SentIsPrefix
BY TypeInvInit, TypeInvStep, PrefixInit, PrefixStep, PTL DEF Spec
-----------------------------------------------------------------------------
(***************************************************************************)
(* What happens to one node's data, and to the fetchers that fill it, in   *)
(* one step: nothing but a new fetcher (Quiet), a chunk more (Stores), or  *)
(* the text of an error (Explains).                                        *)
(***************************************************************************)

Errored(f) == fpc[f] \in {"errorBroadcast", "handlerReady", "ready"}

Quiet(u) ==
    /\ cache'[u].data = cache[u].data
    /\ Fetchers(u) \subseteq Fetchers(u)'
    /\ \A f \in Fetchers(u) : fetched'[f] = fetched[f] /\ (Errored(f) => Errored(f)')
    /\ \A f \in Fetchers(u)' \ Fetchers(u) : fetched'[f] = 0

Appends(u, f, item, next) ==
    /\ item \in Items
    /\ f \in Fetchers(u)
    /\ Fetchers(u)' = Fetchers(u)
    /\ cache'[u].data = Append(cache[u].data, item)
    /\ fpc' = [fpc EXCEPT ![f] = next]

Stores(u, f) ==
    /\ fpc[f] = "recv"
    /\ Appends(u, f, Chunk(f, fetched[f] + 1), "broadcast")
    /\ fetched' = [fetched EXCEPT ![f] = @ + 1]

Explains(u, f) ==
    /\ fpc[f] = "addError"
    /\ Appends(u, f, ErrorText(f), "errorBroadcast")
    /\ UNCHANGED fetched

LEMMA ClientKeepsData ==
    ASSUME TypeInv, [Next]_vars, ~(\E f \in Clients : FetcherThread(f))
    PROVE  \A u \in DOMAIN cache : /\ cache'[u].data = cache[u].data
                                  /\ cache'[u].nodeReady = cache[u].nodeReady
<1> DEFINE Goal == \A u \in DOMAIN cache : /\ cache'[u].data = cache[u].data
                                          /\ cache'[u].nodeReady = cache[u].nodeReady
<1>1. ASSUME NEW c \in Clients, NEW n, NodeBecomes(c, n), n.data = NodeOf(c).data,
             n.nodeReady = NodeOf(c).nodeReady
      PROVE  Goal
  BY <1>1 DEF NodeBecomes, NodeOf
<1>2. ASSUME NEW c \in Clients, StartListening(c)
      PROVE  Goal
  BY <1>1, <1>2, ClientCalls, AddListenerFields DEF NodeBecomes
<1>3. ASSUME NEW c \in Clients, TakeMutex(c)
      PROVE  Goal
  BY <1>1, <1>3, ClientCalls, LockFields DEF NodeBecomes
<1>4. ASSUME NEW c \in Clients, SpuriousWakeup(c)
      PROVE  Goal
  BY <1>1, <1>4, ClientCalls, WakeSpuriouslyFields DEF NodeBecomes
<1>5. ASSUME NEW c \in Clients, SeeData(c) \/ SeeReady(c)
      PROVE  Goal
  BY <1>1, <1>5, ClientCalls, UnlockFields DEF NodeBecomes
<1>6. ASSUME NEW c \in Clients, WaitForData(c)
      PROVE  Goal
  BY <1>1, <1>6, ClientCalls, WaitFields DEF NodeBecomes
<1>7. ASSUME NEW c \in Clients, StopListening(c)
      PROVE  Goal
  BY <1>1, <1>7, ClientCalls, RemoveListenerFields DEF NodeBecomes
<1>8. ASSUME NEW c \in Clients, AddCacheNode(c)
      PROVE  Goal
  BY <1>8 DEF AddCacheNode, Emplace
<1>9. CASE UNCHANGED cache
  BY <1>9
<1>10. QED
  BY <1>2, <1>3, <1>4, <1>5, <1>6, <1>7, <1>8, <1>9 DEF Next, ClientThread,
     SendDataFromCache, AllDone, vars, AcceptRequest, RejectRequest, Contains,
     InitServerThread, Send, SendFails, LeaveHandle

(* A client keeps its URL once it has one, so a fetcher keeps its node. *)
LEMMA UrlKept ==
    ASSUME TypeInv, [Next]_vars, NEW c \in Clients, pc[c] # "handleClientRequest" \/ fpc[c] # "none"
    PROVE  url'[c] = url[c]
<1>1. ~ClientThread(c) => url'[c] = url[c]
  BY OtherClients DEF TypeInv
<1>2. pc[c] # "handleClientRequest"
  BY DEF TypeInv, InOrder, NotYetFetching
<1>3. QED
  BY <1>1, <1>2 DEF ClientThread, SendDataFromCache, AcceptRequest, RejectRequest, Contains,
     AddCacheNode, InitServerThread, StartListening, TakeMutex, SeeData, SeeReady,
     WaitForData, Send, SendFails, StopListening, LeaveHandle

LEMMA FetchStep ==
    ASSUME TypeInv, [Next]_vars, NEW u \in DOMAIN cache
    PROVE  Quiet(u) \/ \E f \in Clients : Stores(u, f) \/ Explains(u, f)
<1> USE DEF Fetching, Published
<1>0. /\ fpc \in [Clients -> FetcherPC] /\ fetched \in [Clients -> 0 .. MaxChunks]
      /\ cache[u] \in Node
  BY DEF TypeInv, TypeOK
<1>1. \A f \in Clients : fpc[f] # "none" => url'[f] = url[f]
  BY UrlKept
<1>2. CASE UNCHANGED fetcherVars /\ ~(\E f \in Clients : FetcherThread(f))
  BY <1>0, <1>1, <1>2, ClientKeepsData DEF Quiet, Fetchers, Errored, fetcherVars
<1>3. ASSUME NEW c \in Clients, InitServerThread(c), ~(\E f \in Clients : FetcherThread(f))
      PROVE  Quiet(u)
  <2>1. /\ fpc[c] = "none" /\ fetched[c] = 0 /\ UNCHANGED <<fetched, url>>
        /\ \E next \in {"initServerConnection", "createFailed"} : fpc' = [fpc EXCEPT ![c] = next]
    BY <1>3 DEF InitServerThread, TypeInv, InOrder, NotYetFetching
  <2>2. QED
    BY <1>0, <1>3, <2>1, ClientKeepsData DEF Quiet, Fetchers, Errored
<1>4. ASSUME NEW f \in Clients, FetcherThread(f), cache'[u].data = cache[u].data, fetched' = fetched
      PROVE  Quiet(u)
  <2>1. /\ UNCHANGED url
        /\ fpc[f] \in Fetching \cup Published
        /\ \E next \in Fetching \cup Published :
              /\ fpc' = [fpc EXCEPT ![f] = next]
              /\ Errored(f) => next \in {"errorBroadcast", "handlerReady", "ready"}
    BY <1>4 DEF FetcherThread, Receive, ContactServer, ReceiveData, ReceiveEnd, ReceiveFails,
       BroadcastData, FinishNode, FinalBroadcast, FailNode, AddErrorText, BroadcastError,
       LeaveFetcher, FetcherGoto, clientVars, Errored
  <2>2. QED
    BY <1>0, <1>4, <2>1 DEF Quiet, Fetchers, Errored
<1>5. ASSUME NEW f \in Clients, FetcherThread(f), ~(ReceiveData(f) \/ AddErrorText(f))
      PROVE  cache'[u].data = cache[u].data /\ fetched' = fetched
  <2>1. CASE ReceiveEnd(f)
    <3>1. NodeBecomes(f, AddData(NodeOf(f), << >>))
      BY <2>1, FetcherCalls
    <3>2. NodeOf(f).data \in Seq(Items) /\ << >> \in Seq(Items)
      BY <3>1, NodeFields DEF NodeBecomes
    <3>3. AddData(NodeOf(f), << >>).data = NodeOf(f).data
      BY <3>1, <3>2, AddDataFields, ConcatEmptySeq DEF NodeBecomes
    <3>4. QED
      BY <2>1, <3>1, <3>3 DEF NodeBecomes, NodeOf, ReceiveEnd
  <2>2. CASE BroadcastData(f) \/ FinalBroadcast(f) \/ BroadcastError(f)
    <3>1. NodeBecomes(f, Broadcast(NodeOf(f)))
      BY <2>2, FetcherCalls
    <3>2. Broadcast(NodeOf(f)).data = NodeOf(f).data
      BY <3>1, BroadcastFields DEF NodeBecomes
    <3>3. QED
      BY <2>2, <3>1, <3>2
         DEF NodeBecomes, NodeOf, BroadcastData, FinalBroadcast, BroadcastError
  <2>3. CASE FinishNode(f) \/ FailNode(f)
    <3>1. NodeBecomes(f, SetReady(NodeOf(f)))
      BY <2>3, FetcherCalls
    <3>2. SetReady(NodeOf(f)).data = NodeOf(f).data
      BY <3>1, SetReadyFields DEF NodeBecomes
    <3>3. QED
      BY <2>3, <3>1, <3>2 DEF NodeBecomes, NodeOf, FinishNode, FailNode
  <2>4. CASE ContactServer(f) \/ ReceiveFails(f) \/ LeaveFetcher(f)
    BY <2>4 DEF ContactServer, ReceiveFails, LeaveFetcher
  <2>5. QED
    BY <1>5, <2>1, <2>2, <2>3, <2>4 DEF FetcherThread, Receive
<1>6. ASSUME NEW f \in Clients, ReceiveData(f)
      PROVE  Quiet(u) \/ Stores(u, f)
  <2>1. /\ fpc[f] = "recv" /\ UNCHANGED url
        /\ fpc' = [fpc EXCEPT ![f] = "broadcast"]
        /\ fetched' = [fetched EXCEPT ![f] = @ + 1]
        /\ Chunk(f, fetched[f] + 1) \in Items
    BY <1>0, <1>6, NodeAssumption DEF ReceiveData, FetcherGoto, clientVars, Chunk, Items
  <2>2. Fetchers(u)' = Fetchers(u) /\ (f \in Fetchers(u) <=> url[f] = u)
    BY <1>0, <2>1 DEF Fetchers
  <2>3. CASE url[f] = u
    <3>1. cache'[u].data = cache[u].data \o <<Chunk(f, fetched[f] + 1)>>
      <4>1. NodeBecomes(f, AddData(NodeOf(f), <<Chunk(f, fetched[f] + 1)>>))
        BY <1>6, FetcherCalls
      <4>2. NodeOf(f) \in Node /\ <<Chunk(f, fetched[f] + 1)>> \in Seq(Items)
        BY <2>1, <4>1 DEF NodeBecomes
      <4>3. AddData(NodeOf(f), <<Chunk(f, fetched[f] + 1)>>).data = NodeOf(f).data \o <<Chunk(f, fetched[f] + 1)>>
        BY <4>2, AddDataFields
      <4>4. QED
        BY <2>3, <4>1, <4>3 DEF NodeBecomes, NodeOf
    <3>2. cache'[u].data = Append(cache[u].data, Chunk(f, fetched[f] + 1))
      BY <1>0, <2>1, <3>1, NodeFields, AppendIsConcat
    <3>3. QED
      BY <2>1, <2>2, <2>3, <3>2 DEF Stores, Appends
  <2>4. CASE url[f] # u
    <3>1. cache'[u] = cache[u]
      BY <1>6, <2>4, FetcherCalls DEF NodeBecomes
    <3>2. QED
      BY <1>0, <2>1, <2>2, <2>4, <3>1 DEF Quiet, Errored
  <2>5. QED
    BY <2>3, <2>4
<1>7. ASSUME NEW f \in Clients, AddErrorText(f)
      PROVE  Quiet(u) \/ Explains(u, f)
  <2>1. /\ fpc[f] = "addError" /\ UNCHANGED <<url, fetched>>
        /\ fpc' = [fpc EXCEPT ![f] = "errorBroadcast"]
        /\ ErrorText(f) \in Items
    BY <1>7, NodeAssumption DEF AddErrorText, FetcherGoto, clientVars, ErrorText, Items
  <2>2. Fetchers(u)' = Fetchers(u) /\ (f \in Fetchers(u) <=> url[f] = u)
    BY <1>0, <2>1 DEF Fetchers
  <2>3. CASE url[f] = u
    <3>1. cache'[u].data = cache[u].data \o <<ErrorText(f)>>
      <4>1. NodeBecomes(f, AddData(NodeOf(f), <<ErrorText(f)>>))
        BY <1>7, FetcherCalls
      <4>2. NodeOf(f) \in Node /\ <<ErrorText(f)>> \in Seq(Items)
        BY <2>1, <4>1 DEF NodeBecomes
      <4>3. AddData(NodeOf(f), <<ErrorText(f)>>).data = NodeOf(f).data \o <<ErrorText(f)>>
        BY <4>2, AddDataFields
      <4>4. QED
        BY <2>3, <4>1, <4>3 DEF NodeBecomes, NodeOf
    <3>2. cache'[u].data = Append(cache[u].data, ErrorText(f))
      BY <1>0, <2>1, <3>1, NodeFields, AppendIsConcat
    <3>3. QED
      BY <2>1, <2>2, <2>3, <3>2 DEF Explains, Appends
  <2>4. CASE url[f] # u
    <3>1. cache'[u] = cache[u]
      BY <1>7, <2>4, FetcherCalls DEF NodeBecomes
    <3>2. QED
      BY <1>0, <2>1, <2>2, <2>4, <3>1 DEF Quiet, Errored
  <2>5. QED
    BY <2>3, <2>4
<1>8. (\A c \in Clients : ~InitServerThread(c)) /\ (\A f \in Clients : ~FetcherThread(f))
         => UNCHANGED fetcherVars
  BY DEF Next, ClientThread, SendDataFromCache, AllDone, vars, AcceptRequest, RejectRequest,
     Contains, AddCacheNode, StartListening, TakeMutex, SpuriousWakeup, SeeData, SeeReady,
     WaitForData, Send, SendFails, StopListening, LeaveHandle
<1>9. QED
  BY <1>2, <1>3, <1>4, <1>5, <1>6, <1>7, <1>8

(* A node that is new has no fetcher yet. *)
LEMMA NewNodeUnfetched ==
    ASSUME TypeInv, [Next]_vars, NEW u \in DOMAIN cache' \ DOMAIN cache
    PROVE  cache'[u] = NewNode /\ Fetchers(u)' = {}
<1>1. PICK c \in Clients : AddCacheNode(c)
  BY NodesAreAdded
<1>2. cache'[u] = NewNode
  BY NodesAreAdded
<1>3. UNCHANGED <<url, fpc>>
  BY <1>1 DEF AddCacheNode, fetcherVars
<1>4. Fetchers(u) = {}
  BY DEF Fetchers, Fetching, Published, TypeInv, HasNode
<1>5. QED
  BY <1>2, <1>3, <1>4 DEF Fetchers
-----------------------------------------------------------------------------
(* What a node holds, whoever writes to it.                                *)

ErrorComesLast(u) ==
    \A i \in DOMAIN cache[u].data :
        cache[u].data[i][2] = 0 => Errored(cache[u].data[i][1])

FetchInv == ChunksInOrder /\ \A u \in DOMAIN cache : ErrorComesLast(u)

LEMMA FetchInvInit == Init => FetchInv
BY DEF Init, FetchInv, ChunksInOrder

LEMMA FetchInvStep == TypeInv /\ FetchInv /\ [Next]_vars => FetchInv'
<1> SUFFICES ASSUME TypeInv, FetchInv, [Next]_vars, NEW u \in DOMAIN cache'
             PROVE  AllStored(u)' /\ OnlyFetched(u)' /\ InSequence(u)' /\ ErrorComesLast(u)'
  BY DEF FetchInv, ChunksInOrder
<1>1. CASE u \notin DOMAIN cache
  BY <1>1, NewNodeUnfetched, NewNodeFields
     DEF AllStored, OnlyFetched, InSequence, ErrorComesLast
<1> DEFINE data == cache[u].data
           nextData == cache'[u].data
           last == Len(data) + 1
<1>2. CASE u \in DOMAIN cache
  <2>1. AllStored(u) /\ OnlyFetched(u) /\ InSequence(u) /\ ErrorComesLast(u)
    BY <1>2 DEF FetchInv, ChunksInOrder
  <2>2. /\ data \in Seq(Items) /\ Len(data) \in Nat
        /\ DOMAIN data = 1 .. Len(data)
        /\ \A i \in DOMAIN data : data[i][1] \in Clients /\ data[i][2] \in Nat
    <3>1. data \in Seq(Items) /\ Len(data) \in Nat
      BY <1>2, NodeFields DEF TypeInv, TypeOK
    <3>2. \A i \in 1 .. Len(data) : data[i] \in Clients \X (0 .. MaxChunks)
      BY <3>1 DEF Items
    <3>3. QED
      BY <3>1, <3>2, NodeAssumption
  <2>3. CASE Quiet(u)
    <3>1. AllStored(u)'
      BY <2>1, <2>3 DEF Quiet, AllStored
    <3>2. OnlyFetched(u)'
      BY <2>1, <2>3 DEF Quiet, OnlyFetched
    <3>3. InSequence(u)'
      BY <2>1, <2>3 DEF Quiet, InSequence
    <3>4. ErrorComesLast(u)'
      BY <2>1, <2>3 DEF Quiet, OnlyFetched, ErrorComesLast
    <3>5. QED
      BY <3>1, <3>2, <3>3, <3>4
  <2>4. ASSUME NEW f \in Clients, NEW item, NEW next, Appends(u, f, item, next)
        PROVE  /\ DOMAIN nextData = 1 .. last
               /\ \A i \in DOMAIN data : i \in DOMAIN nextData /\ nextData[i] = data[i]
               /\ nextData[last] = item
               /\ \A i \in DOMAIN nextData : i \in DOMAIN data \/ i = last
    <3>1. item \in Items /\ nextData = Append(data, item)
      BY <2>4 DEF Appends
    <3>2. QED
      BY <2>2, <3>1, AppendProperties
  <2>5. fpc \in [Clients -> FetcherPC] /\ fetched \in [Clients -> Nat]
    BY NodeAssumption DEF TypeInv, TypeOK
  <2>6. ASSUME NEW f \in Clients, Stores(u, f)
        PROVE  AllStored(u)' /\ OnlyFetched(u)' /\ InSequence(u)' /\ ErrorComesLast(u)'
    <3>1. /\ DOMAIN nextData = 1 .. last
          /\ \A i \in DOMAIN data : i \in DOMAIN nextData /\ nextData[i] = data[i]
          /\ nextData[last] = Chunk(f, fetched[f] + 1)
          /\ \A i \in DOMAIN nextData : i \in DOMAIN data \/ i = last
      BY <2>4, <2>6 DEF Stores
    <3>2. /\ f \in Fetchers(u) /\ Fetchers(u)' = Fetchers(u) /\ Fetchers(u) \subseteq Clients
          /\ fetched' = [fetched EXCEPT ![f] = @ + 1]
          /\ fpc' = [fpc EXCEPT ![f] = "broadcast"] /\ fpc[f] = "recv"
      BY <2>6 DEF Stores, Appends, Fetchers
    <3>3. \A i \in DOMAIN data : data[i][1] = f => data[i][2] # 0 /\ data[i][2] <= fetched[f]
      BY <2>1, <3>2 DEF ErrorComesLast, OnlyFetched, Errored
    <3>4. nextData[last][1] = f /\ nextData[last][2] = fetched[f] + 1
      BY <3>1 DEF Chunk
    <3> HIDE DEF data, nextData, last
    <3>5. AllStored(u)'
      <4> SUFFICES ASSUME NEW g \in Fetchers(u), NEW k \in 1 .. fetched'[g]
                   PROVE  \E i \in DOMAIN nextData : nextData[i] = Chunk(g, k)
        BY <3>2 DEF AllStored, nextData
      <4>1. CASE g = f /\ k = fetched[f] + 1
        BY <2>2, <3>1, <4>1 DEF last
      <4>2. CASE k \in 1 .. fetched[g]
        BY <2>1, <3>1, <4>2 DEF AllStored, data
      <4>3. QED
        BY <2>5, <3>2, <4>1, <4>2
    <3>6. OnlyFetched(u)'
      <4> SUFFICES ASSUME NEW i \in DOMAIN nextData
                   PROVE  /\ nextData[i][1] \in Fetchers(u)'
                          /\ nextData[i][2] <= fetched'[nextData[i][1]]
        BY DEF OnlyFetched, nextData
      <4>1. CASE i = last
        BY <2>5, <3>2, <3>4, <4>1
      <4>2. CASE i \in DOMAIN data
        <5>1. /\ nextData[i] = data[i] /\ data[i][2] \in Nat
              /\ data[i][1] \in Fetchers(u) /\ data[i][2] <= fetched[data[i][1]]
          BY <2>1, <2>2, <3>1, <4>2 DEF OnlyFetched, data
        <5>2. QED
          BY <2>5, <3>2, <5>1
      <4>3. QED
        BY <3>1, <4>1, <4>2
    <3>7. InSequence(u)'
      <4> SUFFICES ASSUME NEW i \in DOMAIN nextData, NEW j \in DOMAIN nextData, i < j,
                          nextData[i][1] = nextData[j][1]
                   PROVE  /\ nextData[i][2] # 0
                          /\ nextData[j][2] = 0 \/ nextData[i][2] < nextData[j][2]
        BY DEF InSequence, nextData
      <4>1. i \in DOMAIN data
        BY <2>2, <3>1 DEF last
      <4>2. CASE j \in DOMAIN data
        BY <2>1, <3>1, <4>1, <4>2 DEF InSequence, data
      <4>3. CASE j = last
        BY <2>2, <2>5, <3>1, <3>3, <3>4, <4>1, <4>3
      <4>4. QED
        BY <3>1, <4>2, <4>3
    <3>8. ErrorComesLast(u)'
      <4> SUFFICES ASSUME NEW i \in DOMAIN nextData, nextData[i][2] = 0
                   PROVE  fpc'[nextData[i][1]] \in {"errorBroadcast", "handlerReady", "ready"}
        BY DEF ErrorComesLast, nextData, Errored
      <4>1. i \in DOMAIN data /\ nextData[i] = data[i]
        BY <2>5, <3>1, <3>4
      <4>2. data[i][1] \in Clients /\ data[i][1] # f /\ Errored(data[i][1])
        BY <2>1, <2>2, <3>3, <4>1 DEF ErrorComesLast, data
      <4>3. QED
        BY <2>5, <3>2, <4>1, <4>2 DEF Errored
    <3>9. QED
      BY <3>5, <3>6, <3>7, <3>8
  <2>7. ASSUME NEW f \in Clients, Explains(u, f)
        PROVE  AllStored(u)' /\ OnlyFetched(u)' /\ InSequence(u)' /\ ErrorComesLast(u)'
    <3>1. /\ DOMAIN nextData = 1 .. last
          /\ \A i \in DOMAIN data : i \in DOMAIN nextData /\ nextData[i] = data[i]
          /\ nextData[last] = ErrorText(f)
          /\ \A i \in DOMAIN nextData : i \in DOMAIN data \/ i = last
      BY <2>4, <2>7 DEF Explains
    <3>2. /\ f \in Fetchers(u) /\ Fetchers(u)' = Fetchers(u) /\ Fetchers(u) \subseteq Clients
          /\ fetched' = fetched
          /\ fpc' = [fpc EXCEPT ![f] = "errorBroadcast"] /\ fpc[f] = "addError"
      BY <2>7 DEF Explains, Appends, Fetchers
    <3>3. \A i \in DOMAIN data : data[i][1] = f => data[i][2] # 0
      BY <2>1, <3>2 DEF ErrorComesLast, Errored
    <3>4. nextData[last][1] = f /\ nextData[last][2] = 0
      BY <3>1 DEF ErrorText
    <3> HIDE DEF data, nextData, last
    <3>5. AllStored(u)'
      BY <2>1, <3>1, <3>2 DEF AllStored, data, nextData
    <3>6. OnlyFetched(u)'
      BY <2>1, <2>2, <2>5, <3>1, <3>2, <3>4 DEF OnlyFetched, data, nextData
    <3>7. InSequence(u)'
      <4> SUFFICES ASSUME NEW i \in DOMAIN nextData, NEW j \in DOMAIN nextData, i < j,
                          nextData[i][1] = nextData[j][1]
                   PROVE  /\ nextData[i][2] # 0
                          /\ nextData[j][2] = 0 \/ nextData[i][2] < nextData[j][2]
        BY DEF InSequence, nextData
      <4>1. i \in DOMAIN data
        BY <2>2, <3>1 DEF last
      <4>2. CASE j \in DOMAIN data
        BY <2>1, <3>1, <4>1, <4>2 DEF InSequence, data
      <4>3. CASE j = last
        BY <2>2, <3>1, <3>3, <3>4, <4>1, <4>3
      <4>4. QED
        BY <3>1, <4>2, <4>3
    <3>8. ErrorComesLast(u)'
      <4> SUFFICES ASSUME NEW i \in DOMAIN nextData, nextData[i][2] = 0
                   PROVE  fpc'[nextData[i][1]] \in {"errorBroadcast", "handlerReady", "ready"}
        BY DEF ErrorComesLast, nextData, Errored
      <4>1. CASE i = last
        BY <2>5, <3>2, <3>4, <4>1 DEF Errored
      <4>2. CASE i \in DOMAIN data
        <5>1. data[i][1] \in Clients /\ Errored(data[i][1]) /\ nextData[i] = data[i]
          BY <2>1, <2>2, <3>1, <4>2 DEF ErrorComesLast, data
        <5>2. QED
          BY <2>5, <3>2, <5>1 DEF Errored
      <4>3. QED
        BY <3>1, <4>1, <4>2
    <3>9. QED
      BY <3>5, <3>6, <3>7, <3>8
  <2>8. QED
    BY <1>2, <2>3, <2>6, <2>7, FetchStep
<1>3. QED
  BY <1>1, <1>2

(* However many clients were told to fetch the same URL, each fetch is in  *)
(* the node whole, in order and once.                                      *)
THEOREM FetchedInOrder == Spec => []ChunksInOrder
<1>1. FetchInv => ChunksInOrder
  BY DEF FetchInv
<1>2. QED
  BY <1>1, TypeInvInit, TypeInvStep, FetchInvInit, FetchInvStep, PTL DEF Spec
-----------------------------------------------------------------------------
(* What a node holds that one fetcher alone writes to. *)

Explained(u, f) ==
    /\ Errored(f)
    /\ cache[u].data = Append(Body(f, fetched[f]), ErrorText(f))

LEMMA BodyProperties ==
    ASSUME NEW f \in Clients, NEW n \in 0 .. MaxChunks
    PROVE  /\ Body(f, n) \in Seq(Items)
           /\ Len(Body(f, n)) = n
           /\ \A k \in 1 .. n : Body(f, n)[k] = Chunk(f, k)
<1>1. n \in Nat /\ MaxChunks \in Nat
  BY NodeAssumption
<1>2. \A k \in 1 .. n : Chunk(f, k) \in Items
  BY <1>1 DEF Chunk, Items
<1>3. Body(f, n) \in [1 .. n -> Items]
  BY <1>2 DEF Body
<1>4. Body(f, n) \in Seq(Items)
  BY <1>1, <1>3, SeqDef
<1>5. QED
  BY <1>1, <1>3, <1>4, LenProperties DEF Body

LEMMA BodyGrows ==
    ASSUME NEW f \in Clients, NEW n \in 0 .. MaxChunks, n + 1 \in 0 .. MaxChunks
    PROVE  Append(Body(f, n), Chunk(f, n + 1)) = Body(f, n + 1)
<1> DEFINE s == Append(Body(f, n), Chunk(f, n + 1))
           t == Body(f, n + 1)
<1>1. n \in Nat
  BY NodeAssumption
<1>2. /\ Body(f, n) \in Seq(Items) /\ Len(Body(f, n)) = n
      /\ \A k \in 1 .. n : Body(f, n)[k] = Chunk(f, k)
      /\ t \in Seq(Items) /\ Len(t) = n + 1
      /\ \A k \in 1 .. n + 1 : t[k] = Chunk(f, k)
  BY BodyProperties
<1>3. Chunk(f, n + 1) \in Items
  BY <1>1, <1>2, NodeAssumption DEF Chunk, Items
<1>4. /\ s \in Seq(Items) /\ Len(s) = n + 1
      /\ \A k \in 1 .. n : s[k] = Body(f, n)[k]
      /\ s[n + 1] = Chunk(f, n + 1)
  BY <1>2, <1>3, AppendProperties
<1> HIDE DEF s, t
<1>5. \A k \in 1 .. n + 1 : s[k] = t[k]
  <2>1. \A k \in 1 .. n + 1 : k \in 1 .. n \/ k = n + 1
    BY <1>1
  <2>2. QED
    BY <1>1, <1>2, <1>4, <2>1
<1>6. s = t
  BY <1>1, <1>2, <1>4, <1>5, SeqEqual
<1>7. QED
  BY <1>6 DEF s, t

LEMMA SoleInit == Init => SoleFetchIntact
BY DEF Init, SoleFetchIntact

LEMMA SoleStep == TypeInv /\ FetchInv /\ SoleFetchIntact /\ [Next]_vars => SoleFetchIntact'
<1> SUFFICES ASSUME TypeInv, FetchInv, SoleFetchIntact, [Next]_vars, NEW u \in DOMAIN cache',
                    NEW f \in Clients, Fetchers(u)' = {f}
             PROVE  cache'[u].data = Body(f, fetched'[f]) \/ Explained(u, f)'
  BY DEF SoleFetchIntact, Explained, Errored
<1>1. u \in DOMAIN cache
  BY NewNodeUnfetched
<1>2. /\ fpc \in [Clients -> FetcherPC] /\ fetched \in [Clients -> 0 .. MaxChunks]
      /\ fetched'[f] \in 0 .. MaxChunks
      /\ cache[u].data \in Seq(Items)
  BY <1>1, TypeInvStep, NodeFields DEF TypeInv, TypeOK
<1>3. ASSUME Fetchers(u) = {f}
      PROVE  cache[u].data = Body(f, fetched[f]) \/ Explained(u, f)
  BY <1>1, <1>3 DEF SoleFetchIntact, Explained, Errored
<1>4. CASE Quiet(u) /\ Fetchers(u) = {}
  <2>1. DOMAIN cache[u].data = {}
    BY <1>1, <1>4 DEF FetchInv, ChunksInOrder, OnlyFetched
  <2>2. fetched'[f] = 0 /\ cache'[u].data = cache[u].data
    BY <1>4 DEF Quiet
  <2>3. Len(cache[u].data) = 0 /\ Len(Body(f, 0)) = 0 /\ Body(f, 0) \in Seq(Items)
    BY <1>2, <2>1, <2>2, BodyProperties
  <2>4. cache[u].data = Body(f, 0)
    BY <1>2, <2>3, SeqEqual
  <2>5. QED
    BY <2>2, <2>4
<1>5. CASE Quiet(u) /\ Fetchers(u) # {}
  <2>1. Fetchers(u) = {f}
    BY <1>5 DEF Quiet
  <2>2. /\ cache'[u].data = cache[u].data
        /\ fetched'[f] = fetched[f]
        /\ Errored(f) => Errored(f)'
    BY <1>5, <2>1 DEF Quiet
  <2>3. QED
    BY <1>3, <2>1, <2>2 DEF Explained
<1>6. ASSUME NEW g \in Clients, Stores(u, g)
      PROVE  cache'[u].data = Body(f, fetched'[f])
  <2>1. /\ g = f /\ Fetchers(u) = {f}
        /\ fpc[f] = "recv"
        /\ cache'[u].data = Append(cache[u].data, Chunk(f, fetched[f] + 1))
        /\ fetched'[f] = fetched[f] + 1
    BY <1>2, <1>6 DEF Stores, Appends
  <2>2. cache[u].data = Body(f, fetched[f])
    BY <1>3, <2>1 DEF Explained, Errored
  <2>3. QED
    BY <1>2, <2>1, <2>2, BodyGrows
<1>7. ASSUME NEW g \in Clients, Explains(u, g)
      PROVE  Explained(u, f)'
  <2>1. /\ g = f /\ Fetchers(u) = {f}
        /\ fpc[f] = "addError"
        /\ cache'[u].data = Append(cache[u].data, ErrorText(f))
        /\ fetched'[f] = fetched[f]
        /\ fpc'[f] = "errorBroadcast"
    BY <1>2, <1>7 DEF Explains, Appends
  <2>2. cache[u].data = Body(f, fetched[f])
    BY <1>3, <2>1 DEF Explained, Errored
  <2>3. QED
    BY <2>1, <2>2 DEF Explained, Errored
<1>8. QED
  BY <1>1, <1>4, <1>5, <1>6, <1>7, FetchStep

(* While one client at most has started a fetcher for a URL, the node      *)
(* holds what that fetcher received and nothing else, but for the text of  *)
(* its error at the end.                                                   *)
THEOREM SoleFetchWhole == Spec => []SoleFetchIntact
BY TypeInvInit, TypeInvStep, FetchInvInit, FetchInvStep, SoleInit, SoleStep, PTL DEF Spec
==============================================================================
