--------------------------- MODULE HandlerIds_proofs ---------------------------
(***************************************************************************)
(* The vector threadIds, for any number of connections and ids and any     *)
(* MaxConnections: which running threads it lists although ids are given   *)
(* out again, that it keeps no id for longer than the handler, and how     *)
(* long it can get.                                                        *)
(***************************************************************************)
EXTENDS HandlerLifecycle_proofs, FiniteSetTheorems

LEMMA SameElements ==
    ASSUME NEW S, NEW s \in Seq(S)
    PROVE  /\ Len(s) \in Nat /\ DOMAIN s = 1 .. Len(s)
           /\ Elements(s) \subseteq S
           /\ \A e : Contains(s, e) <=> e \in Elements(s)
BY LenProperties, ElementOfSeq DEF Elements, Contains

LEMMA CountTo ==
    ASSUME NEW n \in Nat
    PROVE  IsFiniteSet(1 .. n) /\ Cardinality(1 .. n) = n
<1>1. /\ IsFiniteSet(1 .. n)
      /\ Cardinality(1 .. n) = IF 1 > n THEN 0 ELSE n - 1 + 1
  BY FS_Interval
<1>2. (IF 1 > n THEN 0 ELSE n - 1 + 1) = n
  OBVIOUS
<1> QED BY <1>1, <1>2

(* The rank of a member of a finite set of numbers is a bijection. *)
LEMMA Ranks ==
    ASSUME NEW K \in SUBSET Nat, IsFiniteSet(K)
    PROVE  /\ Cardinality(K) \in Nat
           /\ \A k \in K : Cardinality({j \in K : j < k}) \in 0 .. Cardinality(K) - 1
           /\ \A n \in 1 .. Cardinality(K) :
                 \E k \in K : Cardinality({j \in K : j < k}) = n - 1
           /\ \A k, l \in K :
                 Cardinality({j \in K : j < k}) = Cardinality({j \in K : j < l}) => k = l
<1> DEFINE before(k) == {j \in K : j < k}
           rank(k) == Cardinality(before(k))
<1>1. Cardinality(K) \in Nat
  BY FS_CardinalityType
<1>2. ASSUME NEW k \in K
      PROVE  IsFiniteSet(before(k)) /\ rank(k) \in Nat
  <2>1. before(k) \in SUBSET K
    OBVIOUS
  <2> HIDE DEF before
  <2> QED BY <2>1, FS_Subset, FS_CardinalityType
<1>3. ASSUME NEW k \in K, NEW T \in SUBSET K, k \in T, before(k) \subseteq T
      PROVE  rank(k) < Cardinality(T)
  <2>1. IsFiniteSet(T) /\ Cardinality(T) \in Nat
    BY FS_Subset, FS_CardinalityType
  <2>2. before(k) \in SUBSET T /\ k \notin before(k)
    BY <1>3
  <2> HIDE DEF before
  <2>3. rank(k) <= Cardinality(T) /\ rank(k) # Cardinality(T)
    BY <1>3, <2>1, <2>2, FS_Subset
  <2> QED BY <1>2, <2>1, <2>3
<1>4. \A k \in K : rank(k) \in 0 .. Cardinality(K) - 1
  <2> TAKE k \in K
  <2>1. rank(k) < Cardinality(K)
    <3>1. K \in SUBSET K /\ k \in K /\ before(k) \subseteq K
      OBVIOUS
    <3> HIDE DEF rank, before
    <3> QED BY <3>1, <1>3
  <2> QED BY <1>1, <1>2, <2>1
<1>5. ASSUME NEW k \in K, NEW l \in K, k < l PROVE rank(k) < rank(l)
  <2>1. k \in before(l) /\ before(l) \in SUBSET K
    BY <1>5
  <2>2. before(k) \subseteq before(l)
    <3> SUFFICES ASSUME NEW j \in K, j < k PROVE j < l
      OBVIOUS
    <3>1. j \in Nat /\ k \in Nat /\ l \in Nat
      OBVIOUS
    <3> QED BY <1>5, <3>1
  <2> HIDE DEF before
  <2> QED BY <2>1, <2>2, <1>3
<1>6. \A k, l \in K : rank(k) = rank(l) => k = l
  <2> SUFFICES ASSUME NEW k \in K, NEW l \in K, rank(k) = rank(l) PROVE k = l
    OBVIOUS
  <2>1. rank(k) \in Nat /\ rank(l) \in Nat /\ k \in Nat /\ l \in Nat
    BY <1>2
  <2> HIDE DEF rank
  <2>2. ~(k < l) /\ ~(l < k)
    BY <1>5, <2>1
  <2> QED BY <2>1, <2>2
<1>7. \A n \in 1 .. Cardinality(K) : \E k \in K : rank(k) = n - 1
  <2> DEFINE N == Cardinality(K)
             f == [k \in K |-> rank(k) + 1]
  <2>1. f \in Injection(K, 1 .. N)
    <3>1. \A k \in K : rank(k) \in Int /\ rank(k) + 1 \in 1 .. N
      <4> HIDE DEF rank
      <4> QED BY <1>1, <1>4
    <3>2. f \in [K -> 1 .. N] /\ \A k \in K : f[k] = rank(k) + 1
      <4> HIDE DEF rank, N
      <4> QED BY <3>1
    <3> HIDE DEF f, rank, N
    <3>3. \A k, l \in K : f[k] = f[l] => k = l
      BY <3>1, <3>2, <1>6
    <3> QED BY <3>2, <3>3 DEF Injection, IsInjective
  <2>2. IsFiniteSet(1 .. N) /\ Cardinality(1 .. N) = N
    BY <1>1, CountTo
  <2>3. f \in Surjection(K, 1 .. N)
    <3> HIDE DEF f
    <3> QED BY <2>1, <2>2, FS_Injection
  <2>4. \A n \in 1 .. N : \E k \in K : rank(k) + 1 = n
    <3> HIDE DEF rank
    <3> QED BY <2>3 DEF Surjection
  <2>5. \A k \in K : rank(k) \in Int
    <3> HIDE DEF rank
    <3> QED BY <1>4
  <2> HIDE DEF rank
  <2> QED BY <1>1, <2>4, <2>5
<1> QED BY <1>1, <1>4, <1>6, <1>7

(* removeThreadId leaves all other ids and nothing else. *)
LEMMA RemainingIds ==
    ASSUME NEW S, threadIds \in Seq(S), NEW i
    PROVE  /\ RemoveThreadId(i) \in Seq(S)
           /\ Elements(RemoveThreadId(i)) = Elements(threadIds) \ {i}
           /\ Len(RemoveThreadId(i)) <= Len(threadIds)
<1> DEFINE K == {k \in DOMAIN threadIds : threadIds[k] # i}
           rank(k) == Cardinality({j \in K : j < k})
           N == Cardinality(K)
           t == RemoveThreadId(i)
<1>1. /\ Len(threadIds) \in Nat /\ DOMAIN threadIds = 1 .. Len(threadIds)
      /\ \A k \in 1 .. Len(threadIds) : threadIds[k] \in S
  BY LenProperties, ElementOfSeq
<1>2. K \in SUBSET Nat /\ IsFiniteSet(K) /\ N \in Nat /\ N <= Len(threadIds)
  <2>1. IsFiniteSet(1 .. Len(threadIds)) /\ Cardinality(1 .. Len(threadIds)) = Len(threadIds)
    BY <1>1, CountTo
  <2>2. K \in SUBSET (1 .. Len(threadIds))
    BY <1>1
  <2>3. K \in SUBSET Nat
    BY <1>1, <2>2
  <2> HIDE DEF K
  <2> QED BY <2>1, <2>2, <2>3, FS_Subset, FS_CardinalityType
<1>3. t = [n \in 1 .. N |-> threadIds[CHOOSE k \in K : rank(k) = n - 1]]
  BY DEF RemoveThreadId
<1>4. /\ \A k \in K : rank(k) \in 0 .. N - 1
      /\ \A n \in 1 .. N : \E k \in K : rank(k) = n - 1
      /\ \A k, l \in K : rank(k) = rank(l) => k = l
  <2> HIDE DEF K
  <2> QED BY <1>2, Ranks
<1>5. \A k \in K : k \in DOMAIN threadIds /\ threadIds[k] \in S \ {i}
  BY <1>1
<1> HIDE DEF t, K, N, rank
<1>6. ASSUME NEW n \in 1 .. N
      PROVE  \E k \in K : rank(k) = n - 1 /\ t[n] = threadIds[k]
  BY <1>3, <1>4
<1>7. t \in Seq(S) /\ Len(t) = N /\ DOMAIN t = 1 .. N
  <2>1. t \in [1 .. N -> S]
    BY <1>3, <1>5, <1>6
  <2>2. t \in Seq(S)
    BY <1>2, <2>1, SeqDef
  <2> QED BY <1>2, <1>3, <2>2, LenProperties
<1>8. ASSUME NEW x \in Elements(t) PROVE x \in Elements(threadIds) \ {i}
  BY <1>5, <1>6, <1>7 DEF Elements
<1>9. ASSUME NEW x \in Elements(threadIds) \ {i} PROVE x \in Elements(t)
  <2>1. PICK k \in K : threadIds[k] = x
    BY DEF Elements, K
  <2>2. rank(k) + 1 \in 1 .. N /\ (rank(k) + 1) - 1 = rank(k)
    BY <1>2, <1>4
  <2>3. PICK l \in K : rank(l) = (rank(k) + 1) - 1 /\ t[rank(k) + 1] = threadIds[l]
    BY <1>6, <2>2
  <2>4. l = k
    BY <1>4, <2>2, <2>3
  <2> QED BY <1>7, <2>1, <2>2, <2>3, <2>4 DEF Elements
<1> QED BY <1>2, <1>7, <1>8, <1>9 DEF t
-----------------------------------------------------------------------------
(* A running thread has an id; while its handler, or that of a thread that *)
(* has ended, lives, no other thread has the same, but those in inherited. *)

IdTypes == /\ threadIds \in Seq(Ids \cup {NoId})
           /\ id \in [Handlers -> Ids \cup {NoId}]
           /\ pthreadId \in [Handlers -> Ids \cup {NoId}]
           /\ inherited \subseteq Handlers

HasId(h) == /\ thread[h] \in Existing => id[h] \in Ids
            /\ thread[h] \in Existing \ {"started"} \/ ready[h] => pthreadId[h] = id[h]
            /\ thread[h] = "return" => ready[h]

OwnIds == \A g \in alive, h \in Handlers :
              thread[h] \in Existing /\ g # h /\ id[g] = id[h] => h \in inherited

ToBeListed(h) == thread[h] \in Existing /\ ~ready[h] /\ Registered(h)

Listed == \A h \in Handlers \ inherited : ToBeListed(h) => id[h] \in Elements(threadIds)

IdInv == /\ IdTypes
         /\ \A h \in Handlers : HasId(h)
         /\ OwnIds
         /\ Listed

(* Every entry of threadIds has its handler, and that is not the one about *)
(* to go.                                                                  *)
Stays(h) == /\ h \in alive
            /\ main = "server" => h # Current
            /\ main = "erase" => h \notin LastOwned(Current)

StaleInv == /\ \A i \in Elements(threadIds) :
                   \E h \in Handlers : id[h] = i /\ Registered(h) /\ Stays(h)
            /\ main = "register" => Client(conn) \in alive
            /\ \A c \in Connections :
                  /\ thread[Client(c)] = "register" => Server(c) \in alive
                  /\ Server(c) \in Elements(list) => ready[Client(c)]

(* Threads that may still append an id for a fetcher. *)
Pending == {c \in Connections : thread[Client(c)] \in {"started", "handle", "register"}}

Bounded == inherited = {} =>
    Len(threadIds) + Cardinality(Pending) + (IF main = "register" THEN 1 ELSE 0)
        <= 2 * (MaxConnections + 1)
-----------------------------------------------------------------------------
LEMMA InitIdInv == Init => IdInv
BY EmptySeq DEF Init, IdInv, IdTypes, HasId, OwnIds, Listed, ToBeListed, Existing, UsingHandler

LEMMA IdInvStutters ==
    IdInv /\ UNCHANGED <<main, conn, threadIds, alive, thread, id, pthreadId, ready, inherited>>
        => IdInv'
BY DEF IdInv, IdTypes, HasId, OwnIds, Listed, ToBeListed, Registered

(* Whose id is still to be appended does not depend on ids. *)
LEMMA RegisteredNames ==
    ASSUME NEW c \in Connections
    PROVE  /\ Registered(Client(c)) <=> ~(main = "register" /\ conn = c)
           /\ Registered(Server(c)) <=> thread[Client(c)] # "register"
BY HandlerNames DEF Registered

LEMMA RegisteredNamesNext ==
    ASSUME NEW c \in Connections
    PROVE  /\ Registered(Client(c))' <=> ~(main' = "register" /\ conn' = c)
           /\ Registered(Server(c))' <=> thread'[Client(c)] # "register"
BY HandlerNames DEF Registered

(* A step of a thread on its way from "started" to "ended", if it appends  *)
(* its fetcher's id when it has one to append.                             *)
LEMMA ThreadKeepsIds ==
    ASSUME ListTypes, IdInv, NEW h \in Handlers, NEW next \in ThreadPC \ {"none", "started"},
           thread[h] # "none",
           next \in Existing => thread[h] \in Existing,
           thread' = [thread EXCEPT ![h] = next],
           \/ ready' = ready
           \/ ready' = [ready EXCEPT ![h] = TRUE] /\ thread[h] = "setReady",
           next = "return" => ready'[h],
           \/ pthreadId' = pthreadId /\ thread[h] # "started"
           \/ pthreadId' = [pthreadId EXCEPT ![h] = id[h]],
           threadIds' \in Seq(Ids \cup {NoId}),
           Elements(threadIds) \subseteq Elements(threadIds'),
           \A c \in Connections :
              h = Client(c) /\ thread[h] = "register" /\ thread[Server(c)] \in Existing
                  => id[Server(c)] \in Elements(threadIds'),
           UNCHANGED <<main, conn, alive, id, inherited>>
    PROVE  IdInv'
<1> USE DEF ListTypes
<1>1. IdTypes'
  BY DEF IdInv, IdTypes
<1>2. ASSUME NEW g \in Handlers
      PROVE  HasId(g)'
  <2>1. CASE g = h
    BY <2>1 DEF IdInv, IdTypes, HasId, Existing, UsingHandler
  <2>2. CASE g # h
    BY <2>2 DEF IdInv, IdTypes, HasId
  <2> QED BY <2>1, <2>2
<1>3. \A g \in Handlers : thread'[g] \in Existing => thread[g] \in Existing
  OBVIOUS
<1>4. OwnIds'
  BY <1>3 DEF IdInv, OwnIds
<1>5. \A g \in Handlers : ~ready'[g] => ~ready[g]
  OBVIOUS
<1>6. ASSUME NEW g \in Handlers \ inherited, ToBeListed(g)'
      PROVE  id[g] \in Elements(threadIds')
  <2>1. thread[g] \in Existing /\ ~ready[g]
    BY <1>3, <1>5, <1>6 DEF ToBeListed
  <2>2. CASE Registered(g)
    BY <2>1, <2>2 DEF IdInv, Listed, ToBeListed
  <2>3. CASE ~Registered(g)
    <3>1. PICK c \in Connections : g = Client(c) \/ g = Server(c)
      BY HandlerNames
    <3>2. g = Server(c) /\ thread[Client(c)] = "register" /\ thread'[Client(c)] # "register"
      BY <1>6, <2>3, <3>1, RegisteredNames, RegisteredNamesNext DEF ToBeListed
    <3>3. h = Client(c)
      BY <3>2, HandlerNames
    <3> QED BY <2>1, <3>2, <3>3
  <2> QED BY <2>2, <2>3
<1> QED BY <1>1, <1>2, <1>4, <1>6 DEF IdInv, Listed

LEMMA AnyThreadKeepsIds ==
    ASSUME HandlerInv, IdInv, NEW h \in Handlers, AnyThread(h)
    PROVE  IdInv'
<1> USE DEF HandlerInv, ListTypes, ThreadPC, UsingHandler, Existing
<1>0. threadIds \in Seq(Ids \cup {NoId})
  BY DEF IdInv, IdTypes
<1>1. CASE StartThread(h)
  BY <1>0, <1>1, HandlerNames, ThreadKeepsIds DEF StartThread, Goto, mainVars, objectVars
<1>2. CASE CloseSocket(h)
  BY <1>0, <1>2, HandlerNames, ThreadKeepsIds DEF CloseSocket, Goto, mainVars
<1>3. CASE SetReady(h)
  BY <1>0, <1>3, HandlerNames, ThreadKeepsIds DEF SetReady, Goto, mainVars, objectVars
<1>4. CASE EndThread(h)
  BY <1>0, <1>4, HandlerNames, ThreadKeepsIds DEF EndThread, Goto, mainVars, objectVars
<1> QED BY <1>1, <1>2, <1>3, <1>4 DEF AnyThread

LEMMA FetchKeepsIds ==
    ASSUME HandlerInv, IdInv, NEW c \in Connections, Fetch(c)
    PROVE  IdInv'
<1> USE DEF HandlerInv, ListTypes, ThreadPC, UsingHandler, Existing
<1>0. threadIds \in Seq(Ids \cup {NoId})
  BY DEF IdInv, IdTypes
<1>1. PICK next \in {"close", "setReady"} : thread' = [thread EXCEPT ![Server(c)] = next]
  BY DEF Fetch, Goto
<1> QED BY <1>0, <1>1, HandlerNames, ThreadKeepsIds DEF Fetch, mainVars

(* A thread is created for a handler that has none: it gets an id that no  *)
(* running thread has, and has still to be listed.                         *)
LEMMA NewThreadKeepsIds ==
    ASSUME ListTypes, IdInv, NEW h \in Handlers, NEW i \in FreeIds,
           h \notin alive, thread[h] = "none", ~ready[h],
           GiveId(h, i),
           alive' = alive \cup {h},
           thread'[h] = "started",
           thread' \in [Handlers -> ThreadPC],
           \A g \in Handlers \ {h} :
              /\ thread'[g] \in Existing <=> thread[g] \in Existing
              /\ thread'[g] \in {"started", "return"} => thread'[g] = thread[g]
              /\ thread[g] = "started" => thread'[g] = thread[g],
           ~Registered(h)',
           \A g \in Handlers : g # h /\ Registered(g)' => Registered(g),
           UNCHANGED <<threadIds, pthreadId, ready>>
    PROVE  IdInv'
<1> USE DEF ListTypes
<1>1. /\ i \in Ids /\ id' = [id EXCEPT ![h] = i]
      /\ \A g \in Handlers : thread[g] \in Existing => id[g] # i
      /\ inherited \subseteq inherited' /\ inherited' \subseteq Handlers
      /\ \A g \in alive : id[g] = i => h \in inherited'
  BY DEF FreeIds, GiveId, IdInv, IdTypes
<1>2. IdTypes'
  BY <1>1 DEF IdInv, IdTypes
<1>3. ASSUME NEW g \in Handlers PROVE HasId(g)'
  <2>1. CASE g = h
    BY <1>1, <2>1 DEF IdInv, IdTypes, HasId, Existing, UsingHandler
  <2>2. CASE g # h
    <3>1. /\ id'[g] = id[g] /\ pthreadId'[g] = pthreadId[g] /\ ready'[g] = ready[g]
          /\ HasId(g)
      BY <1>1, <2>2 DEF IdInv, IdTypes
    <3>2. /\ thread'[g] \in Existing <=> thread[g] \in Existing
          /\ thread'[g] \in {"started", "return"} => thread'[g] = thread[g]
          /\ thread[g] = "started" => thread'[g] = thread[g]
      BY <2>2
    <3> QED BY <3>1, <3>2, Zenon DEF HasId
  <2> QED BY <2>1, <2>2
<1>4. ASSUME NEW g \in alive', NEW k \in Handlers,
             thread'[k] \in Existing, g # k, id'[g] = id'[k]
      PROVE  k \in inherited'
  <2>1. CASE k = h
    BY <1>1, <1>4, <2>1 DEF IdInv, IdTypes
  <2>2. k # h => thread[k] \in Existing
    BY <1>4
  <2>3. CASE g = h /\ k # h
    BY <1>1, <1>4, <2>2, <2>3 DEF IdInv, IdTypes
  <2>4. CASE g # h /\ k # h
    <3>1. g \in alive /\ id'[g] = id[g] /\ id'[k] = id[k]
      BY <1>1, <1>4, <2>4 DEF IdInv, IdTypes
    <3> QED BY <1>1, <1>4, <2>2, <2>4, <3>1 DEF IdInv, OwnIds
  <2> QED BY <2>1, <2>3, <2>4
<1>5. ASSUME NEW g \in Handlers \ inherited', ToBeListed(g)'
      PROVE  id'[g] \in Elements(threadIds')
  <2>1. g # h /\ g \notin inherited
    BY <1>1, <1>5 DEF ToBeListed
  <2>2. ToBeListed(g)
    BY <1>5, <2>1 DEF ToBeListed
  <2> QED BY <1>1, <2>1, <2>2 DEF IdInv, IdTypes, Listed
<1> QED BY <1>2, <1>3, <1>4, <1>5 DEF IdInv, OwnIds, Listed

LEMMA ClientThreadKeepsIds ==
    ASSUME HandlerInv, IdInv, NEW c \in Connections, ClientThread(c)
    PROVE  IdInv'
<1> DEFINE h == Client(c)
           s == Server(c)
<1> USE DEF HandlerInv, ListTypes
<1>1. h \in Handlers /\ s \in Handlers /\ h # s
  BY HandlerNames
<1>2. threadIds \in Seq(Ids \cup {NoId})
  BY DEF IdInv, IdTypes
<1>3. CASE RegisterFetcher(c)
  <2>1. /\ thread[h] = "register" /\ thread' = [thread EXCEPT ![h] = "serve"]
        /\ threadIds' = Append(threadIds, id[s])
        /\ UNCHANGED <<main, conn, alive, id, pthreadId, ready, inherited>>
    BY <1>3 DEF RegisterFetcher, Goto, mainVars, objectVars
  <2>2. id[s] \in Ids \cup {NoId}
    BY <1>1 DEF IdInv, IdTypes
  <2>3. /\ threadIds' \in Seq(Ids \cup {NoId})
        /\ Elements(threadIds') = Elements(threadIds) \cup {id[s]}
    BY <1>2, <2>1, <2>2, AppendElements
  <2>4. \A d \in Connections : h = Client(d) => d = c
    BY HandlerNames
  <2> HIDE DEF h
  <2> QED BY <1>1, <2>1, <2>3, <2>4, ThreadKeepsIds DEF ThreadPC, Existing, UsingHandler
<1>4. CASE FinishClient(c)
  <2>1. /\ thread[h] \in {"handle", "serve"} /\ thread' = [thread EXCEPT ![h] = "close"]
        /\ UNCHANGED <<main, conn, threadIds, alive, id, pthreadId, ready, inherited>>
    BY <1>4 DEF FinishClient, Goto, mainVars, objectVars
  <2> HIDE DEF h
  <2> QED BY <1>1, <1>2, <2>1, ThreadKeepsIds DEF ThreadPC, Existing, UsingHandler
<1>5. ASSUME thread[h] = "handle"
      PROVE  s \notin alive /\ thread[s] = "none" /\ ~ready[s] /\ ~ready[h]
  BY <1>1, <1>5, HandlerNames DEF InTurn
<1>6. CASE StartFetcher(c)
  <2>1. PICK i \in FreeIds : GiveId(s, i)
    BY <1>6 DEF StartFetcher
  <2>2. /\ thread[h] = "handle" /\ alive' = alive \cup {s}
        /\ thread' = [thread EXCEPT ![s] = "started", ![h] = "register"]
        /\ UNCHANGED <<main, conn, threadIds, pthreadId, ready>>
    BY <1>6 DEF StartFetcher, mainVars
  <2>3. ~Registered(s)'
    BY <1>1, <2>2, RegisteredNamesNext
  <2>4. ASSUME NEW g \in Handlers, g # s, Registered(g)' PROVE Registered(g)
    <3>1. PICK d \in Connections : g = Client(d) \/ g = Server(d)
      BY HandlerNames
    <3> QED BY <1>1, <2>2, <2>4, <3>1, HandlerNames, RegisteredNames, RegisteredNamesNext
  <2> HIDE DEF h, s
  <2> QED BY <1>1, <1>5, <2>1, <2>2, <2>3, <2>4, NewThreadKeepsIds
          DEF ThreadPC, Existing, UsingHandler
<1>7. CASE StartFetcherFails(c)
  <2>1. PICK i \in FreeIds \cup {NoId} : id' = [id EXCEPT ![s] = i]
    BY <1>7 DEF StartFetcherFails
  <2>2. /\ thread[h] = "handle" /\ alive' = alive \cup {s}
        /\ thread' = [thread EXCEPT ![h] = "register"]
        /\ UNCHANGED <<main, conn, threadIds, pthreadId, ready, inherited>>
    BY <1>7 DEF StartFetcherFails, Goto, mainVars
  <2>3. /\ i \in Ids \cup {NoId}
        /\ \A g \in Handlers : thread[g] \in Existing => id[g] # i
    BY <2>1, HandlerAssumption DEF FreeIds, IdInv, HasId
  <2>4. ASSUME NEW g \in Handlers, g # s, Registered(g)' PROVE Registered(g)
    <3>1. PICK d \in Connections : g = Client(d) \/ g = Server(d)
      BY HandlerNames
    <3> QED BY <1>1, <2>2, <2>4, <3>1, HandlerNames, RegisteredNames, RegisteredNamesNext
  <2> HIDE DEF h, s
  <2>5. /\ thread'[s] = "none" /\ thread[s] = "none"
        /\ \A g \in Handlers : thread'[g] \in Existing <=> thread[g] \in Existing
        /\ \A g \in Handlers : g # s => id'[g] = id[g]
    BY <1>1, <1>5, <2>1, <2>2 DEF Existing, UsingHandler, IdInv, IdTypes
  <2>6. IdTypes'
    BY <1>1, <2>1, <2>2, <2>3 DEF IdInv, IdTypes
  <2>7. ASSUME NEW g \in Handlers PROVE HasId(g)'
    <3>1. CASE g = s
      BY <1>5, <2>2, <2>5, <3>1 DEF HasId, Existing, UsingHandler
    <3>2. CASE g # s
      BY <1>1, <1>5, <2>2, <2>5, <3>2 DEF IdInv, HasId, Existing, UsingHandler
    <3> QED BY <3>1, <3>2
  <2>8. ASSUME NEW g \in alive', NEW k \in Handlers,
               thread'[k] \in Existing, g # k, id'[g] = id'[k]
        PROVE  k \in inherited'
    <3>1. k # s /\ thread[k] \in Existing
      BY <2>5, <2>8 DEF Existing, UsingHandler
    <3>2. CASE g = s
      BY <1>1, <2>1, <2>3, <2>5, <2>8, <3>1, <3>2 DEF IdInv, IdTypes
    <3>3. CASE g # s
      BY <2>2, <2>5, <2>8, <3>1, <3>3 DEF IdInv, OwnIds
    <3> QED BY <3>2, <3>3
  <2>9. ASSUME NEW g \in Handlers \ inherited', ToBeListed(g)'
        PROVE  id'[g] \in Elements(threadIds')
    <3>1. g # s /\ ToBeListed(g)
      BY <2>2, <2>4, <2>5, <2>9 DEF ToBeListed, Existing, UsingHandler
    <3> QED BY <2>2, <2>5, <2>9, <3>1 DEF IdInv, Listed
  <2> QED BY <2>6, <2>7, <2>8, <2>9 DEF IdInv, OwnIds, Listed
<1> QED BY <1>3, <1>4, <1>6, <1>7 DEF ClientThread

(* A step of the main thread that makes no thread and removes at most the  *)
(* id of a handler that is ready.                                          *)
LEMMA MainStepKeepsIds ==
    ASSUME ListTypes, IdInv,
           threadIds' \in Seq(Ids \cup {NoId}),
           \/ Elements(threadIds) \subseteq Elements(threadIds')
           \/ \E g \in alive : /\ ready[g]
                              /\ Elements(threadIds') = Elements(threadIds) \ {pthreadId[g]},
           alive' \subseteq alive,
           \A h \in Handlers :
              Registered(h)' => Registered(h) \/ id[h] \in Elements(threadIds'),
           UNCHANGED <<thread, id, pthreadId, ready, inherited>>
    PROVE  IdInv'
<1>1. IdTypes' /\ (\A h \in Handlers : HasId(h)') /\ OwnIds'
  BY DEF IdInv, IdTypes, HasId, OwnIds
<1>2. ASSUME NEW h \in Handlers \ inherited, ToBeListed(h)'
      PROVE  id[h] \in Elements(threadIds')
  <2>1. CASE ~Registered(h)
    BY <1>2, <2>1 DEF ToBeListed
  <2>2. CASE Registered(h)
    <3>1. ToBeListed(h) /\ id[h] \in Elements(threadIds)
      BY <1>2, <2>2 DEF ToBeListed, IdInv, Listed
    <3>2. ASSUME NEW g \in alive, ready[g] PROVE pthreadId[g] # id[h]
      <4>1. g \in Handlers /\ g # h /\ pthreadId[g] = id[g]
        BY <3>1, <3>2 DEF ListTypes, ToBeListed, IdInv, HasId
      <4> QED BY <3>1, <4>1 DEF ToBeListed, IdInv, OwnIds
    <3> QED BY <3>1, <3>2
  <2> QED BY <2>1, <2>2
<1> QED BY <1>1, <1>2 DEF IdInv, Listed

LEMMA MainKeepsIds ==
    ASSUME HandlerInv, IdInv, RegisterConnection \/ CheckHandlers
    PROVE  IdInv'
<1> USE DEF HandlerInv
<1>1. threadIds \in Seq(Ids \cup {NoId}) /\ conn \in Connections
  BY DEF IdInv, IdTypes, ListTypes
<1>2. CASE RegisterConnection
  <2>1. /\ threadIds' = Append(threadIds, id[Client(conn)])
        /\ main = "register" /\ main' = "check" /\ conn' = conn
        /\ UNCHANGED <<thread, id, pthreadId, ready, inherited, alive>>
    BY <1>2 DEF RegisterConnection, threadVars, objectVars
  <2>2. /\ threadIds' \in Seq(Ids \cup {NoId})
        /\ Elements(threadIds') = Elements(threadIds) \cup {id[Client(conn)]}
    <3>1. id[Client(conn)] \in Ids \cup {NoId}
      BY <1>1, HandlerNames DEF IdInv, IdTypes
    <3> QED BY <1>1, <2>1, <3>1, AppendElements
  <2>3. ASSUME NEW h \in Handlers, Registered(h)'
        PROVE  Registered(h) \/ id[h] \in Elements(threadIds')
    <3>1. PICK c \in Connections : h = Client(c) \/ h = Server(c)
      BY HandlerNames
    <3> QED BY <2>1, <2>2, <2>3, <3>1, RegisteredNames, RegisteredNamesNext
  <2> QED BY <2>1, <2>2, <2>3, MainStepKeepsIds
<1>3. ASSUME UNCHANGED <<conn, thread>>, main # "register", main' # "register",
             NEW h \in Handlers
      PROVE  Registered(h)' => Registered(h)
  BY <1>3 DEF Registered
<1>4. CASE SkipHandler \/ TakeOverServer \/ EndCheck
  <2>1. UNCHANGED <<threadIds, alive, thread, id, pthreadId, ready, inherited, conn>>
        /\ main # "register" /\ main' # "register"
    BY <1>4 DEF SkipHandler, TakeOverServer, EndCheck, threadVars, objectVars
  <2> QED BY <1>1, <1>3, <2>1, MainStepKeepsIds
<1>5. CASE EraseHandler
  <2>1. UNCHANGED <<threadIds, thread, id, pthreadId, ready, inherited, conn>>
        /\ alive' \subseteq alive /\ main # "register" /\ main' # "register"
    BY <1>5 DEF EraseHandler, Destroy, threadVars
  <2> QED BY <1>1, <1>3, <2>1, MainStepKeepsIds
<1>6. CASE ReapHandler \/ ReapServer
  <2>1. PICK g \in alive : ready[g] /\ threadIds' = RemoveThreadId(pthreadId[g])
    <3>1. CASE ReapHandler
      <4>1. /\ ready[Current] /\ threadIds' = RemoveThreadId(pthreadId[Current])
            /\ iter <= Len(list)
        BY <3>1 DEF ReapHandler
      <4>2. Current \in Elements(list)
        BY <4>1, LenProperties DEF ListTypes, Current, Elements
      <4> QED BY <4>1, <4>2 DEF Owned
    <3>2. CASE ReapServer
      <4>1. /\ main = "server" /\ ready[Server(Current[1])]
            /\ threadIds' = RemoveThreadId(pthreadId[Server(Current[1])])
        BY <3>2 DEF ReapServer
      <4>2. PICK c \in Connections : Current = Client(c) /\ Server(c) \in alive
        BY <4>1 DEF Dropping, Current
      <4> QED BY <4>1, <4>2, HandlerNames
    <3> QED BY <1>6, <3>1, <3>2
  <2>2. /\ UNCHANGED <<alive, thread, id, pthreadId, ready, inherited, conn>>
        /\ main # "register" /\ main' # "register"
    BY <1>6 DEF ReapHandler, ReapServer, threadVars, objectVars
  <2> QED BY <1>1, <1>3, <2>1, <2>2, RemainingIds, MainStepKeepsIds
<1> QED BY <1>2, <1>4, <1>5, <1>6 DEF CheckHandlers

LEMMA AcceptKeepsIds ==
    ASSUME HandlerInv, IdInv, Accept
    PROVE  IdInv'
<1> USE DEF HandlerInv
<1> PICK c \in Connections : RejectConnection(c) \/ AddConnection(c) \/ AddConnectionFails(c)
  BY DEF Accept
<1>1. /\ main = "accept" /\ socket[Client(c)] = "none" /\ conn' = c
      /\ Client(c) \in Handlers
  BY HandlerNames DEF RejectConnection, AddConnection, AddConnectionFails, Arrive
<1>2. threadIds \in Seq(Ids \cup {NoId})
  BY DEF IdInv, IdTypes
<1>3. CASE RejectConnection(c) \/ AddConnectionFails(c)
  <2>1. main' = "check"
        /\ UNCHANGED <<threadIds, alive, thread, id, pthreadId, ready, inherited>>
    BY <1>3 DEF RejectConnection, AddConnectionFails, threadVars
  <2>2. \A h \in Handlers : Registered(h)' => Registered(h)
    BY <1>1, <2>1 DEF Registered
  <2> QED BY <1>2, <2>1, <2>2, MainStepKeepsIds
<1>4. CASE AddConnection(c)
  <2> DEFINE h == Client(c)
  <2>1. PICK i \in FreeIds : GiveId(h, i)
    BY <1>4 DEF AddConnection
  <2>2. /\ alive' = alive \cup {h} /\ thread' = [thread EXCEPT ![h] = "started"]
        /\ main' = "register" /\ UNCHANGED <<threadIds, pthreadId, ready>>
    BY <1>4 DEF AddConnection
  <2>3. h \notin alive /\ thread[h] = "none" /\ ~ready[h]
    BY <1>1 DEF InTurn
  <2>4. ~Registered(h)'
    BY <1>1, <2>2, RegisteredNamesNext
  <2>5. ASSUME NEW g \in Handlers, Registered(g)' PROVE Registered(g)
    <3>1. PICK d \in Connections : g = Client(d) \/ g = Server(d)
      BY HandlerNames
    <3> QED BY <1>1, <2>2, <2>3, <2>5, <3>1, HandlerNames, RegisteredNames,
               RegisteredNamesNext DEF ListTypes
  <2> HIDE DEF h
  <2>6. /\ thread' \in [Handlers -> ThreadPC] /\ thread'[h] = "started"
        /\ \A g \in Handlers \ {h} : thread'[g] = thread[g]
    BY <1>1, <2>2 DEF ListTypes, ThreadPC, Existing, UsingHandler, h
  <2>7. h \in Handlers
    BY <1>1 DEF h
  <2> QED BY <2>1, <2>2, <2>3, <2>4, <2>5, <2>6, <2>7, NewThreadKeepsIds
<1> QED BY <1>3, <1>4

LEMMA NextKeepsIds == HandlerInv /\ IdInv /\ [Next]_vars => IdInv'
<1> SUFFICES ASSUME HandlerInv, IdInv, [Next]_vars PROVE IdInv'
  OBVIOUS
<1>1. CASE Accept
  BY <1>1, AcceptKeepsIds
<1>2. CASE RegisterConnection \/ CheckHandlers
  BY <1>2, MainKeepsIds
<1>3. ASSUME NEW c \in Connections, ClientThread(c) \/ Fetch(c) PROVE IdInv'
  BY <1>3, ClientThreadKeepsIds, FetchKeepsIds
<1>4. ASSUME NEW h \in Handlers, AnyThread(h) PROVE IdInv'
  BY <1>4, AnyThreadKeepsIds
<1>5. CASE AllDone \/ UNCHANGED vars
  BY <1>5, IdInvStutters DEF AllDone, vars, mainVars, threadVars, objectVars
<1> QED BY <1>1, <1>2, <1>3, <1>4, <1>5 DEF Next

(* A running thread that is missing from threadIds was given its id while  *)
(* a handler that had the same one was still alive: the removal of that    *)
(* handler's id is the only way to get lost.                               *)
THEOREM ThreadsListed == Spec => []LiveThreadsListed
<1>1. Init => HandlerInv /\ IdInv
  BY InitHandlerInv, InitIdInv
<1>2. HandlerInv /\ IdInv /\ [Next]_vars => (HandlerInv /\ IdInv)'
  BY NextKeepsInv, NextKeepsIds
<1>3. HandlerInv /\ IdInv => LiveThreadsListed
  BY SameElements DEF HandlerInv, ListTypes, IdInv, IdTypes, Listed, ToBeListed,
                      LiveThreadsListed
<1> QED BY <1>1, <1>2, <1>3, PTL DEF Spec

(* Every variable keeps its type. *)
THEOREM HandlerTypes == Spec => []TypeOK
<1>1. Init => HandlerInv /\ SocketInv /\ IdInv
  BY InitHandlerInv, InitIdInv DEF Init, SocketInv, Tidy, InHandle
<1>2. HandlerInv /\ SocketInv /\ IdInv /\ [Next]_vars => (HandlerInv /\ SocketInv /\ IdInv)'
  BY NextKeepsInv, NextKeepsSockets, NextKeepsIds
<1>3. HandlerInv /\ SocketInv /\ IdInv => TypeOK
  BY DEF HandlerInv, ListTypes, SocketInv, IdInv, IdTypes, TypeOK
<1> QED BY <1>1, <1>2, <1>3, PTL DEF Spec
-----------------------------------------------------------------------------
(* Whose ids threadIds holds.                                              *)

EntryOf(i, h) == id[h] = i /\ Registered(h) /\ Stays(h)

LEMMA InitStaleInv == Init => StaleInv
BY EmptySeq, HandlerNames DEF Init, StaleInv, Elements

LEMMA StaleInvStutters ==
    StaleInv /\ UNCHANGED <<main, conn, list, iter, threadIds, alive, thread, id, ready>>
        => StaleInv'
BY DEF StaleInv, Stays, Registered, LastOwned, Current

(* Steps of threads: they append an id for a handler that lives and is not *)
(* about to go, and they destroy nothing.                                  *)
LEMMA ThreadKeepsEntries ==
    ASSUME HandlerInv, StaleInv,
           UNCHANGED <<main, conn, list, iter>>,
           alive \subseteq alive',
           \A g \in alive : id'[g] = id[g],
           \A h \in alive : Registered(h) => Registered(h)',
           \A g \in Handlers : ready[g] => ready'[g],
           \A c \in Connections : Server(c) \in alive' \ alive => ~ready[Client(c)],
           \A c \in Connections : thread'[Client(c)] = "register" => Server(c) \in alive',
           \/ Elements(threadIds') \subseteq Elements(threadIds)
           \/ \E c \in Connections :
                 /\ Elements(threadIds') = Elements(threadIds) \cup {id[Server(c)]}
                 /\ Server(c) \in alive /\ ~ready[Client(c)] /\ Registered(Server(c))'
    PROVE  StaleInv'
<1> USE DEF HandlerInv
<1>0. /\ Current' = Current
      /\ main \in {"server", "erase"} => Current \in Handlers /\ ready[Current] /\ Current \in alive
  <2>1. main \in {"server", "erase"} => /\ iter \in DOMAIN list
                                        /\ Current \in Elements(list) /\ ready[Current]
    BY DEF Dropping, Elements, Current
  <2> QED BY <2>1 DEF Owned, ListTypes, Current
<1>1. ASSUME NEW h \in Handlers, Stays(h)
      PROVE  Stays(h)'
  <2>1. CASE main = "erase"
    <3>1. h \notin LastOwned(Current) /\ h \in alive
      BY <1>1, <2>1 DEF Stays
    <3>2. h \notin LastOwned(Current)'
      BY <1>0, <3>1 DEF LastOwned
    <3> QED BY <1>0, <2>1, <3>1, <3>2 DEF Stays
  <2> QED BY <1>0, <1>1, <2>1 DEF Stays
<1>2. ASSUME NEW c \in Connections, Server(c) \in alive, ~ready[Client(c)]
      PROVE  Stays(Server(c))
  <2>1. Server(c) \notin Elements(list)
    BY <1>2 DEF StaleInv
  <2>2. main \in {"server", "erase"} => Current # Server(c) /\ Current # Client(c)
    <3>1. main \in {"server", "erase"} => Current \in Elements(list)
      BY DEF Dropping, Elements, Current
    <3> QED BY <1>0, <1>2, <2>1, <3>1
  <2>3. main \in {"server", "erase"} => Server(c) \notin LastOwned(Current)
    <3>1. SUFFICES ASSUME main \in {"server", "erase"}, Server(c) \in LastOwned(Current)
                   PROVE  FALSE
      OBVIOUS
    <3>2. PICK d \in Connections : Current = Client(d) \/ Current = Server(d)
      BY <1>0, <3>1, HandlerNames
    <3> QED BY <2>2, <3>1, <3>2, HandlerNames DEF LastOwned
  <2> QED BY <1>2, <2>2, <2>3 DEF Stays
<1>3. ASSUME NEW i \in Elements(threadIds')
      PROVE  \E h \in Handlers : EntryOf(i, h)'
  <2>1. CASE i \in Elements(threadIds)
    <3>1. PICK h \in Handlers : EntryOf(i, h)
      BY <2>1 DEF StaleInv, EntryOf
    <3>2. h \in alive /\ id[h] = i /\ Registered(h) /\ Stays(h)
      BY <3>1 DEF EntryOf, Stays
    <3>3. id'[h] = i /\ Registered(h)' /\ Stays(h)'
      BY <1>1, <3>2
    <3> QED BY <3>3 DEF EntryOf
  <2>2. CASE i \notin Elements(threadIds)
    <3>1. PICK c \in Connections : /\ i = id[Server(c)] /\ Server(c) \in alive
                                   /\ ~ready[Client(c)] /\ Registered(Server(c))'
      BY <1>3, <2>2
    <3>2. Server(c) \in Handlers /\ Stays(Server(c))' /\ id'[Server(c)] = i
      BY <1>1, <1>2, <3>1, HandlerNames
    <3> QED BY <3>1, <3>2 DEF EntryOf
  <2> QED BY <2>1, <2>2
<1>4. main' = "register" => Client(conn') \in alive'
  BY DEF StaleInv
<1>5. ASSUME NEW c \in Connections, Server(c) \in Elements(list')
      PROVE  ready'[Client(c)]
  BY <1>5, HandlerNames DEF StaleInv
<1> QED BY <1>3, <1>4, <1>5 DEF StaleInv, EntryOf

LEMMA ThreadsKeepEntries ==
    ASSUME HandlerInv, IdInv, StaleInv, NEW h \in Handlers, AnyThread(h)
    PROVE  StaleInv'
<1>1. /\ UNCHANGED <<main, conn, list, iter, threadIds, alive, id>>
      /\ \E next \in {"handle", "setReady", "return", "ended"} :
            thread' = [thread EXCEPT ![h] = next]
      /\ thread[h] \in {"started", "close", "setReady", "return"}
      /\ \A g \in Handlers : ready[g] => ready'[g]
  BY DEF AnyThread, StartThread, CloseSocket, SetReady, EndThread, Goto, mainVars, objectVars,
         HandlerInv, ListTypes
<1>2. \A g \in Handlers : /\ Registered(g)' <=> Registered(g)
                          /\ thread'[g] = "register" => thread[g] = "register"
  <2>1. \A g \in Handlers : thread'[g] = "register" <=> thread[g] = "register"
    BY <1>1 DEF HandlerInv, ListTypes
  <2>2. ASSUME NEW g \in Handlers PROVE Registered(g)' <=> Registered(g)
    <3>1. PICK d \in Connections : g = Client(d) \/ g = Server(d)
      BY HandlerNames
    <3> QED BY <1>1, <2>1, <3>1, HandlerNames, RegisteredNames, RegisteredNamesNext
  <2> QED BY <2>1, <2>2
<1>3. \A c \in Connections : thread'[Client(c)] = "register" => Server(c) \in alive'
  BY <1>1, <1>2, HandlerNames DEF StaleInv
<1> QED BY <1>1, <1>2, <1>3, ThreadKeepsEntries DEF HandlerInv, ListTypes

LEMMA FetchKeepsEntries ==
    ASSUME HandlerInv, IdInv, StaleInv, NEW c \in Connections, Fetch(c)
    PROVE  StaleInv'
<1>1. /\ UNCHANGED <<main, conn, list, iter, threadIds, alive, id, ready>>
      /\ \E next \in {"close", "setReady"} : thread' = [thread EXCEPT ![Server(c)] = next]
  BY DEF Fetch, Goto, mainVars
<1>2. \A d \in Connections : thread'[Client(d)] = thread[Client(d)]
  BY <1>1, HandlerNames DEF HandlerInv, ListTypes
<1>3. ASSUME NEW g \in Handlers PROVE Registered(g)' <=> Registered(g)
  <2>1. PICK d \in Connections : g = Client(d) \/ g = Server(d)
    BY HandlerNames
  <2> QED BY <1>1, <1>2, <2>1, HandlerNames, RegisteredNames, RegisteredNamesNext
<1>4. \A d \in Connections : thread'[Client(d)] = "register" => Server(d) \in alive'
  BY <1>1, <1>2, HandlerNames DEF StaleInv
<1> QED BY <1>1, <1>3, <1>4, ThreadKeepsEntries DEF HandlerInv, ListTypes

LEMMA ClientsKeepEntries ==
    ASSUME HandlerInv, IdInv, StaleInv, NEW c \in Connections, ClientThread(c)
    PROVE  StaleInv'
<1> DEFINE h == Client(c)
           s == Server(c)
<1> USE DEF HandlerInv, ListTypes
<1>1. h \in Handlers /\ s \in Handlers /\ h # s
  BY HandlerNames
<1>2. CASE RegisterFetcher(c) \/ FinishClient(c)
  <2>1. /\ UNCHANGED <<main, conn, list, iter, alive, id, ready>>
        /\ \E next \in {"serve", "close"} : thread' = [thread EXCEPT ![h] = next]
        /\ thread[h] \in {"register", "handle", "serve"}
    BY <1>2 DEF RegisterFetcher, FinishClient, Goto, mainVars, objectVars
  <2>2. /\ thread'[h] # "register" /\ ~ready[h]
        /\ \A d \in Connections : d # c => thread'[Client(d)] = thread[Client(d)]
    BY <1>1, <2>1, HandlerNames DEF InTurn
  <2>3. ASSUME NEW g \in Handlers, Registered(g) PROVE Registered(g)'
    <3>1. PICK d \in Connections : g = Client(d) \/ g = Server(d)
      BY HandlerNames
    <3> QED BY <2>1, <2>2, <2>3, <3>1, HandlerNames, RegisteredNames, RegisteredNamesNext
  <2>4. Registered(s)'
    BY <2>2, RegisteredNamesNext
  <2>5. \A d \in Connections : thread'[Client(d)] = "register" => Server(d) \in alive'
    BY <2>1, <2>2 DEF StaleInv
  <2>6. \/ Elements(threadIds') \subseteq Elements(threadIds)
        \/ /\ Elements(threadIds') = Elements(threadIds) \cup {id[s]}
           /\ s \in alive
    <3>1. CASE RegisterFetcher(c)
      <4>1. threadIds' = Append(threadIds, id[s]) /\ thread[h] = "register"
        BY <3>1 DEF RegisterFetcher
      <4>2. threadIds \in Seq(Ids \cup {NoId}) /\ id[s] \in Ids \cup {NoId}
        BY <1>1 DEF IdInv, IdTypes
      <4>3. Elements(threadIds') = Elements(threadIds) \cup {id[s]}
        BY <4>1, <4>2, AppendElements
      <4> QED BY <4>1, <4>3 DEF StaleInv
    <3>2. CASE FinishClient(c)
      BY <3>2 DEF FinishClient
    <3> QED BY <1>2, <3>1, <3>2
  <2> QED BY <2>1, <2>2, <2>3, <2>4, <2>5, <2>6, ThreadKeepsEntries
<1>3. CASE StartFetcher(c) \/ StartFetcherFails(c)
  <2>1. /\ UNCHANGED <<main, conn, list, iter, threadIds, ready>>
        /\ thread[h] = "handle" /\ alive' = alive \cup {s}
        /\ \E i \in Ids \cup {NoId} : id' = [id EXCEPT ![s] = i]
    BY <1>3 DEF StartFetcher, StartFetcherFails, mainVars, GiveId, FreeIds
  <2>2. s \notin alive /\ ~ready[h]
    BY <1>1, <2>1 DEF InTurn
  <2>3. \A d \in Connections : d # c => thread'[Client(d)] = thread[Client(d)]
    BY <1>3, HandlerNames DEF StartFetcher, StartFetcherFails, Goto
  <2>4. ASSUME NEW g \in alive, Registered(g) PROVE Registered(g)'
    <3>1. PICK d \in Connections : g = Client(d) \/ g = Server(d)
      BY HandlerNames
    <3> QED BY <2>1, <2>2, <2>3, <2>4, <3>1, HandlerNames, RegisteredNames, RegisteredNamesNext
  <2>5. \A d \in Connections : thread'[Client(d)] = "register" => Server(d) \in alive'
    BY <2>1, <2>3 DEF StaleInv
  <2>6. \A g \in alive : id'[g] = id[g]
    BY <2>1, <2>2 DEF IdInv, IdTypes
  <2>7. \A d \in Connections : Server(d) \in alive' \ alive => ~ready[Client(d)]
    BY <2>1, <2>2, HandlerNames
  <2> QED BY <2>1, <2>4, <2>5, <2>6, <2>7, ThreadKeepsEntries
<1> QED BY <1>2, <1>3 DEF ClientThread

LEMMA AcceptKeepsEntries ==
    ASSUME HandlerInv, IdInv, StaleInv, Accept
    PROVE  StaleInv'
<1> USE DEF HandlerInv, ListTypes
<1> PICK c \in Connections : RejectConnection(c) \/ AddConnection(c) \/ AddConnectionFails(c)
  BY DEF Accept
<1> DEFINE h == Client(c)
<1>1. /\ main = "accept" /\ h \in Handlers /\ h \notin alive /\ thread[h] = "none"
      /\ threadIds' = threadIds /\ ready' = ready /\ conn' = c
  BY HandlerNames DEF RejectConnection, AddConnection, AddConnectionFails, Arrive, InTurn,
                      threadVars
<1>2. /\ main' \in {"check", "register"}
      /\ alive \subseteq alive'
      /\ main' = "register" => h \in alive'
      /\ \A g \in alive : id'[g] = id[g]
      /\ \A g \in Handlers : thread'[g] = "register" <=> thread[g] = "register"
      /\ Elements(list') \subseteq Elements(list) \cup {h}
  <2>1. CASE RejectConnection(c) \/ AddConnectionFails(c)
    BY <2>1 DEF RejectConnection, AddConnectionFails, threadVars
  <2>2. CASE AddConnection(c)
    <3>1. Elements(list') = Elements(list) \cup {h}
      BY <1>1, <2>2, AppendElements DEF AddConnection
    <3> QED BY <1>1, <2>2, <3>1 DEF AddConnection, GiveId, IdInv, IdTypes
  <2> QED BY <2>1, <2>2
<1> HIDE DEF h
<1>3. ASSUME NEW i \in Elements(threadIds)
      PROVE  \E g \in Handlers : EntryOf(i, g)'
  <2>1. PICK g \in Handlers : g \in alive /\ id[g] = i /\ Registered(g)
    BY DEF StaleInv, Stays
  <2>2. PICK d \in Connections : g = Client(d) \/ g = Server(d)
    BY HandlerNames
  <2>3. Registered(g)'
    BY <1>1, <1>2, <2>1, <2>2, HandlerNames, RegisteredNames, RegisteredNamesNext DEF h
  <2>4. Stays(g)'
    BY <1>2, <2>1 DEF Stays
  <2> QED BY <1>2, <2>1, <2>3, <2>4 DEF EntryOf
<1>4. ASSUME NEW d \in Connections
      PROVE  /\ thread'[Client(d)] = "register" => Server(d) \in alive'
             /\ Server(d) \in Elements(list') => ready'[Client(d)]
  BY <1>1, <1>2, HandlerNames DEF StaleInv, h
<1> QED BY <1>1, <1>2, <1>3, <1>4 DEF StaleInv, EntryOf, h

LEMMA RegisterKeepsEntries ==
    ASSUME HandlerInv, IdInv, StaleInv, RegisterConnection
    PROVE  StaleInv'
<1> USE DEF HandlerInv, ListTypes
<1>1. /\ main = "register" /\ main' = "check"
      /\ threadIds' = Append(threadIds, id[Client(conn)])
      /\ UNCHANGED <<conn, list, thread, id, ready, alive>>
  BY DEF RegisterConnection, threadVars, objectVars
<1>2. Client(conn) \in Handlers /\ Client(conn) \in alive
  BY <1>1, HandlerNames DEF StaleInv
<1>3. Elements(threadIds') = Elements(threadIds) \cup {id[Client(conn)]}
  <2>1. threadIds \in Seq(Ids \cup {NoId}) /\ id[Client(conn)] \in Ids \cup {NoId}
    BY <1>2 DEF IdInv, IdTypes
  <2> QED BY <1>1, <2>1, AppendElements
<1>4. ASSUME NEW g \in Handlers, Registered(g) \/ g = Client(conn) PROVE Registered(g)'
  BY <1>1, <1>4, HandlerNames DEF Registered
<1>5. ASSUME NEW i \in Elements(threadIds') PROVE \E g \in Handlers : EntryOf(i, g)'
  <2>1. CASE i \in Elements(threadIds)
    BY <1>1, <1>4, <2>1 DEF StaleInv, EntryOf, Stays
  <2>2. CASE i = id[Client(conn)]
    BY <1>1, <1>2, <1>4, <2>2 DEF EntryOf, Stays
  <2> QED BY <1>3, <1>5, <2>1, <2>2
<1> QED BY <1>1, <1>5 DEF StaleInv, EntryOf

(* What the main thread does to the handler it looks at. *)
LEMMA ReapKeepsEntries ==
    ASSUME HandlerInv, IdInv, StaleInv, ReapHandler \/ ReapServer \/ TakeOverServer
    PROVE  StaleInv'
<1> USE DEF HandlerInv, ListTypes
<1>1. /\ UNCHANGED <<conn, iter, alive, thread, id, ready>>
      /\ main \in {"check", "server"} /\ main' \in {"server", "erase"}
  BY DEF ReapHandler, ReapServer, TakeOverServer, threadVars, objectVars
<1>2. threadIds \in Seq(Ids \cup {NoId})
  BY DEF IdInv, IdTypes
<1>3. \A g \in Handlers : Registered(g) => Registered(g)'
  BY <1>1 DEF Registered
<1>4. ASSUME NEW g \in alive, ready[g], threadIds' = RemoveThreadId(pthreadId[g]),
             NEW i \in Elements(threadIds')
      PROVE  i \in Elements(threadIds) /\ i # id[g]
  BY <1>2, <1>4, RemainingIds DEF IdInv, HasId
<1>5. CASE ReapHandler
  <2>1. /\ main = "check" /\ ready[Current] /\ list' = list /\ Current' = Current
        /\ threadIds' = RemoveThreadId(pthreadId[Current])
        /\ iter <= Len(list)
        /\ main' = "erase" => ~\E c \in Connections : Current = Client(c) /\ Server(c) \in alive
    BY <1>1, <1>5 DEF ReapHandler, Current
  <2>2. Current \in Elements(list) /\ Current \in alive
    BY <2>1, LenProperties DEF Current, Elements, Owned
  <2>3. main' = "erase" => LastOwned(Current)' = {Current}
    <3>1. SUFFICES ASSUME main' = "erase", NEW g \in alive, Current[2] = "client",
                          g = Server(Current[1])
                   PROVE  FALSE
      BY <1>1, <2>1 DEF LastOwned
    <3>2. PICK c \in Connections : Current = Client(c)
      BY <2>2, <3>1, HandlerNames
    <3> QED BY <2>1, <3>1, <3>2, HandlerNames
  <2>4. ASSUME NEW i \in Elements(threadIds') PROVE \E g \in Handlers : EntryOf(i, g)'
    <3>1. i \in Elements(threadIds) /\ i # id[Current]
      BY <1>4, <2>1, <2>2
    <3>2. PICK g \in Handlers : EntryOf(i, g)
      BY <3>1 DEF StaleInv, EntryOf
    <3>3. g # Current /\ g \in alive
      BY <3>1, <3>2 DEF EntryOf, Stays
    <3>4. Stays(g)'
      BY <1>1, <2>1, <2>3, <3>3 DEF Stays
    <3> QED BY <1>1, <1>3, <3>2, <3>4 DEF EntryOf
  <2> QED BY <1>1, <2>1, <2>4 DEF StaleInv, EntryOf
<1>6. CASE ReapServer \/ TakeOverServer
  <2>1. main = "server" /\ main' = "erase"
    BY <1>6 DEF ReapServer, TakeOverServer
  <2>2. PICK c \in Connections : Current = Client(c) /\ Server(c) \in alive
    BY <2>1 DEF Dropping, Current
  <2>3. Current[1] = c /\ Current[2] = "client" /\ ready[Client(c)]
        /\ Client(c) # Server(c) /\ Server(c) \in Handlers
        /\ iter \in DOMAIN list
    BY <2>1, <2>2, HandlerNames DEF Dropping, Current
  <2>4. ASSUME NEW i \in Elements(threadIds)
        PROVE  \E g \in Handlers : EntryOf(i, g) /\ g # Client(c) /\ g \in alive
    BY <2>1, <2>2 DEF StaleInv, EntryOf, Stays
  <2>5. CASE ReapServer
    <3>1. /\ ready[Server(c)] /\ threadIds' = RemoveThreadId(pthreadId[Server(c)])
          /\ list' = list /\ Current' = Client(c)
      BY <1>1, <2>2, <2>3, <2>5 DEF ReapServer, Current
    <3>2. LastOwned(Current)' \subseteq {Client(c), Server(c)}
      BY <3>1, HandlerNames DEF LastOwned
    <3>3. ASSUME NEW i \in Elements(threadIds') PROVE \E g \in Handlers : EntryOf(i, g)'
      <4>1. i \in Elements(threadIds) /\ i # id[Server(c)]
        BY <1>4, <2>2, <3>1
      <4>2. PICK g \in Handlers : EntryOf(i, g) /\ g # Client(c) /\ g \in alive
        BY <2>4, <4>1
      <4>3. g # Server(c)
        BY <4>1, <4>2 DEF EntryOf
      <4>4. Stays(g)'
        BY <1>1, <2>1, <3>2, <4>2, <4>3 DEF Stays
      <4> QED BY <1>1, <1>3, <4>2, <4>4 DEF EntryOf
    <3> QED BY <1>1, <2>1, <3>1, <3>3 DEF StaleInv, EntryOf
  <2>6. CASE TakeOverServer
    <3>1. /\ list' = Append(list, Server(c)) /\ threadIds' = threadIds
      BY <2>3, <2>6 DEF TakeOverServer
    <3>2. /\ Elements(list') = Elements(list) \cup {Server(c)}
          /\ Current' = Client(c)
      BY <1>1, <2>2, <2>3, <3>1, AppendElements DEF Current
    <3>3. Contains(list', Server(c))
      <4>1. list' \in Seq(Handlers)
        BY <2>3, <3>1, AppendElements
      <4> QED BY <3>2, <4>1, SameElements
    <3>4. LastOwned(Current)' = {Client(c)}
      BY <3>2, <3>3, HandlerNames DEF LastOwned
    <3>5. ASSUME NEW i \in Elements(threadIds') PROVE \E g \in Handlers : EntryOf(i, g)'
      <4>1. PICK g \in Handlers : EntryOf(i, g) /\ g # Client(c) /\ g \in alive
        BY <2>4, <3>1, <3>5
      <4>2. Stays(g)'
        BY <1>1, <2>1, <3>4, <4>1 DEF Stays
      <4> QED BY <1>1, <1>3, <4>1, <4>2 DEF EntryOf
    <3>6. ASSUME NEW d \in Connections, Server(d) \in Elements(list')
          PROVE  ready'[Client(d)]
      BY <1>1, <2>3, <3>2, <3>6, HandlerNames DEF StaleInv
    <3> QED BY <1>1, <2>1, <3>5, <3>6 DEF StaleInv, EntryOf
  <2> QED BY <1>6, <2>5, <2>6
<1> QED BY <1>5, <1>6

LEMMA EraseKeepsEntries ==
    ASSUME HandlerInv, IdInv, StaleInv, EraseHandler
    PROVE  StaleInv'
<1> USE DEF HandlerInv, ListTypes
<1>1. /\ main = "erase" /\ main' = "check"
      /\ list' = RemoveAt(list, iter)
      /\ alive' = alive \ LastOwned(Current)
      /\ UNCHANGED <<conn, threadIds, thread, id, ready>>
  BY DEF EraseHandler, Destroy, threadVars
<1>2. iter \in DOMAIN list /\ Elements(list') \subseteq Elements(list)
      /\ \A g \in LastOwned(Current) : ready[g]
  <2>1. /\ iter \in DOMAIN list /\ Current \in Handlers
        /\ \A g \in LastOwned(Current) : ready[g]
    BY <1>1, LastOwnedReady DEF Current
  <2> QED BY <1>1, <2>1, RemoveElements DEF Owned
<1>3. ASSUME NEW i \in Elements(threadIds') PROVE \E g \in Handlers : EntryOf(i, g)'
  <2>1. PICK g \in Handlers : EntryOf(i, g)
    BY <1>1, <1>3 DEF StaleInv, EntryOf
  <2>2. g \in alive'
    BY <1>1, <2>1 DEF EntryOf, Stays
  <2>3. Registered(g)'
    BY <1>1, <2>1 DEF EntryOf, Registered
  <2> QED BY <1>1, <2>1, <2>2, <2>3 DEF EntryOf, Stays
<1>4. ASSUME NEW c \in Connections
      PROVE  /\ thread'[Client(c)] = "register" => Server(c) \in alive'
             /\ Server(c) \in Elements(list') => ready'[Client(c)]
  <2>1. SUFFICES ASSUME thread[Client(c)] = "register" PROVE Server(c) \notin LastOwned(Current)
    BY <1>1, <1>2 DEF StaleInv
  <2>2. ~ready[Client(c)] /\ Server(c) \notin Elements(list)
    BY <2>1, HandlerNames DEF InTurn, StaleInv
  <2>3. Current \in Elements(list) /\ Current \in Handlers /\ ready[Current]
    BY <1>1, <1>2 DEF Current, Elements, Owned, Dropping
  <2>4. PICK d \in Connections : Current = Client(d) \/ Current = Server(d)
    BY <2>3, HandlerNames
  <2> QED BY <2>2, <2>3, <2>4, HandlerNames DEF LastOwned
<1> QED BY <1>1, <1>3, <1>4 DEF StaleInv, EntryOf

LEMMA PassKeepsEntries ==
    ASSUME HandlerInv, StaleInv, SkipHandler \/ EndCheck
    PROVE  StaleInv'
<1>1. /\ main' \in {"check", "accept"}  /\ main # "register"
      /\ UNCHANGED <<conn, list, threadIds, alive, thread, id, ready>>
  BY DEF SkipHandler, EndCheck, threadVars, objectVars
<1>2. \A g \in Handlers : /\ Registered(g) => Registered(g)'
                          /\ Stays(g) => Stays(g)'
  BY <1>1 DEF Registered, Stays
<1> QED BY <1>1, <1>2 DEF StaleInv

LEMMA NextKeepsEntries == HandlerInv /\ IdInv /\ StaleInv /\ [Next]_vars => StaleInv'
<1> SUFFICES ASSUME HandlerInv, IdInv, StaleInv, [Next]_vars PROVE StaleInv'
  OBVIOUS
<1>1. CASE Accept \/ RegisterConnection
  BY <1>1, AcceptKeepsEntries, RegisterKeepsEntries
<1>2. CASE CheckHandlers
  BY <1>2, PassKeepsEntries, ReapKeepsEntries, EraseKeepsEntries DEF CheckHandlers
<1>3. ASSUME NEW c \in Connections, ClientThread(c) \/ Fetch(c) PROVE StaleInv'
  BY <1>3, ClientsKeepEntries, FetchKeepsEntries
<1>4. ASSUME NEW h \in Handlers, AnyThread(h) PROVE StaleInv'
  BY <1>4, ThreadsKeepEntries
<1>5. CASE AllDone \/ UNCHANGED vars
  BY <1>5, StaleInvStutters DEF AllDone, vars, mainVars, threadVars, objectVars
<1> QED BY <1>1, <1>2, <1>3, <1>4, <1>5 DEF Next

(* An id goes from threadIds before the handler it was appended for: none  *)
(* stays behind to be taken for a thread that got it later.                *)
THEOREM NoIdsStale == Spec => []NoStaleIds
<1>1. Init => HandlerInv /\ IdInv /\ StaleInv
  BY InitHandlerInv, InitIdInv, InitStaleInv
<1>2. HandlerInv /\ IdInv /\ StaleInv /\ [Next]_vars => (HandlerInv /\ IdInv /\ StaleInv)'
  BY NextKeepsInv, NextKeepsIds, NextKeepsEntries
<1>3. StaleInv => NoStaleIds
  BY DEF StaleInv, Stays, Elements, NoStaleIds
<1> QED BY <1>1, <1>2, <1>3, PTL DEF Spec
-----------------------------------------------------------------------------
(* How long threadIds can get.  Each thread of a client that has still to  *)
(* append an id for its fetcher has its own id in the vector, and a        *)
(* connection is only added when that is not longer than MaxConnections.   *)

LEMMA PendingFinite ==
    /\ Pending \in SUBSET Connections
    /\ IsFiniteSet(Pending) /\ Cardinality(Pending) \in Nat
<1>1. Pending \in SUBSET Connections
  BY DEF Pending
<1>2. IsFiniteSet(Connections)
  BY HandlerAssumption
<1> QED BY <1>1, <1>2, FS_Subset, FS_CardinalityType

LEMMA PendingListed ==
    ASSUME HandlerInv, IdInv, main = "accept", inherited = {}
    PROVE  Cardinality(Pending) <= Len(threadIds)
<1> DEFINE N == Len(threadIds)
           f == [c \in Pending |-> CHOOSE k \in 1 .. N : threadIds[k] = id[Client(c)]]
<1>1. N \in Nat /\ DOMAIN threadIds = 1 .. N
  BY LenProperties DEF IdInv, IdTypes
<1>2. ASSUME NEW c \in Pending
      PROVE  /\ Client(c) \in Handlers /\ Client(c) \in alive /\ thread[Client(c)] \in Existing
             /\ \E k \in 1 .. N : threadIds[k] = id[Client(c)]
  <2>1. c \in Connections /\ thread[Client(c)] \in {"started", "handle", "register"}
    BY DEF Pending
  <2>2. Client(c) \in Handlers /\ Client(c) \in alive /\ thread[Client(c)] \in Existing
        /\ ~ready[Client(c)]
    BY <2>1, HandlerNames DEF HandlerInv, InTurn, UsingHandler, Existing
  <2>3. Registered(Client(c))
    BY <2>1, RegisteredNames
  <2>4. id[Client(c)] \in Elements(threadIds)
    BY <2>2, <2>3 DEF IdInv, Listed, ToBeListed
  <2> QED BY <1>1, <2>2, <2>4 DEF Elements
<1> HIDE DEF N
<1>3. \A c \in Pending : f[c] \in 1 .. N /\ threadIds[f[c]] = id[Client(c)]
  BY <1>2
<1>4. f \in [Pending -> 1 .. N]
  BY <1>3
<1> HIDE DEF f
<1>5. ASSUME NEW c \in Pending, NEW d \in Pending, f[c] = f[d] PROVE c = d
  <2>1. id[Client(c)] = id[Client(d)]
    BY <1>3, <1>5
  <2>2. Client(c) = Client(d)
    BY <1>2, <2>1 DEF IdInv, OwnIds
  <2> QED BY <2>2, HandlerNames DEF Pending
<1>6. f \in Injection(Pending, 1 .. N)
  BY <1>4, <1>5 DEF Injection, IsInjective
<1>7. IsFiniteSet(1 .. N) /\ Cardinality(1 .. N) = N
  BY <1>1, CountTo
<1>8. Cardinality(Pending) <= Cardinality(1 .. N)
  BY <1>6, <1>7, FS_Injection
<1> QED BY <1>7, <1>8 DEF N

(* The threads of the connections other than c go on in Pending. *)
LEMMA PendingChanges ==
    ASSUME NEW c \in Connections,
           \A d \in Connections \ {c} : thread'[Client(d)] = thread[Client(d)]
    PROVE  /\ Cardinality(Pending') \in Nat
           /\ c \in Pending \/ c \notin Pending' => Cardinality(Pending') <= Cardinality(Pending)
           /\ c \in Pending /\ c \notin Pending' => Cardinality(Pending') = Cardinality(Pending) - 1
           /\ Cardinality(Pending') <= Cardinality(Pending) + 1
<1>1. IsFiniteSet(Pending) /\ Cardinality(Pending) \in Nat
  BY PendingFinite
<1>2. Pending' = Pending \cup {c} \/ Pending' = Pending \ {c}
  BY DEF Pending
<1>3. CASE Pending' = Pending \cup {c}
  <2>1. Cardinality(Pending') = IF c \in Pending THEN Cardinality(Pending)
                                                 ELSE Cardinality(Pending) + 1
    BY <1>1, <1>3, FS_AddElement
  <2> QED BY <1>1, <1>3, <2>1
<1>4. CASE Pending' = Pending \ {c}
  <2>1. Cardinality(Pending') = IF c \in Pending THEN Cardinality(Pending) - 1
                                                 ELSE Cardinality(Pending)
    BY <1>1, <1>4, FS_RemoveElement
  <2>2. c \in Pending => Cardinality(Pending) # 0
    BY <1>1, FS_EmptySet
  <2>3. Cardinality(Pending') \in Nat
    BY <1>1, <2>1, <2>2
  <2> QED BY <1>1, <1>4, <2>1, <2>3
<1> QED BY <1>2, <1>3, <1>4

ToRegister == IF main = "register" THEN 1 ELSE 0

LEMMA SmallNumbers ==
    ASSUME IdInv
    PROVE  Len(threadIds) \in Nat /\ ToRegister \in {0, 1}
BY LenProperties DEF IdInv, IdTypes, ToRegister

LEMMA AppendedIds ==
    ASSUME IdInv, NEW h \in Handlers, threadIds' = Append(threadIds, id[h])
    PROVE  Len(threadIds') = Len(threadIds) + 1
BY AppendProperties DEF IdInv, IdTypes

LEMMA InitBounded == Init => Bounded
<1> SUFFICES ASSUME Init PROVE Bounded
  OBVIOUS
<1>1. Len(threadIds) = 0 /\ Pending = {} /\ main = "accept"
  BY EmptySeq, HandlerNames DEF Init, Pending
<1>2. Cardinality(Pending) = 0
  BY <1>1, FS_EmptySet
<1> QED BY <1>1, <1>2, HandlerAssumption DEF Bounded

LEMMA BoundedStep ==
    ASSUME HandlerInv, IdInv, Bounded, [Next]_vars
    PROVE  Bounded'
<1> USE DEF HandlerInv, ListTypes
<1> DEFINE Bound == 2 * (MaxConnections + 1)
<1>1. /\ Len(threadIds) \in Nat /\ Cardinality(Pending) \in Nat /\ ToRegister \in {0, 1}
      /\ MaxConnections \in Nat
  BY SmallNumbers, PendingFinite, HandlerAssumption
<1>2. inherited = {} => Len(threadIds) + Cardinality(Pending) + ToRegister <= Bound
  BY DEF Bounded, ToRegister
<1>3. SUFFICES ASSUME inherited' = {}
               PROVE  Len(threadIds') + Cardinality(Pending') + ToRegister' <= Bound
  BY DEF Bounded, ToRegister
<1>4. ASSUME Len(threadIds') \in Nat, Cardinality(Pending') \in Nat, ToRegister' \in {0, 1},
             inherited \subseteq inherited',
             Len(threadIds') + Cardinality(Pending') + ToRegister'
                 <= Len(threadIds) + Cardinality(Pending) + ToRegister
      PROVE  Len(threadIds') + Cardinality(Pending') + ToRegister' <= Bound
  <2>1. Len(threadIds) + Cardinality(Pending) + ToRegister <= Bound
    BY <1>2, <1>3, <1>4
  <2> HIDE DEF ToRegister
  <2> QED BY <1>1, <1>4, <2>1
<1>5. ASSUME \A c \in Connections : thread'[Client(c)] = thread[Client(c)]
      PROVE  Pending' = Pending
  BY <1>5 DEF Pending
<1>6. CASE Accept
  <2> PICK c \in Connections : RejectConnection(c) \/ AddConnection(c) \/ AddConnectionFails(c)
    BY <1>6 DEF Accept
  <2>1. CASE RejectConnection(c) \/ AddConnectionFails(c)
    <3>1. /\ UNCHANGED <<threadIds, thread, inherited>> /\ main' # "register"
          /\ main # "register"
      BY <2>1 DEF RejectConnection, AddConnectionFails, Arrive, threadVars
    <3>2. Pending' = Pending /\ ToRegister' = 0 /\ ToRegister = 0
      BY <1>5, <3>1 DEF ToRegister
    <3> QED BY <1>1, <1>4, <3>1, <3>2
  <2>2. CASE AddConnection(c)
    <3>1. /\ main = "accept" /\ threadIds' = threadIds /\ inherited \subseteq inherited'
          /\ Len(threadIds) <= MaxConnections
          /\ thread' = [thread EXCEPT ![Client(c)] = "started"]
      BY <2>2 DEF AddConnection, Arrive, ReadyToConnect, GiveId
    <3>2. Cardinality(Pending) <= Len(threadIds)
      BY <1>3, <3>1, PendingListed
    <3>3. Cardinality(Pending') \in Nat /\ Cardinality(Pending') <= Cardinality(Pending) + 1
      BY <3>1, HandlerNames, PendingChanges
    <3>4. ToRegister' \in {0, 1}
      BY DEF ToRegister
    <3> QED BY <1>1, <3>1, <3>2, <3>3, <3>4
  <2> QED BY <2>1, <2>2
<1>7. CASE RegisterConnection
  <2>1. /\ UNCHANGED <<thread, inherited>> /\ main = "register" /\ main' = "check"
        /\ threadIds' = Append(threadIds, id[Client(conn)]) /\ Client(conn) \in Handlers
    BY <1>7, HandlerNames DEF RegisterConnection, threadVars
  <2>2. Pending' = Pending /\ ToRegister' = 0 /\ ToRegister = 1
        /\ Len(threadIds') = Len(threadIds) + 1
    BY <1>5, <2>1, AppendedIds DEF ToRegister
  <2> QED BY <1>1, <1>4, <2>1, <2>2
<1>8. CASE CheckHandlers
  <2>1. /\ UNCHANGED <<thread, inherited>> /\ main # "register" /\ main' # "register"
        /\ threadIds' = threadIds \/ \E i : threadIds' = RemoveThreadId(i)
    BY <1>8 DEF CheckHandlers, SkipHandler, ReapHandler, TakeOverServer, ReapServer,
                EraseHandler, EndCheck, threadVars
  <2>2. Len(threadIds') \in Nat /\ Len(threadIds') <= Len(threadIds)
    <3>1. threadIds \in Seq(Ids \cup {NoId})
      BY DEF IdInv, IdTypes
    <3> QED BY <1>1, <2>1, <3>1, RemainingIds, LenProperties
  <2>3. Pending' = Pending /\ ToRegister' = 0 /\ ToRegister = 0
    BY <1>5, <2>1 DEF ToRegister
  <2> QED BY <1>1, <1>4, <2>1, <2>2, <2>3
<1>9. ASSUME NEW c \in Connections, ClientThread(c)
      PROVE  Len(threadIds') + Cardinality(Pending') + ToRegister' <= Bound
  <2>1. inherited \subseteq inherited' /\ ToRegister' = ToRegister
    BY <1>9 DEF ClientThread, StartFetcher, StartFetcherFails, RegisterFetcher, FinishClient,
                GiveId, mainVars, ToRegister
  <2>2. /\ \A d \in Connections \ {c} : thread'[Client(d)] = thread[Client(d)]
        /\ RegisterFetcher(c) => c \in Pending /\ c \notin Pending'
        /\ ~RegisterFetcher(c) => c \in Pending \/ c \notin Pending'
    BY <1>9, HandlerNames
       DEF ClientThread, StartFetcher, StartFetcherFails, RegisterFetcher, FinishClient, Goto,
           Pending
  <2>3. /\ RegisterFetcher(c) => Len(threadIds') = Len(threadIds) + 1
        /\ ~RegisterFetcher(c) => threadIds' = threadIds
    BY <1>9, HandlerNames, AppendedIds
       DEF ClientThread, StartFetcher, StartFetcherFails, RegisterFetcher, FinishClient
  <2>4. /\ Cardinality(Pending') \in Nat
        /\ RegisterFetcher(c) => Cardinality(Pending') = Cardinality(Pending) - 1
        /\ ~RegisterFetcher(c) => Cardinality(Pending') <= Cardinality(Pending)
    BY <2>2, PendingChanges
  <2>5. CASE RegisterFetcher(c)
    BY <1>1, <1>4, <2>1, <2>3, <2>4, <2>5
  <2>6. CASE ~RegisterFetcher(c)
    BY <1>1, <1>4, <2>1, <2>3, <2>4, <2>6
  <2> QED BY <2>5, <2>6
<1>10. ASSUME NEW c \in Connections, Fetch(c)
       PROVE  Len(threadIds') + Cardinality(Pending') + ToRegister' <= Bound
  <2>1. /\ UNCHANGED <<threadIds, inherited, main>>
        /\ \A d \in Connections : thread'[Client(d)] = thread[Client(d)]
    BY <1>10, HandlerNames DEF Fetch, Goto, mainVars
  <2> QED BY <1>1, <1>4, <1>5, <2>1 DEF ToRegister
<1>11. ASSUME NEW h \in Handlers, AnyThread(h)
       PROVE  Len(threadIds') + Cardinality(Pending') + ToRegister' <= Bound
  <2>1. PICK c \in Connections : h = Client(c) \/ h = Server(c)
    BY HandlerNames
  <2>2. /\ UNCHANGED <<threadIds, inherited, main>>
        /\ \A d \in Connections \ {c} : thread'[Client(d)] = thread[Client(d)]
        /\ c \in Pending \/ c \notin Pending'
    BY <1>11, <2>1, HandlerNames DEF AnyThread, StartThread, CloseSocket, SetReady, EndThread,
                                    Goto, mainVars, Pending
  <2>3. Cardinality(Pending') \in Nat /\ Cardinality(Pending') <= Cardinality(Pending)
    BY <2>2, PendingChanges
  <2>4. ToRegister' = ToRegister
    BY <2>2 DEF ToRegister
  <2> QED BY <1>1, <1>4, <2>2, <2>3, <2>4
<1>12. CASE AllDone \/ UNCHANGED vars
  <2>1. UNCHANGED <<threadIds, inherited, main, thread>>
    BY <1>12 DEF AllDone, vars, mainVars, threadVars
  <2> QED BY <1>1, <1>4, <1>5, <2>1 DEF ToRegister
<1> QED BY <1>6, <1>7, <1>8, <1>9, <1>10, <1>11, <1>12 DEF Next

(* While no id has been given out again too early, threadIds holds at most *)
(* two ids for each of MaxConnections + 1 clients.                         *)
THEOREM IdsAreBounded == Spec => []IdsBounded
<1>1. Init => HandlerInv /\ IdInv /\ Bounded
  BY InitHandlerInv, InitIdInv, InitBounded
<1>2. HandlerInv /\ IdInv /\ Bounded /\ [Next]_vars => (HandlerInv /\ IdInv /\ Bounded)'
  BY NextKeepsInv, NextKeepsIds, BoundedStep
<1>3. HandlerInv /\ IdInv /\ Bounded => IdsBounded
  <2> SUFFICES ASSUME IdInv, Bounded, inherited = {}
               PROVE  Len(threadIds) <= 2 * (MaxConnections + 1)
    BY DEF IdsBounded
  <2>1. /\ Len(threadIds) \in Nat /\ Cardinality(Pending) \in Nat /\ ToRegister \in {0, 1}
        /\ MaxConnections \in Nat
    BY SmallNumbers, PendingFinite, HandlerAssumption
  <2>2. Len(threadIds) + Cardinality(Pending) + ToRegister <= 2 * (MaxConnections + 1)
    BY DEF Bounded, ToRegister
  <2> QED BY <2>1, <2>2
<1> QED BY <1>1, <1>2, <1>3, PTL DEF Spec
=============================================================================
