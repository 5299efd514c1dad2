----------------------- MODULE HandlerLifecycle_proofs -----------------------
(***************************************************************************)
(* For any number of connections and ids and any MaxConnections: who owns  *)
(* a handler, and why it lives for as long as its thread uses it; that the *)
(* pass over the list gets past no handler that is ready; that between the *)
(* thread and the destructor every socket is closed once.                  *)
(*                                                                         *)
(* The vector threadIds does not occur: what the main thread does with the *)
(* handlers does not depend on it.                                         *)
(***************************************************************************)
EXTENDS HandlerLifecycle, SequenceTheorems, TLAPS

(* Lists, by what is in them. *)
Elements(s) == {s[i] : i \in DOMAIN s}

Distinct(s) == \A i, j \in DOMAIN s : i # j => s[i] # s[j]

LEMMA AppendElements ==
    ASSUME NEW S, NEW s \in Seq(S), NEW e \in S
    PROVE  /\ Append(s, e) \in Seq(S)
           /\ Elements(Append(s, e)) = Elements(s) \cup {e}
           /\ Distinct(s) /\ e \notin Elements(s) => Distinct(Append(s, e))
           /\ DOMAIN s = 1 .. Len(s)
           /\ DOMAIN Append(s, e) = 1 .. Len(s) + 1
           /\ Len(s) \in Nat
           /\ \A i \in DOMAIN s : Append(s, e)[i] = s[i]
<1> DEFINE t == Append(s, e)
<1>1. /\ t \in Seq(S) /\ Len(s) \in Nat
      /\ DOMAIN s = 1 .. Len(s) /\ DOMAIN t = 1 .. Len(s) + 1
      /\ \A i \in 1 .. Len(s) : t[i] = s[i]
      /\ t[Len(s) + 1] = e
  BY AppendProperties, LenProperties
<1> HIDE DEF t
<1>2. Elements(t) = Elements(s) \cup {e}
  <2>1. ASSUME NEW x \in Elements(t) PROVE x \in Elements(s) \cup {e}
    <3>1. PICK i \in 1 .. Len(s) + 1 : t[i] = x
      BY <1>1 DEF Elements
    <3> QED BY <3>1, <1>1 DEF Elements
  <2>2. ASSUME NEW x \in Elements(s) PROVE x \in Elements(t)
    BY <1>1 DEF Elements
  <2>3. e \in Elements(t)
    BY <1>1 DEF Elements
  <2> QED BY <2>1, <2>2, <2>3
<1>3. ASSUME Distinct(s), e \notin Elements(s) PROVE Distinct(t)
  BY <1>1, <1>3 DEF Distinct, Elements
<1> QED BY <1>1, <1>2, <1>3 DEF t

LEMMA RemoveElements ==
    ASSUME NEW S, NEW s \in Seq(S), NEW i \in DOMAIN s, Distinct(s)
    PROVE  /\ RemoveAt(s, i) \in Seq(S)
           /\ Elements(RemoveAt(s, i)) = Elements(s) \ {s[i]}
           /\ Distinct(RemoveAt(s, i))
           /\ \A j \in DOMAIN s : j > i => /\ j - 1 \in DOMAIN RemoveAt(s, i)
                                         /\ RemoveAt(s, i)[j - 1] = s[j]
<1> DEFINE t == RemoveAt(s, i)
<1>1. Len(s) \in Nat /\ DOMAIN s = 1 .. Len(s) /\ i \in 1 .. Len(s)
      /\ \A j \in 1 .. Len(s) : s[j] \in S
  BY LenProperties, ElementOfSeq
<1> DEFINE a == SubSeq(s, 1, i - 1)
           b == SubSeq(s, i + 1, Len(s))
<1>2. /\ a \in Seq(S) /\ Len(a) = i - 1
      /\ \A j \in 1 .. i - 1 : a[j] = s[j]
  BY <1>1, SubSeqProperties
<1>3. /\ b \in Seq(S) /\ Len(b) = Len(s) - i
      /\ \A j \in 1 .. Len(s) - i : b[j] = s[j + i]
  BY <1>1, SubSeqProperties, Z3
<1>4. t = a \o b
  BY DEF RemoveAt
<1> HIDE DEF t, a, b
<1>5. /\ t \in Seq(S) /\ Len(t) = Len(s) - 1
      /\ \A j \in 1 .. Len(s) - 1 : t[j] = IF j < i THEN s[j] ELSE s[j + 1]
  <2>1. t \in Seq(S) /\ Len(t) = Len(s) - 1
    <3>1. a \o b \in Seq(S) /\ Len(a \o b) = Len(a) + Len(b)
      BY <1>2, <1>3, ConcatProperties
    <3>2. Len(a) + Len(b) = Len(s) - 1
      <4>1. \A m, n \in Int : (m - 1) + (n - m) = n - 1
        OBVIOUS
      <4> QED BY <4>1, <1>1, <1>2, <1>3
    <3> QED BY <3>1, <3>2, <1>4
  <2>2. \A j \in 1 .. Len(a) + Len(b) :
            t[j] = IF j <= Len(a) THEN a[j] ELSE b[j - Len(a)]
    BY <1>2, <1>3, <1>4, ConcatProperties
  <2>3. ASSUME NEW j \in 1 .. Len(s) - 1
        PROVE  t[j] = IF j < i THEN s[j] ELSE s[j + 1]
    <3>1. t[j] = IF j <= i - 1 THEN a[j] ELSE b[j - (i - 1)]
      BY <2>2, <1>1, <1>2, <1>3
    <3>2. CASE j < i
      BY <3>1, <3>2, <1>1, <1>2
    <3>3. CASE ~(j < i)
      <4>1. j - (i - 1) \in 1 .. Len(s) - i /\ (j - (i - 1)) + i = j + 1
        BY <3>3, <1>1
      <4> QED BY <4>1, <3>1, <3>3, <1>1, <1>3
    <3> QED BY <3>2, <3>3
  <2> QED BY <2>1, <2>3
<1>6. DOMAIN t = 1 .. Len(s) - 1
  BY <1>5, LenProperties
<1> DEFINE before(j) == IF j < i THEN j ELSE j + 1
<1>7. \A j \in 1 .. Len(s) - 1 : /\ before(j) \in 1 .. Len(s) /\ before(j) # i
                                 /\ t[j] = s[before(j)]
  BY <1>1, <1>5
<1>8. \A j, k \in 1 .. Len(s) - 1 : j # k => before(j) # before(k)
  BY <1>1
<1> HIDE DEF before
<1>9. Distinct(t)
  <2> SUFFICES ASSUME NEW j \in 1 .. Len(s) - 1, NEW k \in 1 .. Len(s) - 1, j # k
               PROVE  t[j] # t[k]
    BY <1>6 DEF Distinct
  <2> QED BY <1>1, <1>7, <1>8 DEF Distinct
<1>10. ASSUME NEW x \in Elements(t) PROVE x \in Elements(s) \ {s[i]}
  <2>1. PICK j \in 1 .. Len(s) - 1 : x = t[j]
    BY <1>6 DEF Elements
  <2> QED BY <2>1, <1>1, <1>7 DEF Elements, Distinct
<1>11. ASSUME NEW x \in Elements(s) \ {s[i]} PROVE x \in Elements(t)
  <2>1. PICK j \in 1 .. Len(s) : x = s[j] /\ j # i
    BY <1>1 DEF Elements
  <2>2. CASE j < i
    <3>1. j \in 1 .. Len(s) - 1 /\ t[j] = x
      BY <2>1, <2>2, <1>1, <1>5
    <3> QED BY <3>1, <1>6 DEF Elements
  <2>3. CASE j > i
    <3>1. j - 1 \in 1 .. Len(s) - 1 /\ t[j - 1] = x
      BY <2>1, <2>3, <1>1, <1>5
    <3> QED BY <3>1, <1>6 DEF Elements
  <2> QED BY <2>1, <2>2, <2>3, <1>1
<1>12. ASSUME NEW j \in DOMAIN s, j > i PROVE j - 1 \in DOMAIN t /\ t[j - 1] = s[j]
  <2>1. j - 1 \in 1 .. Len(s) - 1 /\ (j - 1) + 1 = j /\ ~(j - 1 < i)
    BY <1>1, <1>12
  <2> QED BY <2>1, <1>5, <1>6
<1> QED BY <1>5, <1>9, <1>10, <1>11, <1>12 DEF t

LEMMA HandlerNames ==
    /\ \A c \in Connections : Client(c) \in Handlers /\ Server(c) \in Handlers
    /\ \A c, d \in Connections : /\ Client(c) # Server(d)
                                 /\ Client(c) = Client(d) => c = d
                                 /\ Server(c) = Server(d) => c = d
    /\ \A c \in Connections : /\ Client(c)[1] = c /\ Client(c)[2] = "client"
                              /\ Server(c)[1] = c /\ Server(c)[2] = "server"
    /\ \A h \in Handlers : \E c \in Connections : h = Client(c) \/ h = Server(c)
BY DEF Handlers, Client, Server
-----------------------------------------------------------------------------
ListTypes == /\ main \in MainPC
             /\ conn \in Connections
             /\ list \in Seq(Handlers)
             /\ iter \in Nat \ {0}
             /\ alive \subseteq Handlers
             /\ thread \in [Handlers -> ThreadPC]
             /\ ready \in [Handlers -> BOOLEAN]
             /\ socket \in [Handlers -> SocketState]

(* Every handler that lives is in the list, or belongs to a client there. *)
Owned == /\ Elements(list) \subseteq alive
         /\ Distinct(list)
         /\ \A c \in Connections :
               /\ Client(c) \in alive => Client(c) \in Elements(list)
               /\ Server(c) \in alive => \/ Server(c) \in Elements(list)
                                         \/ Client(c) \in Elements(list)

(* A thread is done with its handler when it is ready; a connection is new *)
(* until it has a socket; its client makes a server handler once.          *)
InTurn == /\ \A h \in Handlers : /\ thread[h] \in UsingHandler => h \in alive
                                 /\ ready[h] => thread[h] \in {"return", "ended"}
          /\ \A c \in Connections :
                /\ socket[Client(c)] = "none" => /\ thread[Client(c)] = "none"
                                                 /\ Client(c) \notin alive
                /\ thread[Client(c)] \in {"none", "started", "handle"} =>
                       /\ thread[Server(c)] = "none"
                       /\ Server(c) \notin alive

(* The main thread drops ready handlers only, and a client's handler only  *)
(* when the list has its server handler, or that is ready too.             *)
Dropping ==
    /\ main \in {"server", "erase"} => iter \in DOMAIN list /\ ready[list[iter]]
    /\ main = "server" => \E c \in Connections : list[iter] = Client(c) /\ Server(c) \in alive
    /\ \A c \in Connections :
          /\ Client(c) \in Elements(list) /\ Server(c) \in Elements(list) =>
                 main = "erase" /\ list[iter] = Client(c)
          /\ main = "erase" /\ list[iter] = Client(c) /\ Server(c) \in alive =>
                 Server(c) \in Elements(list) \/ ready[Server(c)]

HandlerInv == ListTypes /\ Owned /\ InTurn /\ Dropping

LEMMA InitHandlerInv == Init => HandlerInv
BY EmptySeq, HandlerNames
   DEF Init, HandlerInv, ListTypes, Owned, InTurn, Dropping, Elements, Distinct, MainPC, ThreadPC,
       SocketState, UsingHandler, Existing

(* Steps of which the list and the main thread see nothing. *)
LEMMA HandlerInvStutters ==
    HandlerInv /\ UNCHANGED <<main, conn, list, iter, alive, thread, ready, socket>> => HandlerInv'
BY DEF HandlerInv, ListTypes, Owned, InTurn, Dropping
-----------------------------------------------------------------------------
(* The threads of the handlers.                                            *)

(* A step of a thread on its way from "started" to "ended". *)
LEMMA ThreadMoves ==
    ASSUME HandlerInv, NEW h \in Handlers, NEW next \in ThreadPC,
           thread[h] # "none", next \notin {"none", "started"},
           next = "handle" => thread[h] = "started",
           next \in UsingHandler => thread[h] \in UsingHandler,
           ready[h] => next \in {"return", "ended"},
           thread' = [thread EXCEPT ![h] = next],
           \/ ready' = ready
           \/ ready' = [ready EXCEPT ![h] = TRUE] /\ next = "return",
           socket' \in [Handlers -> SocketState],
           \A c \in Connections : socket'[Client(c)] = "none" => socket[Client(c)] = "none",
           UNCHANGED <<main, conn, list, iter, alive>>
    PROVE  HandlerInv'
<1>1. ListTypes'
  BY DEF HandlerInv, ListTypes
<1>2. Owned'
  BY DEF HandlerInv, Owned
<1>3. \A g \in Handlers : ready[g] => ready'[g]
  BY DEF HandlerInv, ListTypes
<1>4. InTurn'
  <2>1. ASSUME NEW g \in Handlers
        PROVE  /\ thread'[g] \in UsingHandler => g \in alive'
               /\ ready'[g] => thread'[g] \in {"return", "ended"}
    BY DEF HandlerInv, ListTypes, InTurn
  <2>2. ASSUME NEW c \in Connections
        PROVE  /\ socket'[Client(c)] = "none" => /\ thread'[Client(c)] = "none"
                                                /\ Client(c) \notin alive'
               /\ thread'[Client(c)] \in {"none", "started", "handle"} =>
                      thread'[Server(c)] = "none" /\ Server(c) \notin alive'
    BY HandlerNames DEF HandlerInv, ListTypes, InTurn
  <2> QED BY <2>1, <2>2 DEF InTurn
<1>5. Dropping'
  <2>1. \A i \in DOMAIN list : list[i] \in Handlers
    BY LenProperties, ElementOfSeq DEF HandlerInv, ListTypes
  <2> QED BY <1>3, <2>1, HandlerNames DEF HandlerInv, Dropping
<1> QED BY <1>1, <1>2, <1>4, <1>5 DEF HandlerInv

LEMMA ClosedSocket ==
    \A s \in SocketState : Close(s) \in SocketState /\ Close(s) # "none"
BY DEF SocketState, Close

LEMMA AnyThreadKeepsInv ==
    ASSUME HandlerInv, NEW h \in Handlers, AnyThread(h)
    PROVE  HandlerInv'
<1> USE DEF HandlerInv, ListTypes, ThreadPC, UsingHandler, Existing
<1>1. CASE StartThread(h)
  BY <1>1, HandlerNames, ThreadMoves DEF StartThread, Goto, mainVars, objectVars, InTurn
<1>2. CASE CloseSocket(h)
  <2>1. /\ socket' \in [Handlers -> SocketState]
        /\ \A c \in Connections : socket'[Client(c)] = "none" => socket[Client(c)] = "none"
    BY <1>2, HandlerNames, ClosedSocket DEF CloseSocket
  <2> QED BY <1>2, <2>1, ThreadMoves DEF CloseSocket, Goto, mainVars, InTurn
<1>3. CASE SetReady(h)
  BY <1>3, HandlerNames, ThreadMoves DEF SetReady, Goto, mainVars, objectVars, InTurn
<1>4. CASE EndThread(h)
  BY <1>4, HandlerNames, ThreadMoves DEF EndThread, Goto, mainVars, objectVars, InTurn
<1> QED BY <1>1, <1>2, <1>3, <1>4 DEF AnyThread

LEMMA FetchKeepsInv ==
    ASSUME HandlerInv, NEW c \in Connections, Fetch(c)
    PROVE  HandlerInv'
<1> USE DEF HandlerInv, ListTypes, ThreadPC, UsingHandler, Existing
<1>1. Server(c) \in Handlers
  BY HandlerNames
<1>2. /\ socket' \in [Handlers -> SocketState]
      /\ \A d \in Connections : socket'[Client(d)] = "none" => socket[Client(d)] = "none"
  BY <1>1, HandlerNames DEF Fetch, SocketState
<1>3. PICK next \in {"close", "setReady"} : thread' = [thread EXCEPT ![Server(c)] = next]
  BY DEF Fetch, Goto
<1> QED BY <1>1, <1>2, <1>3, ThreadMoves DEF Fetch, mainVars, InTurn

LEMMA ClientThreadKeepsInv ==
    ASSUME HandlerInv, NEW c \in Connections, ClientThread(c)
    PROVE  HandlerInv'
<1> USE DEF ThreadPC, UsingHandler, Existing
<1>1. Client(c) \in Handlers /\ Server(c) \in Handlers /\ Client(c) # Server(c)
  BY HandlerNames
<1>2. CASE RegisterFetcher(c) \/ FinishClient(c)
  <2>1. PICK next \in {"serve", "close"} : thread' = [thread EXCEPT ![Client(c)] = next]
    BY <1>2 DEF RegisterFetcher, FinishClient, Goto
  <2>2. /\ thread[Client(c)] \in {"register", "handle", "serve"}
        /\ UNCHANGED <<main, conn, list, iter, alive, ready, socket>>
    BY <1>2 DEF RegisterFetcher, FinishClient, mainVars, objectVars
  <2> QED BY <1>1, <2>1, <2>2, ThreadMoves DEF HandlerInv, ListTypes, InTurn
<1>3. CASE StartFetcher(c) \/ StartFetcherFails(c)
  <2>1. PICK t \in {"none", "started"} :
            thread' = [[thread EXCEPT ![Server(c)] = t] EXCEPT ![Client(c)] = "register"]
    <3>1. CASE StartFetcher(c)
      BY <3>1, <1>1 DEF StartFetcher, HandlerInv, ListTypes
    <3>2. CASE StartFetcherFails(c)
      <4>1. thread[Client(c)] = "handle" /\ thread[Server(c)] = "none"
        BY <3>2 DEF StartFetcherFails, HandlerInv, InTurn
      <4>2. thread' = [thread EXCEPT ![Client(c)] = "register"]
        BY <3>2 DEF StartFetcherFails, Goto
      <4> QED BY <4>1, <4>2, <1>1 DEF HandlerInv, ListTypes
    <3> QED BY <1>3, <3>1, <3>2
  <2>2. /\ thread[Client(c)] = "handle"
        /\ alive' = alive \cup {Server(c)}
        /\ UNCHANGED <<main, conn, list, iter, ready, socket>>
    BY <1>3 DEF StartFetcher, StartFetcherFails, mainVars
  <2>3. Client(c) \in alive /\ Server(c) \notin alive /\ thread[Server(c)] = "none"
    BY <1>1, <2>2 DEF HandlerInv, InTurn
  <2>4. ~ready[Client(c)] /\ ~ready[Server(c)]
    BY <1>1, <2>2, <2>3 DEF HandlerInv, InTurn
  <2>5. ListTypes'
    BY <1>1, <2>1, <2>2 DEF HandlerInv, ListTypes
  <2>6. Owned'
    BY <2>2, <2>3, HandlerNames DEF HandlerInv, Owned
  <2>7. InTurn'
    <3>1. ASSUME NEW g \in Handlers
          PROVE  /\ thread'[g] \in UsingHandler => g \in alive'
                 /\ ready'[g] => thread'[g] \in {"return", "ended"}
      BY <1>1, <2>1, <2>2, <2>3, <2>4 DEF HandlerInv, ListTypes, InTurn
    <3>2. ASSUME NEW d \in Connections
          PROVE  /\ socket'[Client(d)] = "none" => /\ thread'[Client(d)] = "none"
                                                  /\ Client(d) \notin alive'
                 /\ thread'[Client(d)] \in {"none", "started", "handle"} =>
                        thread'[Server(d)] = "none" /\ Server(d) \notin alive'
      BY <1>1, <2>1, <2>2, <2>3, HandlerNames DEF HandlerInv, ListTypes, InTurn
    <3> QED BY <3>1, <3>2 DEF InTurn
  <2>8. Dropping'
    BY <2>2, <2>4, HandlerNames DEF HandlerInv, Dropping
  <2> QED BY <2>5, <2>6, <2>7, <2>8 DEF HandlerInv
<1> QED BY <1>2, <1>3 DEF ClientThread
-----------------------------------------------------------------------------
(* The main thread.                                                        *)

LEMMA AcceptKeepsInv ==
    ASSUME HandlerInv, Accept
    PROVE  HandlerInv'
<1> PICK c \in Connections : RejectConnection(c) \/ AddConnection(c) \/ AddConnectionFails(c)
  BY DEF Accept
<1>1. Client(c) \in Handlers /\ Server(c) \in Handlers /\ Client(c) # Server(c)
  BY HandlerNames
<1>2. main = "accept" /\ socket[Client(c)] = "none" /\ conn' = c
  BY DEF RejectConnection, AddConnection, AddConnectionFails, Arrive
<1>3. CASE RejectConnection(c) \/ AddConnectionFails(c)
  <2>1. /\ main' = "check" /\ iter' = 1
        /\ UNCHANGED <<list, alive, thread, ready>>
        /\ socket' = [socket EXCEPT ![Client(c)] = "closed"]
    BY <1>3 DEF RejectConnection, AddConnectionFails, threadVars, Close
  <2>2. ListTypes'
    <3>1. socket' \in [Handlers -> SocketState]
      BY <1>1, <2>1 DEF HandlerInv, ListTypes, SocketState
    <3> QED BY <1>2, <2>1, <3>1 DEF HandlerInv, ListTypes, MainPC
  <2>3. InTurn'
    BY <1>1, <2>1, HandlerNames DEF HandlerInv, ListTypes, InTurn
  <2>4. Owned' /\ Dropping'
    BY <1>2, <2>1 DEF HandlerInv, Owned, Dropping
  <2> QED BY <2>2, <2>3, <2>4 DEF HandlerInv
<1>4. CASE AddConnection(c)
  <2>1. /\ list' = Append(list, Client(c))
        /\ alive' = alive \cup {Client(c)}
        /\ socket' = [socket EXCEPT ![Client(c)] = "open"]
        /\ thread' = [thread EXCEPT ![Client(c)] = "started"]
        /\ main' = "register"
        /\ UNCHANGED <<iter, ready>>
    BY <1>4 DEF AddConnection
  <2>2. /\ thread[Client(c)] = "none" /\ Client(c) \notin alive
        /\ thread[Server(c)] = "none" /\ Server(c) \notin alive
    BY <1>2 DEF HandlerInv, InTurn
  <2>3. Client(c) \notin Elements(list) /\ Server(c) \notin Elements(list)
    BY <2>2 DEF HandlerInv, Owned
  <2>4. /\ list' \in Seq(Handlers)
        /\ Elements(list') = Elements(list) \cup {Client(c)}
        /\ Distinct(list')
    BY <1>1, <2>1, <2>3, AppendElements DEF HandlerInv, ListTypes, Owned
  <2>5. ListTypes'
    BY <1>1, <1>2, <2>1, <2>4
       DEF HandlerInv, ListTypes, MainPC, SocketState, ThreadPC, UsingHandler, Existing
  <2>6. Owned'
    BY <2>1, <2>4, HandlerNames DEF HandlerInv, Owned
  <2>7. InTurn'
    <3>1. ASSUME NEW g \in Handlers
          PROVE  /\ thread'[g] \in UsingHandler => g \in alive'
                 /\ ready'[g] => thread'[g] \in {"return", "ended"}
      BY <1>1, <2>1, <2>2 DEF HandlerInv, ListTypes, InTurn
    <3>2. ASSUME NEW d \in Connections
          PROVE  /\ socket'[Client(d)] = "none" => /\ thread'[Client(d)] = "none"
                                                  /\ Client(d) \notin alive'
                 /\ thread'[Client(d)] \in {"none", "started", "handle"} =>
                        thread'[Server(d)] = "none" /\ Server(d) \notin alive'
      BY <1>1, <2>1, <2>2, HandlerNames DEF HandlerInv, ListTypes, InTurn
    <3> QED BY <3>1, <3>2 DEF InTurn
  <2>8. Dropping'
    BY <1>2, <2>1, <2>3, <2>4, HandlerNames DEF HandlerInv, Dropping
  <2> QED BY <2>5, <2>6, <2>7, <2>8 DEF HandlerInv
<1> QED BY <1>3, <1>4

(* What the steps of the pass over the list leave alone but the erasure. *)
LEMMA PassKeepsInv ==
    ASSUME HandlerInv, NEW m \in MainPC, main' = m,
           iter' \in Nat \ {0}, conn' \in Connections,
           UNCHANGED <<list, alive, thread, ready, socket>>,
           Dropping'
    PROVE  HandlerInv'
BY DEF HandlerInv, ListTypes, Owned, InTurn

LEMMA CurrentInList ==
    ASSUME HandlerInv, iter <= Len(list)
    PROVE  /\ iter \in DOMAIN list
           /\ Current \in Handlers /\ Current \in alive /\ Current \in Elements(list)
BY LenProperties, ElementOfSeq DEF HandlerInv, ListTypes, Owned, Current, Elements

LEMMA PassingKeepsInv ==
    ASSUME HandlerInv, RegisterConnection \/ SkipHandler \/ ReapHandler \/ EndCheck
    PROVE  HandlerInv'
<1> USE DEF MainPC, threadVars, objectVars
<1>1. CASE RegisterConnection
  <2>1. Dropping'
    BY <1>1 DEF RegisterConnection, HandlerInv, Dropping
  <2> QED BY <1>1, <2>1, PassKeepsInv DEF RegisterConnection, HandlerInv, ListTypes
<1>2. CASE SkipHandler
  <2>1. Dropping'
    BY <1>2 DEF SkipHandler, HandlerInv, Dropping
  <2> QED BY <1>2, <2>1, PassKeepsInv DEF SkipHandler, HandlerInv, ListTypes
<1>3. CASE EndCheck
  <2>1. Dropping'
    BY <1>3 DEF EndCheck, HandlerInv, Dropping
  <2> QED BY <1>3, <2>1, PassKeepsInv DEF EndCheck, HandlerInv, ListTypes
<1>4. CASE ReapHandler
  <2>1. /\ main = "check" /\ iter <= Len(list) /\ ready[Current]
        /\ main' = IF \E c \in Connections : Current = Client(c) /\ Server(c) \in alive
                   THEN "server" ELSE "erase"
        /\ UNCHANGED <<conn, list, iter, alive, thread, ready, socket>>
    BY <1>4 DEF ReapHandler
  <2>2. \A c \in Connections : Client(c) \notin Elements(list) \/ Server(c) \notin Elements(list)
    BY <2>1 DEF HandlerInv, Dropping
  <2>3. Dropping'
    <3>1. iter \in DOMAIN list
      BY <2>1, CurrentInList
    <3>2. main' = "server" => \E c \in Connections : list[iter] = Client(c) /\ Server(c) \in alive
      BY <2>1 DEF Current
    <3>3. main' = "erase" =>
              ~ \E c \in Connections : list[iter] = Client(c) /\ Server(c) \in alive
      BY <2>1 DEF Current
    <3> QED BY <2>1, <2>2, <3>1, <3>2, <3>3 DEF Dropping, Current
  <2> QED BY <2>1, <2>3, PassKeepsInv DEF HandlerInv, ListTypes
<1> QED BY <1>1, <1>2, <1>3, <1>4

LEMMA ServerKeepsInv ==
    ASSUME HandlerInv, TakeOverServer \/ ReapServer
    PROVE  HandlerInv'
<1>1. main = "server" /\ main' = "erase" /\ UNCHANGED <<conn, iter, alive, thread, ready, socket>>
  BY DEF TakeOverServer, ReapServer, threadVars, objectVars
<1>2. PICK c \in Connections : list[iter] = Client(c) /\ Server(c) \in alive
  BY <1>1 DEF HandlerInv, Dropping
<1>3. /\ iter \in DOMAIN list /\ Client(c) \in Elements(list) /\ ready[list[iter]]
      /\ Server(c) \notin Elements(list)
      /\ Server(Current[1]) = Server(c) /\ Server(c) \in Handlers
      /\ \A d \in Connections : Client(d) \notin Elements(list) \/ Server(d) \notin Elements(list)
  BY <1>1, <1>2, HandlerNames DEF HandlerInv, Dropping, Elements, Current
<1>4. CASE ReapServer
  <2>1. ready[Server(c)] /\ list' = list
    BY <1>3, <1>4 DEF ReapServer
  <2>2. Dropping'
    BY <1>1, <1>2, <1>3, <2>1, HandlerNames DEF Dropping
  <2> QED BY <1>1, <2>1, <2>2, PassKeepsInv DEF HandlerInv, ListTypes, MainPC
<1>5. CASE TakeOverServer
  <2>1. list' = Append(list, Server(c))
    BY <1>3, <1>5 DEF TakeOverServer
  <2>2. /\ list' \in Seq(Handlers)
        /\ Elements(list') = Elements(list) \cup {Server(c)}
        /\ Distinct(list')
        /\ iter \in DOMAIN list'
        /\ list'[iter] = list[iter]
    BY <1>3, <2>1, AppendElements DEF HandlerInv, ListTypes, Owned
  <2>3. ListTypes'
    BY <1>1, <2>2 DEF HandlerInv, ListTypes, MainPC
  <2>4. Owned'
    BY <1>1, <1>2, <2>2, HandlerNames DEF HandlerInv, Owned
  <2>5. InTurn'
    BY <1>1 DEF HandlerInv, InTurn
  <2>6. Dropping'
    BY <1>1, <1>2, <1>3, <2>2, HandlerNames DEF Dropping
  <2> QED BY <2>3, <2>4, <2>5, <2>6 DEF HandlerInv
<1> QED BY <1>4, <1>5

(* What the erasure destroys: h, and its server handler if that is ready. *)
LEMMA LastOwnedReady ==
    ASSUME HandlerInv, EraseHandler
    PROVE  /\ iter \in DOMAIN list /\ Current \in Handlers /\ Current \in LastOwned(Current)
           /\ \A g \in LastOwned(Current) :
                 g \in alive /\ ready[g] /\ (g = Current \/ g \notin Elements(list))
           /\ \A c \in Connections :
                 Current = Client(c) /\ Server(c) \in alive /\ Server(c) \notin Elements(list)
                 => Server(c) \in LastOwned(Current)
<1> DEFINE h == list[iter]
           D == LastOwned(h)
<1>1. main = "erase"
  BY DEF EraseHandler
<1>2. /\ iter \in DOMAIN list /\ ready[h]
      /\ h \in Handlers /\ h \in Elements(list) /\ h \in alive
  BY <1>1, LenProperties, ElementOfSeq DEF HandlerInv, ListTypes, Owned, Dropping, Elements
<1>3. \A g : Contains(list, g) <=> g \in Elements(list)
  BY LenProperties DEF HandlerInv, ListTypes, Contains, Elements
<1>4. /\ h \in D
      /\ \A g \in D : g = h \/ g \notin Elements(list)
      /\ \A g \in D : \/ g = h
                    \/ \E c \in Connections : h = Client(c) /\ g = Server(c) /\ g \in alive
      /\ \A c \in Connections :
            h = Client(c) /\ Server(c) \in alive /\ Server(c) \notin Elements(list)
            => Server(c) \in D
  BY <1>2, <1>3, HandlerNames DEF LastOwned
<1> HIDE DEF D
<1>5. \A g \in D : g \in alive /\ ready[g]
  BY <1>1, <1>2, <1>4 DEF HandlerInv, Dropping
<1> QED BY <1>2, <1>4, <1>5 DEF D, Current

LEMMA EraseKeepsInv ==
    ASSUME HandlerInv, EraseHandler
    PROVE  HandlerInv'
<1> DEFINE h == list[iter]
           D == LastOwned(h)
<1>1. /\ main = "erase" /\ main' = "check" /\ iter' = iter
      /\ list' = RemoveAt(list, iter)
      /\ alive' = alive \ D
      /\ socket' = [g \in Handlers |-> IF g \in D /\ interrupted[g] THEN Close(socket[g])
                                                               ELSE socket[g]]
      /\ UNCHANGED <<conn, thread, ready>>
  BY DEF EraseHandler, Destroy, AfterErase, Current, threadVars
<1>2. /\ iter \in DOMAIN list /\ h \in Handlers /\ h \in D
      /\ \A g \in D : ready[g] /\ (g = h \/ g \notin Elements(list))
      /\ \A c \in Connections :
            h = Client(c) /\ Server(c) \in alive /\ Server(c) \notin Elements(list)
            => Server(c) \in D
  BY LastOwnedReady DEF Current
<1>3. /\ list' \in Seq(Handlers) /\ Distinct(list')
      /\ Elements(list') = Elements(list) \ {h}
  BY <1>1, <1>2, RemoveElements DEF HandlerInv, ListTypes, Owned
<1> HIDE DEF D
<1>4. ListTypes'
  BY <1>1, <1>3, ClosedSocket DEF HandlerInv, ListTypes, MainPC
<1>5. Owned'
  <2>1. Elements(list') \subseteq alive'
    BY <1>1, <1>2, <1>3 DEF HandlerInv, Owned
  <2>2. ASSUME NEW c \in Connections, Client(c) \in alive'
        PROVE  Client(c) \in Elements(list')
    BY <1>1, <1>2, <1>3, <2>2 DEF HandlerInv, Owned
  <2>3. ASSUME NEW c \in Connections, Server(c) \in alive'
        PROVE  Server(c) \in Elements(list') \/ Client(c) \in Elements(list')
    BY <1>1, <1>2, <1>3, <2>3 DEF HandlerInv, Owned
  <2> QED BY <1>3, <2>1, <2>2, <2>3 DEF Owned
<1>6. InTurn'
  <2>1. ASSUME NEW g \in Handlers, thread'[g] \in UsingHandler
        PROVE  g \in alive'
    BY <1>1, <1>2, <2>1 DEF HandlerInv, InTurn, UsingHandler
  <2>2. ASSUME NEW c \in Connections, socket'[Client(c)] = "none"
        PROVE  socket[Client(c)] = "none"
    BY <1>1, <2>2, HandlerNames, ClosedSocket DEF HandlerInv, ListTypes
  <2> QED BY <1>1, <2>1, <2>2 DEF HandlerInv, InTurn
<1>7. Dropping'
  BY <1>1, <1>3 DEF HandlerInv, Dropping
<1> QED BY <1>4, <1>5, <1>6, <1>7 DEF HandlerInv

LEMMA MainKeepsInv ==
    ASSUME HandlerInv, RegisterConnection \/ CheckHandlers
    PROVE  HandlerInv'
BY PassingKeepsInv, ServerKeepsInv, EraseKeepsInv DEF CheckHandlers
-----------------------------------------------------------------------------
LEMMA NextKeepsInv == HandlerInv /\ [Next]_vars => HandlerInv'
<1> SUFFICES ASSUME HandlerInv, [Next]_vars PROVE HandlerInv'
  OBVIOUS
<1>1. CASE Accept
  BY <1>1, AcceptKeepsInv
<1>2. CASE RegisterConnection \/ CheckHandlers
  BY <1>2, MainKeepsInv
<1>3. ASSUME NEW c \in Connections, ClientThread(c) \/ Fetch(c) PROVE HandlerInv'
  BY <1>3, ClientThreadKeepsInv, FetchKeepsInv
<1>4. ASSUME NEW h \in Handlers, AnyThread(h) PROVE HandlerInv'
  BY <1>4, AnyThreadKeepsInv
<1>5. CASE AllDone \/ UNCHANGED vars
  BY <1>5, HandlerInvStutters DEF AllDone, vars, mainVars, threadVars, objectVars
<1> QED BY <1>1, <1>2, <1>3, <1>4, <1>5 DEF Next

LEMMA HandlerInvGivesProperties == HandlerInv => HandlerOutlivesThread /\ NoHandlerLost
<1> SUFFICES ASSUME HandlerInv PROVE HandlerOutlivesThread /\ NoHandlerLost
  OBVIOUS
<1>1. \A g : Contains(list, g) <=> g \in Elements(list)
  BY LenProperties DEF HandlerInv, ListTypes, Contains, Elements
<1>2. \A h \in alive : Contains(list, h) \/ (h[2] = "server" /\ Contains(list, Client(h[1])))
  BY <1>1, HandlerNames DEF HandlerInv, ListTypes, Owned
<1> QED BY <1>2 DEF HandlerInv, Owned, InTurn, Distinct, Elements, HandlerOutlivesThread,
                    NoHandlerLost

(* A handler is never destroyed while its thread uses it, though it may be *)
(* dropped by its first owner, the client's handler, before that.          *)
THEOREM HandlersOutliveThreads == Spec => []HandlerOutlivesThread
<1>1. Init => HandlerInv
  BY InitHandlerInv
<1>2. HandlerInv /\ [Next]_vars => HandlerInv'
  BY NextKeepsInv
<1>3. HandlerInv => HandlerOutlivesThread
  BY HandlerInvGivesProperties
<1> QED BY <1>1, <1>2, <1>3, PTL DEF Spec

(* No handler is lost or listed twice when it changes hands: each that     *)
(* lives is in the list, or belongs to a client's handler there.           *)
THEOREM HandlersListed == Spec => []NoHandlerLost
<1>1. Init => HandlerInv
  BY InitHandlerInv
<1>2. HandlerInv /\ [Next]_vars => HandlerInv'
  BY NextKeepsInv
<1>3. HandlerInv => NoHandlerLost
  BY HandlerInvGivesProperties
<1> QED BY <1>1, <1>2, <1>3, PTL DEF Spec

(* What is ahead of the iterator. *)
LEMMA SkipsNothing ==
    ASSUME HandlerInv, [Next]_vars, NEW h \in Handlers, main # "accept", ready[h], Ahead(h)
    PROVE  Ahead(h)' \/ h \notin alive'
<1>1. PICK i \in DOMAIN list : i >= iter /\ list[i] = h
  BY DEF Ahead
<1>2. i \in 1 .. Len(list) /\ Len(list) \in Nat /\ iter \in Nat \ {0}
      /\ list \in Seq(Handlers) /\ iter \in 1 .. Len(list)
  BY <1>1, LenProperties DEF HandlerInv, ListTypes
<1>3. CASE UNCHANGED <<list, iter>>
  BY <1>1, <1>3 DEF Ahead
<1>4. CASE RegisterConnection
  BY <1>1, <1>2, <1>4 DEF RegisterConnection, Ahead
<1>5. CASE SkipHandler
  <2>1. i # iter /\ iter' = iter + 1 /\ list' = list
    BY <1>1, <1>5 DEF SkipHandler, Current
  <2> QED BY <1>1, <1>2, <2>1 DEF Ahead
<1>6. CASE TakeOverServer
  <2>1. list' = Append(list, Server(Current[1])) /\ iter' = iter
    BY <1>6 DEF TakeOverServer
  <2>2. i \in DOMAIN list' /\ list'[i] = list[i]
    BY <1>2, <2>1, AppendProperties, LenProperties
  <2> QED BY <1>1, <2>1, <2>2 DEF Ahead
<1>7. CASE EraseHandler
  <2>1. list' = RemoveAt(list, iter) /\ iter' = iter /\ alive' = alive \ LastOwned(list[iter])
    BY <1>7 DEF EraseHandler, AfterErase, Destroy, Current
  <2>2. CASE i = iter
    BY <1>1, <2>1, <2>2 DEF LastOwned
  <2>3. CASE i > iter
    <3>1. i - 1 \in DOMAIN list' /\ list'[i - 1] = h
      BY <1>1, <1>2, <2>1, <2>3, RemoveElements, LenProperties DEF HandlerInv, Owned
    <3> QED BY <1>2, <2>1, <2>3, <3>1 DEF Ahead
  <2> QED BY <1>1, <1>2, <2>2, <2>3
<1>8. CASE EndCheck
  BY <1>2, <1>8 DEF EndCheck
<1>9. CASE Accept
  BY <1>9 DEF Accept, Arrive, RejectConnection, AddConnection, AddConnectionFails
<1>10. CASE ReapHandler \/ ReapServer
  BY <1>3, <1>10 DEF ReapHandler, ReapServer
<1>11. ASSUME NEW c \in Connections, ClientThread(c) \/ Fetch(c) PROVE UNCHANGED <<list, iter>>
  BY <1>11 DEF ClientThread, StartFetcher, StartFetcherFails, RegisterFetcher, FinishClient,
               Fetch, mainVars
<1>12. ASSUME NEW g \in Handlers, AnyThread(g) PROVE UNCHANGED <<list, iter>>
  BY <1>12 DEF AnyThread, StartThread, CloseSocket, SetReady, EndThread, mainVars
<1>13. CASE AllDone \/ UNCHANGED vars
  BY <1>3, <1>13 DEF AllDone, vars, mainVars
<1> QED BY <1>3, <1>4, <1>5, <1>6, <1>7, <1>8, <1>9, <1>10, <1>11, <1>12, <1>13
        DEF Next, CheckHandlers

(* The pass of checkConnectionHandlers over the list, which it appends to  *)
(* and erases from as it goes, does not get past a handler that is ready.  *)
THEOREM ReadyNotSkipped == Spec => NoneSkipped
<1> DEFINE A == \A h \in Handlers :
                   main # "accept" /\ ready[h] /\ Ahead(h) => Ahead(h)' \/ h \notin alive'
<1>1. Init => HandlerInv
  BY InitHandlerInv
<1>2. HandlerInv /\ [Next]_vars => HandlerInv'
  BY NextKeepsInv
<1>3. HandlerInv /\ [Next]_vars => A
  BY SkipsNothing
<1>4. HandlerInv /\ [Next]_vars => [A]_vars
  BY <1>3
<1> HIDE DEF A
<1>5. Spec => [][A]_vars
  BY <1>1, <1>2, <1>4, PTL DEF Spec
<1> QED BY <1>5 DEF NoneSkipped, A
-----------------------------------------------------------------------------
(* Where a handler's descriptor is, by how far its thread is.  Until handle *)
(* is left the destructor is to close it.                                  *)
InHandle == {"started", "handle", "register", "serve"}

Tidy(h) ==
    /\ socket[h] # "closedTwice"
    /\ h \notin alive => socket[h] # "open"
    /\ h \in alive /\ socket[h] = "closed" => ~interrupted[h]
    /\ socket[h] = "open" => interrupted[h]
    /\ thread[h] \in {"none", "close"} \cup InHandle => interrupted[h]
    /\ thread[h] = "close" => socket[h] = "open"
    /\ h[2] = "client" /\ thread[h] \in InHandle => socket[h] = "open"
    /\ h[2] = "server" /\ thread[h] \in {"none", "started", "handle"} => socket[h] = "none"

SocketInv == /\ interrupted \in [Handlers -> BOOLEAN]
             /\ \A h \in Handlers : Tidy(h)

LEMMA SocketsStutter ==
    SocketInv /\ UNCHANGED <<alive, thread, interrupted, socket>> => SocketInv'
BY DEF SocketInv, Tidy

LEMMA ErasedSockets ==
    ASSUME HandlerInv, SocketInv, EraseHandler
    PROVE  SocketInv'
<1>1. /\ alive' = alive \ LastOwned(Current)
      /\ socket' = [g \in Handlers |-> IF g \in LastOwned(Current) /\ interrupted[g]
                                        THEN Close(socket[g]) ELSE socket[g]]
      /\ UNCHANGED <<thread, interrupted>>
  BY DEF EraseHandler, Destroy, threadVars
<1>2. \A g \in LastOwned(Current) : g \in alive /\ thread[g] \in {"return", "ended"}
  BY LastOwnedReady DEF HandlerInv, ListTypes, InTurn
<1>3. ASSUME NEW h \in Handlers PROVE Tidy(h)'
  <2>1. CASE h \in LastOwned(Current)
    BY <1>1, <1>2, <2>1 DEF SocketInv, Tidy, Close, InHandle, HandlerInv, ListTypes, SocketState
  <2>2. CASE h \notin LastOwned(Current)
    BY <1>1, <2>2 DEF SocketInv, Tidy
  <2> QED BY <2>1, <2>2
<1> QED BY <1>1, <1>3 DEF SocketInv

LEMMA AcceptedSockets ==
    ASSUME HandlerInv, SocketInv, Accept
    PROVE  SocketInv'
<1> PICK c \in Connections : RejectConnection(c) \/ AddConnection(c) \/ AddConnectionFails(c)
  BY DEF Accept
<1> DEFINE h == Client(c)
<1>1. /\ h \in Handlers /\ h[2] = "client"
      /\ socket[h] = "none" /\ thread[h] = "none" /\ h \notin alive /\ interrupted[h]
      /\ interrupted' = interrupted
  BY HandlerNames DEF RejectConnection, AddConnection, AddConnectionFails, Arrive, HandlerInv,
                      InTurn, SocketInv, Tidy
<1>2. CASE AddConnection(c)
  <2>1. /\ alive' = alive \cup {h}
        /\ socket' = [socket EXCEPT ![h] = "open"]
        /\ thread' = [thread EXCEPT ![h] = "started"]
    BY <1>2 DEF AddConnection
  <2> HIDE DEF h
  <2>2. \A g \in Handlers : Tidy(g)'
    BY <1>1, <2>1 DEF SocketInv, Tidy, InHandle, HandlerInv, ListTypes
  <2> QED BY <1>1, <2>2 DEF SocketInv
<1>3. CASE RejectConnection(c) \/ AddConnectionFails(c)
  <2>1. /\ socket' = [socket EXCEPT ![h] = "closed"]
        /\ UNCHANGED <<alive, thread>>
    BY <1>3 DEF RejectConnection, AddConnectionFails, threadVars, Close
  <2> HIDE DEF h
  <2>2. \A g \in Handlers : Tidy(g)'
    BY <1>1, <2>1 DEF SocketInv, Tidy, InHandle, HandlerInv, ListTypes
  <2> QED BY <1>1, <2>2 DEF SocketInv
<1> QED BY <1>2, <1>3

LEMMA ThreadsSockets ==
    ASSUME HandlerInv, SocketInv, NEW h \in Handlers, AnyThread(h)
    PROVE  SocketInv'
<1> USE DEF HandlerInv, ListTypes, InHandle
<1>1. CASE StartThread(h)
  BY <1>1 DEF StartThread, Goto, objectVars, SocketInv, Tidy
<1>2. CASE CloseSocket(h)
  <2>1. /\ thread[h] = "close" /\ socket[h] = "open"
        /\ socket' = [socket EXCEPT ![h] = "closed"]
        /\ interrupted' = [interrupted EXCEPT ![h] = FALSE]
        /\ thread' = [thread EXCEPT ![h] = "setReady"]
        /\ alive' = alive
    BY <1>2 DEF CloseSocket, Goto, Close, SocketInv, Tidy
  <2> QED BY <2>1 DEF SocketInv, Tidy
<1>3. CASE SetReady(h)
  BY <1>3 DEF SetReady, Goto, objectVars, SocketInv, Tidy
<1>4. CASE EndThread(h)
  BY <1>4 DEF EndThread, Goto, objectVars, SocketInv, Tidy
<1> QED BY <1>1, <1>2, <1>3, <1>4 DEF AnyThread

LEMMA FetchedSockets ==
    ASSUME HandlerInv, SocketInv, NEW c \in Connections, Fetch(c)
    PROVE  SocketInv'
<1> DEFINE h == Server(c)
<1>1. /\ h \in Handlers /\ h[2] = "server" /\ thread[h] = "handle"
      /\ h \in alive /\ interrupted[h] /\ socket[h] = "none"
      /\ UNCHANGED <<alive, interrupted>>
  BY HandlerNames DEF Fetch, HandlerInv, InTurn, UsingHandler, SocketInv, Tidy, InHandle
<1>2. \/ /\ socket' = [socket EXCEPT ![h] = "open"]
         /\ \E next \in {"close", "setReady"} : thread' = [thread EXCEPT ![h] = next]
      \/ socket' = socket /\ thread' = [thread EXCEPT ![h] = "setReady"]
  BY DEF Fetch, Goto
<1> HIDE DEF h
<1>3. ASSUME NEW g \in Handlers PROVE Tidy(g)'
  BY <1>1, <1>2 DEF SocketInv, Tidy, InHandle, HandlerInv, ListTypes
<1> QED BY <1>1, <1>3 DEF SocketInv

LEMMA ClientsSockets ==
    ASSUME HandlerInv, SocketInv, NEW c \in Connections, ClientThread(c)
    PROVE  SocketInv'
<1> DEFINE h == Client(c)
           s == Server(c)
<1>1. /\ h \in Handlers /\ h[2] = "client" /\ s \in Handlers /\ s[2] = "server" /\ h # s
      /\ thread[h] \in InHandle /\ UNCHANGED <<interrupted, socket>>
  BY HandlerNames DEF ClientThread, StartFetcher, StartFetcherFails, RegisterFetcher,
                      FinishClient, objectVars, InHandle
<1>2. CASE RegisterFetcher(c) \/ FinishClient(c)
  <2>1. /\ alive' = alive
        /\ \E next \in {"serve", "close"} : thread' = [thread EXCEPT ![h] = next]
    BY <1>2 DEF RegisterFetcher, FinishClient, objectVars, Goto
  <2> HIDE DEF h, s
  <2>2. \A g \in Handlers : Tidy(g)'
    BY <1>1, <2>1 DEF SocketInv, Tidy, InHandle, HandlerInv, ListTypes
  <2> QED BY <1>1, <2>2 DEF SocketInv
<1>3. CASE StartFetcher(c) \/ StartFetcherFails(c)
  <2>1. alive' = alive \cup {s} /\ thread[s] = "none"
    BY <1>3 DEF StartFetcher, StartFetcherFails, HandlerInv, InTurn
  <2>2. \/ thread' = [thread EXCEPT ![s] = "started", ![h] = "register"]
        \/ thread' = [thread EXCEPT ![h] = "register"]
    BY <1>3 DEF StartFetcher, StartFetcherFails, Goto
  <2> HIDE DEF h, s
  <2>3. \A g \in Handlers : Tidy(g)'
    BY <1>1, <2>1, <2>2 DEF SocketInv, Tidy, InHandle, HandlerInv, ListTypes
  <2> QED BY <1>1, <2>3 DEF SocketInv
<1> QED BY <1>2, <1>3 DEF ClientThread

LEMMA NextKeepsSockets == HandlerInv /\ SocketInv /\ [Next]_vars => SocketInv'
<1> SUFFICES ASSUME HandlerInv, SocketInv, [Next]_vars PROVE SocketInv'
  OBVIOUS
<1>1. CASE RegisterConnection \/ SkipHandler \/ ReapHandler \/ TakeOverServer \/ ReapServer
           \/ EndCheck \/ AllDone \/ UNCHANGED vars
  BY <1>1, SocketsStutter
     DEF RegisterConnection, SkipHandler, ReapHandler, TakeOverServer, ReapServer, EndCheck,
         AllDone, vars, threadVars, objectVars
<1>2. CASE Accept \/ EraseHandler
  BY <1>2, AcceptedSockets, ErasedSockets
<1>3. ASSUME NEW c \in Connections, ClientThread(c) \/ Fetch(c) PROVE SocketInv'
  BY <1>3, ClientsSockets, FetchedSockets
<1>4. ASSUME NEW h \in Handlers, AnyThread(h) PROVE SocketInv'
  BY <1>4, ThreadsSockets
<1> QED BY <1>1, <1>2, <1>3, <1>4 DEF Next, CheckHandlers

(* Between the thread and the destructor every socket is closed once by    *)
(* the time its handler is gone, as long as no destructor has closed a     *)
(* socketFd that was never assigned (a failed initServerConnection): that  *)
(* one loses its own descriptor and closes an arbitrary one.               *)
THEOREM HandlersCloseOnce == Spec => []SocketsClosedOnce
<1>1. Init => HandlerInv /\ SocketInv
  BY InitHandlerInv DEF Init, SocketInv, Tidy, InHandle
<1>2. HandlerInv /\ SocketInv /\ [Next]_vars => (HandlerInv /\ SocketInv)'
  BY NextKeepsInv, NextKeepsSockets
<1>3. HandlerInv /\ SocketInv => SocketsClosedOnce
  BY DEF SocketInv, Tidy, SocketsClosedOnce
<1> QED BY <1>1, <1>2, <1>3, PTL DEF Spec
=============================================================================
