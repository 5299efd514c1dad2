--------------------------- MODULE Shutdown_proofs ---------------------------
(***************************************************************************)
(* What the whole program promises for any number of connections and ids:  *)
(* when a signal may end the process by its default action, how many       *)
(* connections are accepted after the request to stop, and up to when the  *)
(* handlers outlive their threads though threads are cancelled; and that   *)
(* the pass over threadIds, while threads start and end, misses none that  *)
(* it should ask to cancel itself.                                         *)
(***************************************************************************)
EXTENDS Shutdown, HandlerIds_proofs

Calls == {Program[k] : k \in 1 .. 8}

(* The calls left are the last ones of Program. *)
InOrder == /\ todo \in Seq(Calls)
           /\ Len(todo) <= 8
           /\ \A i \in 1 .. Len(todo) : todo[i] = Program[8 - Len(todo) + i]

LEMMA ProgramCalls ==
    /\ Program \in Seq(Calls) /\ Len(Program) = 8
    /\ \A j, k \in 1 .. 8 : Program[j] = Program[k] => j = k
    /\ Program[1] = "getPortToListen" /\ Program[2] = "setSigMask"
    /\ Program[3] = "setSigUsrHandler" /\ Program[4] = "initSignalHandlerThread"
    /\ Program[5] = "initAcceptSocket" /\ Program[6] = "start"
    /\ Program[7] = "clear" /\ Program[8] = "deleteNodes"
<1>1. /\ Len(Program) = 8 /\ DOMAIN Program = 1 .. 8
      /\ Program[1] = "getPortToListen" /\ Program[2] = "setSigMask"
      /\ Program[3] = "setSigUsrHandler" /\ Program[4] = "initSignalHandlerThread"
      /\ Program[5] = "initAcceptSocket" /\ Program[6] = "start"
      /\ Program[7] = "clear" /\ Program[8] = "deleteNodes"
  BY DEF Program
<1>2. Program \in Seq(Calls)
  <2>1. Program = [k \in 1 .. 8 |-> Program[k]]
    BY DEF Program
  <2>2. \A k \in 1 .. 8 : Program[k] \in Calls
    BY DEF Calls
  <2> HIDE DEF Calls
  <2>3. Program \in [1 .. 8 -> Calls]
    BY <2>1, <2>2
  <2> QED BY <2>3, SeqDef
<1>3. ASSUME NEW j \in 1 .. 8, NEW k \in 1 .. 8, Program[j] = Program[k] PROVE j = k
  <2>1. j \in {1, 2, 3, 4, 5, 6, 7, 8} /\ k \in {1, 2, 3, 4, 5, 6, 7, 8}
    OBVIOUS
  <2> QED BY <1>1, <1>3, <2>1
<1> QED BY <1>1, <1>2, <1>3

(* Where the main thread is, by the number of calls left. *)
LEMMA CallsLeft ==
    ASSUME InOrder
    PROVE  /\ Len(todo) \in 0 .. 8
           /\ Running <=> Len(todo) > 0
           /\ \A k \in 1 .. 8 : /\ Doing(Program[k]) => Len(todo) = 9 - k
                                /\ StillToDo(Program[k]) <=> Len(todo) >= 9 - k
<1> DEFINE n == Len(todo)
<1>1. n \in 0 .. 8 /\ (Running <=> n > 0)
  <2>1. todo \in Seq(Calls) /\ n <= 8
    BY DEF InOrder
  <2>2. n \in Nat
    BY <2>1, LenProperties
  <2>3. CASE todo = << >>
    BY <2>3 DEF Running
  <2>4. CASE todo # << >>
    <3>1. Running
      BY <2>4 DEF Running
    <3>2. n \in Nat \ {0}
      BY <2>1, <2>4, EmptySeq
    <3> HIDE DEF n
    <3> QED BY <2>1, <3>1, <3>2
  <2> QED BY <2>1, <2>2, <2>3, <2>4
<1>2. ASSUME Running PROVE Head(todo) = Program[9 - n]
  <2>1. Head(todo) = todo[1]
    BY <1>2 DEF InOrder, Running
  <2>2. n \in 1 .. 8
    BY <1>1, <1>2
  <2>3. todo[1] = Program[8 - n + 1]
    BY <2>2 DEF InOrder
  <2>4. \A m \in 1 .. 8 : 8 - m + 1 = 9 - m
    OBVIOUS
  <2> QED BY <2>1, <2>2, <2>3, <2>4
<1>3. \A i \in 1 .. n : todo[i] = Program[8 - n + i]
  BY DEF InOrder
<1>4. \A k \in 1 .. 8 :
           StillToDo(Program[k]) <=> \E i \in 1 .. n : todo[i] = Program[k]
  BY DEF StillToDo, Contains
<1> HIDE DEF n
<1>5. ASSUME NEW k \in 1 .. 8, Doing(Program[k]) PROVE n = 9 - k
  <2>1. Running /\ Program[9 - n] = Program[k]
    BY <1>2, <1>5 DEF Doing
  <2>2. 9 - n \in 1 .. 8
    BY <1>1, <2>1
  <2>3. 9 - n = k
    BY <2>1, <2>2, ProgramCalls
  <2> QED BY <1>1, <2>3
<1>6. ASSUME NEW k \in 1 .. 8 PROVE StillToDo(Program[k]) <=> n >= 9 - k
  <2>1. ASSUME NEW i \in 1 .. n, todo[i] = Program[k] PROVE n >= 9 - k
    <3>1. 8 - n + i \in 1 .. 8
      BY <1>1
    <3>2. 8 - n + i = k
      BY <1>3, <2>1, <3>1, ProgramCalls
    <3> QED BY <1>1, <3>2
  <2>2. ASSUME n >= 9 - k PROVE \E i \in 1 .. n : todo[i] = Program[k]
    <3>1. k - 8 + n \in 1 .. n /\ 8 - n + (k - 8 + n) = k
      BY <1>1, <2>2
    <3> QED BY <1>3, <3>1
  <2> QED BY <1>4, <2>1, <2>2
<1> QED BY <1>1, <1>5, <1>6 DEF n

(* The main thread returns from one call, or the process ends. *)
LEMMA NextCall ==
    ASSUME InOrder, \/ todo' = todo
                    \/ todo' = << >>
                    \/ Running /\ todo' = Tail(todo)
    PROVE  /\ InOrder'
           /\ Len(todo)' <= Len(todo)
           /\ Running /\ todo' = Tail(todo) => Len(todo)' = Len(todo) - 1
<1>1. Len(todo) \in 0 .. 8 /\ (Running <=> Len(todo) > 0)
  BY CallsLeft
<1>2. CASE Running /\ todo' = Tail(todo)
  <2>1. /\ todo' \in Seq(Calls) /\ Len(todo') = Len(todo) - 1
        /\ \A i \in 1 .. Len(todo) - 1 : todo'[i] = todo[i + 1]
    BY <1>2, HeadTailProperties DEF InOrder, Running
  <2>2. \A n \in 0 .. 8 : \A i \in 1 .. n - 1 :
             i + 1 \in 1 .. n /\ 8 - (n - 1) + i = 8 - n + (i + 1)
    OBVIOUS
  <2>3. \A i \in 1 .. Len(todo') : todo'[i] = Program[8 - Len(todo') + i]
    BY <1>1, <2>1, <2>2 DEF InOrder
  <2>4. Len(todo') <= 8 /\ Len(todo') <= Len(todo)
    <3>1. \A n \in 0 .. 8 : n - 1 <= 8 /\ n - 1 <= n
      OBVIOUS
    <3> QED BY <1>1, <2>1, <3>1
  <2> QED BY <2>1, <2>3, <2>4 DEF InOrder
<1>3. CASE ~(Running /\ todo' = Tail(todo)) /\ todo' = todo
  BY <1>1, <1>3 DEF InOrder
<1>4. CASE ~(Running /\ todo' = Tail(todo)) /\ todo' = << >>
  <2>1. todo' \in Seq(Calls) /\ Len(todo') = 0
    BY <1>4, EmptySeq
  <2> QED BY <1>1, <1>4, <2>1 DEF InOrder
<1> QED BY <1>2, <1>3, <1>4

LEMMA NamedCalls ==
    ASSUME InOrder
    PROVE  /\ Doing("initSignalHandlerThread") => Len(todo) = 5
           /\ Doing("clear") => Len(todo) = 2
           /\ StillToDo("setSigMask") <=> Len(todo) >= 7
           /\ StillToDo("setSigUsrHandler") <=> Len(todo) >= 6
           /\ StillToDo("start") <=> Len(todo) >= 3
<1> DEFINE P(k) == /\ Doing(Program[k]) => Len(todo) = 9 - k
                   /\ StillToDo(Program[k]) <=> Len(todo) >= 9 - k
<1>1. P(2) /\ P(3) /\ P(4) /\ P(6) /\ P(7)
  <2>1. \A k \in 1 .. 8 : P(k)
    BY CallsLeft
  <2> HIDE DEF P
  <2> QED BY <2>1
<1>2. /\ Doing(Program[4]) => Len(todo) = 5
      /\ Doing(Program[7]) => Len(todo) = 2
      /\ StillToDo(Program[2]) <=> Len(todo) >= 7
      /\ StillToDo(Program[3]) <=> Len(todo) >= 6
      /\ StillToDo(Program[6]) <=> Len(todo) >= 3
  BY <1>1
<1> QED BY <1>2, ProgramCalls

LEMMA StartLeft == InOrder => (StillToDo("start") <=> Len(todo) >= 3)
BY NamedCalls

LEMMA StartLeftNext == (InOrder => (StillToDo("start") <=> Len(todo) >= 3))'
BY StartLeft, PTL

LEMMA CallsKept ==
    ASSUME InOrder, [ProgramNext]_programVars
    PROVE  /\ InOrder'
           /\ Len(todo)' <= Len(todo)
           /\ Running /\ todo' = Tail(todo) => Len(todo)' = Len(todo) - 1
<1>1. CASE MainThread
  BY <1>1, NextCall
     DEF MainThread, SetUp, InitSignalHandlerThread, SetUpFails, TestInterrupted, MainGoesOn,
         ClearHandlers, DeleteNodes, Doing, processVars
<1>2. CASE BlockInAccept \/ AcceptConnection \/ AcceptFails \/ HandlerThread
           \/ \E h \in Handlers : CancelledThreadEnds(h)
  BY <1>2, NextCall
     DEF BlockInAccept, AcceptConnection, AcceptFails, AcceptReturns, HandlerThread,
         CancelledThreadEnds, processVars
<1>3. CASE Terminate \/ SignalThread
  BY <1>3, NextCall
     DEF Terminate, SignalThread, TakeSignal, CancelThread, CancelCrashes, EndCancelling,
         KillMain, processVars
<1>4. CASE AtRest \/ UNCHANGED programVars
  BY <1>4, NextCall DEF AtRest, programVars, processVars
<1>5. CASE DeleteUnderWaiters \/ \E c \in Connections : WaitForData(c) \/ WakeUp(c)
  BY <1>5, NextCall DEF DeleteUnderWaiters, WaitForData, WakeUp, Doing, processVars
<1> QED BY <1>1, <1>2, <1>3, <1>4, <1>5 DEF ProgramNext
-----------------------------------------------------------------------------
(* The handlers, up to the end of the loop.                                *)

LEMMA CancelKeepsInv ==
    ASSUME HandlerInv, NEW h \in Handlers, CancelledThreadEnds(h)
    PROVE  HandlerInv'
<1>1. /\ thread[h] \in {"handle", "serve", "close", "register"}
      /\ thread' = [thread EXCEPT ![h] = "ended"]
      /\ UNCHANGED <<main, conn, list, iter, alive, ready>>
  BY DEF CancelledThreadEnds, Goto, mainVars
<1>2. PICK s \in SocketOfCancelled(h) : socket' = [socket EXCEPT ![h] = s]
  BY DEF CancelledThreadEnds
<1>3. s \in SocketState /\ (s = "none" => socket[h] = "none")
  BY <1>2, ClosedSocket DEF SocketOfCancelled, HandlerInv, ListTypes, SocketState
<1>4. /\ socket' \in [Handlers -> SocketState]
      /\ \A c \in Connections : socket'[Client(c)] = "none" => socket[Client(c)] = "none"
  BY <1>2, <1>3, HandlerNames DEF HandlerInv, ListTypes
<1> QED BY <1>1, <1>4, ThreadMoves
        DEF HandlerInv, ListTypes, InTurn, ThreadPC, UsingHandler, Existing

LEMMA ThreadStepKeepsInv ==
    ASSUME HandlerInv, HandlerThread
    PROVE  HandlerInv'
<1>1. \/ \E c \in Connections : ClientThread(c) \/ Fetch(c)
      \/ \E h \in Handlers : AnyThread(h)
  BY DEF HandlerThread, ClientThread, AnyThread
<1> QED BY <1>1, ClientThreadKeepsInv, FetchKeepsInv, AnyThreadKeepsInv

(* So does the vector of their ids.  A thread that is cancelled before it   *)
(* appended its fetcher's id has no fetcher.                               *)
LEMMA CancelKeepsIds ==
    ASSUME HandlerInv, IdInv, NEW h \in Handlers, CancelledThreadEnds(h)
    PROVE  IdInv'
<1>1. /\ thread[h] \in {"handle", "serve", "close", "register"}
      /\ thread[h] = "register" => thread[Server(h[1])] = "none"
      /\ thread' = [thread EXCEPT ![h] = "ended"]
      /\ UNCHANGED <<main, conn, threadIds, alive, id, pthreadId, ready, inherited>>
  BY DEF CancelledThreadEnds, Goto, mainVars
<1>2. threadIds \in Seq(Ids \cup {NoId})
  BY DEF IdInv, IdTypes
<1>3. \A c \in Connections : h = Client(c) /\ thread[h] = "register"
                                 => thread[Server(c)] = "none"
  BY <1>1, HandlerNames
<1>4. "ended" \in ThreadPC /\ "ended" \notin Existing /\ "none" \notin Existing
  BY DEF ThreadPC, Existing, UsingHandler
<1> QED BY <1>1, <1>2, <1>3, <1>4, ThreadKeepsIds DEF HandlerInv

LEMMA ThreadStepKeepsIds ==
    ASSUME HandlerInv, IdInv, HandlerThread
    PROVE  IdInv'
<1>1. \/ \E c \in Connections : ClientThread(c) \/ Fetch(c)
      \/ \E h \in Handlers : AnyThread(h)
  BY DEF HandlerThread, ClientThread, AnyThread
<1> QED BY <1>1, ClientThreadKeepsIds, FetchKeepsIds, AnyThreadKeepsIds

(* A client that begins to wait stays where it is served. *)
LEMMA WaitKeeps ==
    ASSUME HandlerInv, IdInv, NEW c \in Connections, WaitForData(c)
    PROVE  HandlerInv' /\ IdInv'
<1> DEFINE h == Client(c)
<1>1. h \in Handlers
  BY HandlerNames
<1>2. /\ thread[h] \in {"handle", "serve"}
      /\ thread' = [thread EXCEPT ![h] = "serve"]
      /\ UNCHANGED <<main, conn, list, iter, alive, socket, threadIds, id, pthreadId, ready,
                     inherited>>
  BY DEF WaitForData, Goto, mainVars, objectVars
<1> HIDE DEF h
<1>3. HandlerInv'
  BY <1>1, <1>2, ThreadMoves
     DEF HandlerInv, ListTypes, InTurn, ThreadPC, UsingHandler, Existing
<1>4. threadIds \in Seq(Ids \cup {NoId})
  BY DEF IdInv, IdTypes
<1>5. IdInv'
  BY <1>1, <1>2, <1>4, ThreadKeepsIds
     DEF HandlerInv, ListTypes, ThreadPC, Existing, UsingHandler
<1> QED BY <1>3, <1>5

HandlersKept == StillToDo("start") => HandlerInv /\ IdInv

LEMMA HandlersKeptStep ==
    ASSUME InOrder, HandlersKept, [ProgramNext]_programVars
    PROVE  HandlersKept'
<1> SUFFICES ASSUME StillToDo("start")' PROVE (HandlerInv /\ IdInv)'
  BY DEF HandlersKept
<1>1. /\ HandlerInv /\ IdInv
      /\ Len(todo)' >= 3
      /\ Len(todo) \in 0 .. 8
      /\ Running /\ todo' = Tail(todo) => Len(todo)' = Len(todo) - 1
  <2>1. InOrder' /\ Len(todo)' <= Len(todo) /\ Len(todo)' \in Nat
        /\ (Running /\ todo' = Tail(todo) => Len(todo)' = Len(todo) - 1)
    BY CallsKept, LenProperties DEF InOrder
  <2>2. Len(todo)' >= 3 /\ Len(todo) \in 0 .. 8
    BY <2>1, StartLeftNext, CallsLeft
  <2>3. HandlerInv /\ IdInv
    BY <2>1, <2>2, StartLeft DEF HandlersKept
  <2> QED BY <2>1, <2>2, <2>3
<1>2. CASE UNCHANGED vars
  BY <1>1, <1>2, HandlerInvStutters, IdInvStutters DEF vars, mainVars, threadVars, objectVars
<1>3. CASE MainThread
  <2>1. CASE MainGoesOn
    BY <1>1, <2>1, MainKeepsInv, MainKeepsIds DEF MainGoesOn, CheckHandlers
  <2>2. CASE ClearHandlers
    <3>1. Running /\ Len(todo) = 2 /\ todo' = Tail(todo)
      BY <2>2, NamedCalls DEF ClearHandlers, Doing
    <3>2. FALSE
      BY <1>1, <3>1
    <3> QED BY <3>2
  <2>3. CASE SetUp \/ InitSignalHandlerThread \/ SetUpFails \/ TestInterrupted \/ DeleteNodes
    BY <1>2, <2>3
       DEF SetUp, InitSignalHandlerThread, SetUpFails, TestInterrupted, DeleteNodes
  <2> QED BY <1>3, <2>1, <2>2, <2>3 DEF MainThread
<1>4. CASE AcceptConnection
  BY <1>1, <1>4, AcceptKeepsInv, AcceptKeepsIds DEF AcceptConnection
<1>5. CASE BlockInAccept \/ AcceptFails \/ Terminate \/ SignalThread \/ AtRest
           \/ UNCHANGED programVars \/ DeleteUnderWaiters \/ \E c \in Connections : WakeUp(c)
  BY <1>2, <1>5
     DEF BlockInAccept, AcceptFails, Terminate, SignalThread, TakeSignal, CancelThread,
         CancelCrashes, EndCancelling, KillMain, AtRest, programVars, DeleteUnderWaiters, WakeUp
<1>6. CASE HandlerThread
  BY <1>1, <1>6, ThreadStepKeepsInv, ThreadStepKeepsIds
<1>7. ASSUME NEW h \in Handlers, CancelledThreadEnds(h) PROVE (HandlerInv /\ IdInv)'
  BY <1>1, <1>7, CancelKeepsInv, CancelKeepsIds
<1>8. ASSUME NEW c \in Connections, WaitForData(c) PROVE (HandlerInv /\ IdInv)'
  BY <1>1, <1>8, WaitKeeps
<1> QED BY <1>3, <1>4, <1>5, <1>6, <1>7, <1>8 DEF ProgramNext

LEMMA InitInOrder == ProgramInit => InOrder
<1> SUFFICES ASSUME todo = Program PROVE InOrder
  BY DEF ProgramInit
<1>1. \A i \in 1 .. 8 : 8 - 8 + i = i
  OBVIOUS
<1> QED BY <1>1, ProgramCalls DEF InOrder

(* While the main thread is in its loop no handler is destroyed under its  *)
(* thread, though the threads of others end at a cancellation point and    *)
(* never say that they are ready.                                          *)
THEOREM HandlersOutliveCancellation == ProgramSpec => []HandlersKeptUntilEnd
<1>1. ProgramInit => InOrder /\ HandlersKept
  BY InitInOrder, InitHandlerInv, InitIdInv DEF ProgramInit, HandlersKept
<1>2. InOrder /\ HandlersKept /\ [ProgramNext]_programVars => (InOrder /\ HandlersKept)'
  BY CallsKept, HandlersKeptStep
<1>3. InOrder /\ HandlersKept => HandlersKeptUntilEnd
  BY HandlerInvGivesProperties DEF HandlersKept, HandlersKeptUntilEnd
<1> QED BY <1>1, <1>2, <1>3, PTL DEF ProgramSpec
-----------------------------------------------------------------------------
(* The request to stop.                                                    *)

(* Once a connection has been accepted after the request, the next thing   *)
(* is the test of isInterrupted.                                           *)
LateInv == \/ late = 0
           \/ late = 1 /\ isInterrupted /\ loop = "test"

LEMMA LateInvStep == LateInv /\ [ProgramNext]_programVars => LateInv'
<1> SUFFICES ASSUME LateInv, [ProgramNext]_programVars PROVE LateInv'
  OBVIOUS
<1>1. CASE UNCHANGED loopVars
  BY <1>1 DEF LateInv, loopVars
<1>2. CASE AcceptConnection \/ AcceptFails
  BY <1>2 DEF AcceptConnection, AcceptFails, AcceptReturns, LateInv
<1>3. CASE TestInterrupted \/ BlockInAccept
  BY <1>3 DEF TestInterrupted, BlockInAccept, LateInv
<1>4. CASE KillMain
  BY <1>4 DEF KillMain, WhenInterrupted, loopVars, LateInv
<1>5. CASE MainThread \/ HandlerThread \/ (\E h \in Handlers : CancelledThreadEnds(h))
  BY <1>1, <1>3, <1>5
     DEF MainThread, SetUp, InitSignalHandlerThread, SetUpFails, MainGoesOn, ClearHandlers,
         DeleteNodes, HandlerThread, CancelledThreadEnds
<1>6. CASE Terminate \/ SignalThread \/ AtRest \/ UNCHANGED programVars
  BY <1>1, <1>4, <1>6
     DEF Terminate, SignalThread, TakeSignal, CancelThread, CancelCrashes, EndCancelling,
         AtRest, programVars
<1>7. CASE DeleteUnderWaiters \/ \E c \in Connections : WaitForData(c) \/ WakeUp(c)
  BY <1>1, <1>7 DEF DeleteUnderWaiters, WaitForData, WakeUp
<1> QED BY <1>2, <1>3, <1>5, <1>6, <1>7 DEF ProgramNext

(* A SIGUSR1 that the main thread misses costs one more connection. *)
THEOREM AtMostOneMore == ProgramSpec => []OneMoreConnection
<1>1. ProgramInit => LateInv
  BY DEF ProgramInit, LateInv
<1>2. LateInv => OneMoreConnection
  BY DEF LateInv, OneMoreConnection
<1> QED BY <1>1, <1>2, LateInvStep, PTL DEF ProgramSpec
-----------------------------------------------------------------------------
(* Who ends the process.                                                   *)

(* The signal handler thread exists only once signals are blocked and      *)
(* SIGUSR1 has a handler.                                                  *)
SignalInv == /\ signal # "none" => Len(todo) <= 4
             /\ killed => signal = "none" /\ ~Running

LEMMA SignalInvStep ==
    ASSUME InOrder, SignalInv, [ProgramNext]_programVars
    PROVE  SignalInv'
<1>1. /\ Len(todo) \in 0 .. 8 /\ Len(todo)' \in Nat /\ Len(todo)' <= Len(todo)
      /\ (Running <=> Len(todo) > 0)
      /\ (Running /\ todo' = Tail(todo) => Len(todo)' = Len(todo) - 1)
  BY CallsKept, CallsLeft, LenProperties DEF InOrder
<1>2. ASSUME signal' = signal, killed' = killed PROVE SignalInv'
  BY <1>1, <1>2, EmptySeq, CallsKept DEF SignalInv, Running, InOrder
<1>3. CASE InitSignalHandlerThread
  <2>1. Running /\ Len(todo) = 5 /\ todo' = Tail(todo) /\ killed' = killed
    BY <1>3, NamedCalls DEF InitSignalHandlerThread, Doing
  <2>2. Len(todo)' = Len(todo) - 1
    BY <1>1, <2>1, Zenon
  <2>3. Len(todo)' <= 4
    <3>1. Len(todo) = 5
      BY <2>1
    <3> QED BY <2>2, <3>1
  <2> QED BY <2>1, <2>3 DEF SignalInv
<1>4. CASE Terminate
  <2>1. CASE StillToDo("setSigMask")
    <3>1. signal = "none" /\ signal' = signal /\ todo' = << >>
      BY <1>1, <1>4, <2>1, NamedCalls DEF Terminate, SignalInv
    <3> QED BY <3>1 DEF SignalInv, Running
  <2> QED BY <1>2, <1>4, <2>1 DEF Terminate, processVars
<1>5. CASE KillMain
  <2>1. signal # "none" /\ Len(todo) <= 4
    BY <1>5 DEF KillMain, SignalInv
  <2>2. ~StillToDo("setSigUsrHandler")
    BY <1>1, <2>1, NamedCalls
  <2>3. UNCHANGED processVars
    BY <1>5, <2>2 DEF KillMain
  <2> QED BY <2>1, <2>3 DEF SignalInv, processVars
<1>6. CASE TakeSignal \/ CancelThread \/ EndCancelling
  <2>1. signal # "none" /\ UNCHANGED processVars
    BY <1>6 DEF TakeSignal, CancelThread, EndCancelling
  <2> QED BY <2>1 DEF SignalInv, processVars
<1>7. CASE CancelCrashes
  BY <1>1, <1>2, <1>7 DEF CancelCrashes, signalVars
<1>8. CASE DeleteUnderWaiters \/ \E c \in Connections : WaitForData(c) \/ WakeUp(c)
  BY <1>2, <1>8 DEF DeleteUnderWaiters, WaitForData, WakeUp, signalVars, processVars
<1>9. CASE MainThread
  BY <1>2, <1>3, <1>9
     DEF MainThread, SetUp, SetUpFails, TestInterrupted, MainGoesOn, ClearHandlers,
         DeleteNodes, signalVars, processVars
<1>10. CASE BlockInAccept \/ AcceptConnection \/ AcceptFails \/ HandlerThread
           \/ (\E h \in Handlers : CancelledThreadEnds(h)) \/ AtRest \/ UNCHANGED programVars
  BY <1>2, <1>10
     DEF BlockInAccept, AcceptConnection, AcceptFails, AcceptReturns, HandlerThread,
         CancelledThreadEnds, AtRest, programVars, signalVars, processVars
<1> QED BY <1>4, <1>5, <1>6, <1>7, <1>8, <1>9, <1>10 DEF ProgramNext, SignalThread

(* No signal ends the process by its default action once the signal        *)
(* handler thread is there to take it.                                     *)
THEOREM SignalsReachMain == ProgramSpec => []SignalsTaken
<1>1. ProgramInit => InOrder /\ SignalInv
  BY InitInOrder DEF ProgramInit, SignalInv
<1>2. InOrder /\ SignalInv /\ [ProgramNext]_programVars => (InOrder /\ SignalInv)'
  BY CallsKept, SignalInvStep
<1>3. SignalInv => SignalsTaken
  BY DEF SignalInv, SignalsTaken
<1> QED BY <1>1, <1>2, <1>3, PTL DEF ProgramSpec
-----------------------------------------------------------------------------
(* The pass over threadIds.                                                *)

CancelAt == /\ cancelAt \in Nat
            /\ signal = "cancel" <=> cancelAt # 0

(* The main thread leaves its loop when sigWait is through.                *)
LoopLeft == /\ isInterrupted => signal = "exit"
            /\ StillToDo("start") \/ ~Running \/ signal = "exit"

(* Whom sigWait has not asked is still ahead of it. *)
Asked ==
    signal = "cancel" =>
        /\ threadIds \in Seq(Ids \cup {NoId})
        /\ \A h \in Handlers \ inherited : ToBeListed(h) =>
              \/ h \in cancelled
              \/ \E k \in DOMAIN threadIds : k >= cancelAt /\ threadIds[k] = id[h]

CancelInv == /\ InOrder
             /\ SignalInv
             /\ HandlersKept
             /\ CancelAt
             /\ LoopLeft
             /\ Asked

LEMMA InitCancelInv == ProgramInit => CancelInv
<1> SUFFICES ASSUME ProgramInit PROVE CancelInv
  OBVIOUS
<1>1. InOrder
  BY InitInOrder
<1>2. HandlersKept
  BY InitHandlerInv, InitIdInv DEF ProgramInit, HandlersKept
<1>3. StillToDo("start")
  <2>1. Len(todo) = 8
    BY ProgramCalls DEF ProgramInit
  <2> QED BY <1>1, <2>1, NamedCalls
<1> QED BY <1>1, <1>2, <1>3 DEF ProgramInit, CancelInv, SignalInv, CancelAt, LoopLeft, Asked

(* The signal handler thread is created once. *)
LEMMA CreatedOnce ==
    ASSUME InOrder, SignalInv, InitSignalHandlerThread
    PROVE  signal = "none" /\ StillToDo("start")
<1>1. Len(todo) = 5
  BY NamedCalls DEF InitSignalHandlerThread
<1>2. ~(Len(todo) <= 4) /\ Len(todo) >= 3
  BY <1>1
<1> QED BY <1>2, NamedCalls DEF SignalInv

LEMMA CancelAtStep ==
    ASSUME InOrder, SignalInv, CancelAt, [ProgramNext]_programVars
    PROVE  CancelAt'
<1>1. CASE UNCHANGED <<signal, cancelAt>>
  BY <1>1 DEF CancelAt
<1>2. CASE InitSignalHandlerThread
  BY <1>2, CreatedOnce DEF InitSignalHandlerThread, CancelAt
<1>3. CASE SignalThread
  BY <1>3 DEF SignalThread, TakeSignal, CancelThread, CancelCrashes, EndCancelling, KillMain,
              CancelAt, signalVars
<1>4. CASE MainThread
  BY <1>1, <1>2, <1>4
     DEF MainThread, SetUp, SetUpFails, TestInterrupted, MainGoesOn, ClearHandlers,
         DeleteNodes, signalVars
<1>5. CASE BlockInAccept \/ AcceptConnection \/ AcceptFails \/ Terminate \/ HandlerThread
           \/ (\E h \in Handlers : CancelledThreadEnds(h)) \/ AtRest \/ UNCHANGED programVars
  BY <1>1, <1>5
     DEF BlockInAccept, AcceptConnection, AcceptFails, AcceptReturns, Terminate, HandlerThread,
         CancelledThreadEnds, AtRest, programVars, signalVars
<1>6. CASE DeleteUnderWaiters \/ \E c \in Connections : WaitForData(c) \/ WakeUp(c)
  BY <1>1, <1>6 DEF DeleteUnderWaiters, WaitForData, WakeUp, signalVars
<1> QED BY <1>3, <1>4, <1>5, <1>6 DEF ProgramNext

LEMMA LoopLeftStep ==
    ASSUME InOrder, SignalInv, LoopLeft, [ProgramNext]_programVars
    PROVE  LoopLeft'
<1>1. /\ InOrder' /\ Len(todo) \in 0 .. 8 /\ Len(todo)' \in Nat
      /\ Running /\ todo' = Tail(todo) => Len(todo)' = Len(todo) - 1
      /\ StillToDo("start") <=> Len(todo) >= 3
      /\ StillToDo("start")' <=> Len(todo)' >= 3
  BY CallsKept, CallsLeft, LenProperties, StartLeft, StartLeftNext DEF InOrder
<1>2. ASSUME todo' = todo \/ todo' = << >> PROVE StillToDo("start")' \/ ~Running' \/ ~StillToDo("start")
  BY <1>2 DEF StillToDo, Running
<1>3. CASE UNCHANGED <<isInterrupted, signal>> /\ (todo' = todo \/ todo' = << >>)
  BY <1>3 DEF LoopLeft, Running, StillToDo
<1>4. CASE SetUp \/ InitSignalHandlerThread
  <2>1. /\ Running /\ todo' = Tail(todo) /\ isInterrupted' = isInterrupted
        /\ signal' = signal \/ signal = "none"
    BY <1>4, CreatedOnce DEF SetUp, InitSignalHandlerThread, Doing, loopVars, signalVars
  <2>2. Len(todo) >= 4
    <3>1. /\ Program[1] = "getPortToListen" /\ Program[2] = "setSigMask"
          /\ Program[3] = "setSigUsrHandler" /\ Program[4] = "initSignalHandlerThread"
          /\ Program[5] = "initAcceptSocket"
      BY ProgramCalls
    <3>2. \E k \in 1 .. 5 : Doing(Program[k])
      BY <1>4, <3>1 DEF SetUp, InitSignalHandlerThread
    <3>3. ASSUME NEW k \in 1 .. 5, Doing(Program[k]) PROVE Len(todo) = 9 - k
      <4>1. k \in 1 .. 8
        OBVIOUS
      <4> QED BY <3>3, <4>1, CallsLeft
    <3>4. \A k \in 1 .. 5 : 9 - k >= 4
      OBVIOUS
    <3> QED BY <3>2, <3>3, <3>4
  <2>3. Len(todo)' >= 3
    <3>1. Len(todo)' = Len(todo) - 1
      BY <1>1, <2>1
    <3> QED BY <1>1, <2>2, <3>1
  <2> QED BY <1>1, <2>1, <2>3 DEF LoopLeft
<1>5. CASE TestInterrupted
  BY <1>3, <1>5 DEF TestInterrupted, LoopLeft, signalVars
<1>6. CASE ClearHandlers \/ DeleteNodes \/ DeleteUnderWaiters
  <2>1. Running /\ ~StillToDo("start") /\ UNCHANGED <<isInterrupted, signal>>
    <3>1. /\ Running /\ (Doing("clear") \/ Doing("deleteNodes"))
          /\ UNCHANGED <<isInterrupted, signal>>
      BY <1>6 DEF ClearHandlers, DeleteNodes, DeleteUnderWaiters, Doing, loopVars, signalVars
    <3>2. Doing(Program[7]) \/ Doing(Program[8])
      BY <3>1, ProgramCalls
    <3>3. Len(todo) = 9 - 7 \/ Len(todo) = 9 - 8
      BY <3>2, CallsLeft
    <3>4. ~(Len(todo) >= 3)
      <4>1. CASE Len(todo) = 9 - 7
        BY <4>1
      <4>2. CASE Len(todo) = 9 - 8
        BY <4>2
      <4> QED BY <3>3, <4>1, <4>2
    <3>5. ~StillToDo("start")
      BY <3>4, StartLeft
    <3> QED BY <3>1, <3>5
  <2> QED BY <2>1 DEF LoopLeft
<1>7. CASE SignalThread
  <2>1. /\ signal # "exit" /\ (isInterrupted' = isInterrupted \/ signal' = "exit")
        /\ todo' = todo \/ todo' = << >>
    BY <1>7 DEF SignalThread, TakeSignal, CancelThread, CancelCrashes, EndCancelling, KillMain,
                processVars, loopVars, signalVars
  <2> QED BY <2>1 DEF LoopLeft, Running, StillToDo
<1>8. CASE SetUpFails \/ MainGoesOn
  BY <1>3, <1>8 DEF SetUpFails, MainGoesOn, processVars, signalVars, loopVars
<1>9. CASE BlockInAccept \/ AcceptConnection \/ AcceptFails \/ Terminate \/ HandlerThread
           \/ (\E h \in Handlers : CancelledThreadEnds(h)) \/ AtRest \/ UNCHANGED programVars
  BY <1>3, <1>9
     DEF BlockInAccept, AcceptConnection, AcceptFails, AcceptReturns, Terminate, HandlerThread,
         CancelledThreadEnds, AtRest, programVars, signalVars, processVars, loopVars
<1>10. CASE \E c \in Connections : WaitForData(c) \/ WakeUp(c)
  BY <1>3, <1>10 DEF WaitForData, WakeUp, signalVars, processVars, loopVars
<1> QED BY <1>4, <1>5, <1>6, <1>7, <1>8, <1>9, <1>10 DEF ProgramNext, MainThread

(* Whose id is still to be looked for. *)
LEMMA AskedKept ==
    ASSUME Asked, UNCHANGED <<threadIds, signal, cancelAt, cancelled>>,
           inherited \subseteq inherited',
           \A h \in Handlers \ inherited' :
              ToBeListed(h)' => ToBeListed(h) /\ id'[h] = id[h]
    PROVE  Asked'
BY DEF Asked

LEMMA AskedStutters ==
    ASSUME Asked, UNCHANGED <<vars, signal, cancelAt, cancelled>>
    PROVE  Asked'
BY DEF Asked, ToBeListed, Registered, vars, mainVars, threadVars

(* Outside of the loop the process has ended, or sigWait has. *)
LEMMA AskedInTheEnd ==
    ASSUME InOrder, SignalInv, LoopLeft, Asked, ~StillToDo("start"), [ProgramNext]_programVars
    PROVE  Asked'
<1>1. CASE Running
  <2>1. signal = "exit"
    BY <1>1 DEF LoopLeft
  <2>2. signal' = "exit"
    BY <2>1, CreatedOnce
       DEF ProgramNext, MainThread, SetUp, SetUpFails, TestInterrupted, MainGoesOn,
           ClearHandlers, DeleteNodes, SignalThread, TakeSignal, CancelThread, CancelCrashes,
           EndCancelling, KillMain, BlockInAccept, AcceptConnection, AcceptFails, AcceptReturns,
           Terminate, HandlerThread, CancelledThreadEnds, DeleteUnderWaiters, WaitForData,
           WakeUp, AtRest, programVars, signalVars
  <2> QED BY <2>2 DEF Asked
<1>2. CASE ~Running
  <2>1. UNCHANGED programVars
    BY <1>2
       DEF ProgramNext, MainThread, SetUp, InitSignalHandlerThread, SetUpFails, TestInterrupted,
           MainGoesOn, ClearHandlers, DeleteNodes, SignalThread, TakeSignal, CancelThread,
           CancelCrashes, EndCancelling, KillMain, BlockInAccept, AcceptConnection, AcceptFails,
           AcceptReturns, Terminate, HandlerThread, CancelledThreadEnds, DeleteUnderWaiters,
           WaitForData, WakeUp, AtRest, Doing
  <2> QED BY <2>1, AskedStutters DEF programVars, signalVars
<1> QED BY <1>1, <1>2

(* In the loop, the steps that do not change vars. *)
LEMMA AskedBySignals ==
    ASSUME HandlerInv, IdInv, CancelAt, Asked, SignalThread
    PROVE  Asked'
<1>1. UNCHANGED vars
  BY DEF SignalThread, TakeSignal, CancelThread, CancelCrashes, EndCancelling, KillMain
<1>2. /\ UNCHANGED <<threadIds, id, thread, ready, inherited>>
      /\ \A h \in Handlers : ToBeListed(h)' => ToBeListed(h)
  BY <1>1 DEF vars, mainVars, threadVars, ToBeListed, Registered
<1>3. /\ Len(threadIds) \in Nat /\ DOMAIN threadIds = 1 .. Len(threadIds)
      /\ threadIds \in Seq(Ids \cup {NoId})
  BY LenProperties DEF IdInv, IdTypes
<1>4. CASE TakeSignal
  <2>1. cancelAt' = 1
    BY <1>4 DEF TakeSignal
  <2>2. ASSUME NEW h \in Handlers \ inherited, ToBeListed(h)
        PROVE  \E k \in DOMAIN threadIds : k >= cancelAt' /\ threadIds[k] = id[h]
    <3>1. id[h] \in Elements(threadIds)
      BY <2>2 DEF IdInv, Listed
    <3> QED BY <1>3, <2>1, <3>1 DEF Elements
  <2> QED BY <1>2, <1>3, <2>2 DEF Asked
<1>5. CASE CancelThread
  <2>1. /\ signal = "cancel" /\ cancelAt' = cancelAt + 1 /\ cancelAt \in Nat
        /\ cancelled' = cancelled \cup
               {h \in alive : thread[h] \in Existing /\ id[h] = threadIds[cancelAt]}
    BY <1>5 DEF CancelThread, CancelAt
  <2>2. ASSUME NEW h \in Handlers \ inherited, ToBeListed(h)
        PROVE  \/ h \in cancelled'
               \/ \E k \in DOMAIN threadIds : k >= cancelAt' /\ threadIds[k] = id[h]
    <3>1. CASE h \in cancelled
      BY <2>1, <3>1
    <3>2. CASE h \notin cancelled
      <4>1. PICK k \in DOMAIN threadIds : k >= cancelAt /\ threadIds[k] = id[h]
        BY <2>1, <2>2, <3>2 DEF Asked
      <4>2. CASE k = cancelAt
        <5>1. thread[h] \in Existing /\ ~ready[h]
          BY <2>2 DEF ToBeListed
        <5>2. thread[h] \in UsingHandler
          BY <5>1 DEF IdInv, HasId, Existing
        <5>3. h \in alive
          BY <5>2 DEF HandlerInv, InTurn
        <5> QED BY <2>1, <4>1, <4>2, <5>1, <5>3
      <4>3. CASE k # cancelAt
        BY <1>3, <2>1, <4>1, <4>3
      <4> QED BY <4>2, <4>3
    <3> QED BY <3>1, <3>2
  <2> QED BY <1>2, <1>3, <2>2 DEF Asked
<1>6. CASE EndCancelling \/ KillMain
  BY <1>6 DEF EndCancelling, KillMain, Asked
<1>7. CASE CancelCrashes
  BY <1>1, <1>7, AskedStutters DEF CancelCrashes, signalVars
<1> QED BY <1>4, <1>5, <1>6, <1>7 DEF SignalThread

(* Threads go on while the pass is under way, and new ones are created,    *)
(* but none appends its id.                                                *)
LEMMA AskedByThreads ==
    ASSUME HandlerInv, IdInv, CancelAt, Asked, signal = "cancel",
           \/ HandlerThread
           \/ \E h \in Handlers : CancelledThreadEnds(h)
           \/ \E c \in Connections : WaitForData(c)
    PROVE  Asked'
<1> USE DEF HandlerInv, ListTypes
<1>1. ~ThreadIdsFree
  BY DEF CancelAt, ThreadIdsFree
<1>2. /\ UNCHANGED <<signal, cancelAt, cancelled>>
      /\ \/ \E c \in Connections : \/ StartFetcher(c) \/ StartFetcherFails(c)
                                    \/ FinishClient(c) \/ Fetch(c) \/ WaitForData(c)
         \/ \E h \in Handlers : AnyThread(h) \/ CancelledThreadEnds(h)
  BY <1>1 DEF HandlerThread, CancelledThreadEnds, WaitForData, AnyThread, signalVars
<1>3. ASSUME UNCHANGED <<threadIds, main, conn, id, inherited>>,
             NEW h \in Handlers, NEW next \in ThreadPC,
             thread' = [thread EXCEPT ![h] = next],
             next \in Existing => thread[h] \in Existing,
             \A g \in Handlers : ready[g] => ready'[g],
             \A c \in Connections : h = Client(c) /\ thread[h] = "register"
                                       => thread[Server(c)] = "none"
      PROVE  Asked'
  <2>1. ASSUME NEW g \in Handlers \ inherited', ToBeListed(g)' PROVE ToBeListed(g)
    <3>1. thread[g] \in Existing /\ ~ready[g]
      BY <1>3, <2>1 DEF ToBeListed
    <3>2. PICK c \in Connections : g = Client(c) \/ g = Server(c)
      BY HandlerNames
    <3>3. Registered(g)
      <4>1. CASE g = Client(c)
        BY <1>3, <2>1, <4>1, RegisteredNames, RegisteredNamesNext DEF ToBeListed
      <4>2. CASE g = Server(c)
        <5>1. thread'[Client(c)] # "register"
          BY <2>1, <4>2, RegisteredNamesNext DEF ToBeListed
        <5>2. thread[Client(c)] # "register"
          BY <1>3, <3>1, <4>2, <5>1, HandlerNames DEF Existing, UsingHandler
        <5> QED BY <4>2, <5>2, RegisteredNames
      <4> QED BY <3>2, <4>1, <4>2
    <3> QED BY <3>1, <3>3 DEF ToBeListed
  <2> QED BY <1>2, <1>3, <2>1, AskedKept
<1>4. ASSUME NEW h \in Handlers, AnyThread(h) PROVE Asked'
  <2>1. PICK next \in ThreadPC :
           /\ thread' = [thread EXCEPT ![h] = next]
           /\ next \in Existing => thread[h] \in Existing
           /\ thread[h] # "register"
    BY <1>4 DEF AnyThread, StartThread, CloseSocket, SetReady, EndThread, Goto, ThreadPC,
                Existing, UsingHandler
  <2>2. /\ UNCHANGED <<threadIds, main, conn, id, inherited>>
        /\ \A g \in Handlers : ready[g] => ready'[g]
    BY <1>4 DEF AnyThread, StartThread, CloseSocket, SetReady, EndThread, mainVars, objectVars
  <2> QED BY <1>3, <2>1, <2>2
<1>5. ASSUME NEW h \in Handlers, CancelledThreadEnds(h) PROVE Asked'
  <2>1. /\ UNCHANGED <<threadIds, main, conn, id, inherited, ready>>
        /\ thread' = [thread EXCEPT ![h] = "ended"]
        /\ thread[h] = "register" => thread[Server(h[1])] = "none"
        /\ "ended" \in ThreadPC /\ "ended" \notin Existing
    BY <1>5 DEF CancelledThreadEnds, Goto, mainVars, ThreadPC, Existing, UsingHandler
  <2>2. \A c \in Connections : h = Client(c) /\ thread[h] = "register"
                                   => thread[Server(c)] = "none"
    BY <2>1, HandlerNames
  <2>3. \A g \in Handlers : ready[g] => ready'[g]
    BY <2>1
  <2> QED BY <1>3, <2>1, <2>2, <2>3
<1>6. ASSUME NEW c \in Connections, FinishClient(c) \/ Fetch(c) \/ WaitForData(c)
      PROVE  Asked'
  <2>1. PICK h \in {Client(c), Server(c)}, next \in ThreadPC :
           /\ thread' = [thread EXCEPT ![h] = next]
           /\ thread[h] \in Existing
           /\ thread[h] # "register"
    BY <1>6 DEF FinishClient, Fetch, WaitForData, Goto, ThreadPC, Existing, UsingHandler
  <2>2. UNCHANGED <<threadIds, main, conn, id, inherited, ready>>
    BY <1>6 DEF FinishClient, Fetch, WaitForData, mainVars, objectVars
  <2>3. h \in Handlers /\ \A g \in Handlers : ready[g] => ready'[g]
    BY <2>2, HandlerNames
  <2> QED BY <1>3, <2>1, <2>2, <2>3
<1>7. ASSUME NEW c \in Connections, StartFetcher(c) \/ StartFetcherFails(c) PROVE Asked'
  <2> DEFINE h == Client(c)
             s == Server(c)
  <2>1. h \in Handlers /\ s \in Handlers /\ h # s
    BY HandlerNames
  <2>2. /\ thread[h] = "handle" /\ thread'[h] = "register"
        /\ thread' \in [Handlers -> ThreadPC]
        /\ \A g \in Handlers \ {h, s} : thread'[g] = thread[g]
        /\ UNCHANGED <<threadIds, main, conn, ready>> /\ inherited \subseteq inherited'
        /\ \A g \in Handlers \ {s} : id'[g] = id[g]
    BY <1>7, <2>1 DEF StartFetcher, StartFetcherFails, GiveId, Goto, mainVars, IdInv, IdTypes,
                      ThreadPC, Existing, UsingHandler
  <2>3. ASSUME NEW g \in Handlers \ inherited', ToBeListed(g)'
        PROVE  ToBeListed(g) /\ id'[g] = id[g]
    <3>1. PICK d \in Connections : g = Client(d) \/ g = Server(d)
      BY HandlerNames
    <3>2. g # s
      BY <2>2, <2>3, RegisteredNamesNext DEF ToBeListed
    <3>3. thread[g] \in Existing
      BY <2>2, <2>3, <3>2 DEF ToBeListed, Existing, UsingHandler
    <3>4. Registered(g)
      <4>1. CASE g = Client(d)
        BY <2>2, <2>3, <4>1, RegisteredNames, RegisteredNamesNext DEF ToBeListed
      <4>2. CASE g = Server(d)
        <5>1. Client(d) # h /\ Client(d) # s /\ Client(d) \in Handlers
          BY <3>2, <4>2, HandlerNames
        <5>2. thread'[Client(d)] = thread[Client(d)]
          BY <2>2, <5>1
        <5> QED BY <2>3, <4>2, <5>2, RegisteredNames, RegisteredNamesNext DEF ToBeListed
      <4> QED BY <3>1, <4>1, <4>2
    <3> QED BY <2>2, <2>3, <3>2, <3>3, <3>4 DEF ToBeListed
  <2> QED BY <1>2, <2>2, <2>3, AskedKept
<1> QED BY <1>2, <1>4, <1>5, <1>6, <1>7

(* Nor does the main thread add or remove an id. *)
LEMMA AskedByMain ==
    ASSUME HandlerInv, CancelAt, Asked, signal = "cancel", StillToDo("start"),
           MainThread \/ AcceptConnection, InOrder, SignalInv
    PROVE  Asked'
<1>1. ~ThreadIdsFree
  BY DEF CancelAt, ThreadIdsFree
<1>2. CASE MainGoesOn
  <2>1. SkipHandler \/ TakeOverServer \/ EraseHandler \/ EndCheck
    BY <1>1, <1>2 DEF MainGoesOn
  <2>2. /\ UNCHANGED <<threadIds, signal, cancelAt, cancelled, inherited, id, thread, ready, conn>>
        /\ main # "register" /\ main' # "register"
    BY <1>2, <2>1 DEF MainGoesOn, SkipHandler, TakeOverServer, EraseHandler, EndCheck,
                      threadVars, signalVars
  <2>3. \A h \in Handlers : ToBeListed(h)' => ToBeListed(h)
    BY <2>2 DEF ToBeListed, Registered
  <2> QED BY <2>2, <2>3, AskedKept
<1>3. CASE AcceptConnection
  BY <1>1, <1>3 DEF AcceptConnection
<1>4. CASE SetUp \/ SetUpFails \/ TestInterrupted \/ DeleteNodes
  BY <1>4, AskedStutters DEF SetUp, SetUpFails, TestInterrupted, DeleteNodes, signalVars
<1>5. CASE InitSignalHandlerThread
  BY <1>5, CreatedOnce
<1>6. CASE ClearHandlers
  <2>1. Len(todo) = 2 /\ Len(todo) >= 3
    BY <1>6, NamedCalls DEF ClearHandlers
  <2>2. FALSE
    BY <2>1
  <2> QED BY <2>2
<1> QED BY <1>2, <1>3, <1>4, <1>5, <1>6 DEF MainThread

LEMMA AskedStep == CancelInv /\ [ProgramNext]_programVars => Asked'
<1> SUFFICES ASSUME CancelInv, [ProgramNext]_programVars PROVE Asked'
  OBVIOUS
<1> USE DEF CancelInv
<1>1. CASE ~StillToDo("start")
  BY <1>1, AskedInTheEnd
<1>2. CASE StillToDo("start") /\ SignalThread
  BY <1>2, AskedBySignals DEF HandlersKept
<1>3. CASE StillToDo("start") /\ signal = "cancel" /\ ~SignalThread
  <2>1. HandlerInv /\ IdInv
    BY <1>3 DEF HandlersKept
  <2>2. CASE \/ HandlerThread
             \/ \E h \in Handlers : CancelledThreadEnds(h)
             \/ \E c \in Connections : WaitForData(c)
    BY <1>3, <2>1, <2>2, AskedByThreads
  <2>3. CASE MainThread \/ AcceptConnection
    BY <1>3, <2>1, <2>3, AskedByMain
  <2>4. CASE BlockInAccept \/ AcceptFails \/ Terminate \/ AtRest \/ UNCHANGED programVars
             \/ DeleteUnderWaiters \/ \E c \in Connections : WakeUp(c)
    <3>1. UNCHANGED <<vars, signal, cancelAt, cancelled>>
      BY <2>4 DEF BlockInAccept, AcceptFails, AcceptReturns, Terminate, AtRest, programVars,
                  signalVars, DeleteUnderWaiters, WakeUp
    <3> QED BY <3>1, AskedStutters
  <2> QED BY <1>3, <2>2, <2>3, <2>4 DEF ProgramNext
<1>4. CASE signal # "cancel" /\ ~SignalThread
  <2>1. signal' # "cancel"
    BY <1>4
       DEF ProgramNext, MainThread, SetUp, InitSignalHandlerThread, SetUpFails, TestInterrupted,
           MainGoesOn, ClearHandlers, DeleteNodes, BlockInAccept, AcceptConnection, AcceptFails,
           AcceptReturns, Terminate, HandlerThread, CancelledThreadEnds, DeleteUnderWaiters,
           WaitForData, WakeUp, AtRest, programVars, signalVars
  <2> QED BY <2>1 DEF Asked
<1> QED BY <1>1, <1>2, <1>3, <1>4

(* When the pass over threadIds ends, every running thread that should be  *)
(* in it has been asked to cancel itself, whatever threads started and     *)
(* ended, and whatever ids were given out again, since the pass began.     *)
THEOREM AllAskedToEnd == ProgramSpec => []EveryThreadCancelled
<1>1. CancelInv /\ [ProgramNext]_programVars => CancelInv'
  <2> SUFFICES ASSUME CancelInv, [ProgramNext]_programVars PROVE CancelInv'
    OBVIOUS
  <2>1. InOrder' /\ SignalInv' /\ HandlersKept'
    BY CallsKept, SignalInvStep, HandlersKeptStep DEF CancelInv
  <2>2. CancelAt' /\ LoopLeft' /\ Asked'
    BY CancelAtStep, LoopLeftStep, AskedStep DEF CancelInv
  <2> QED BY <2>1, <2>2 DEF CancelInv
<1>2. CancelInv => EveryThreadCancelled
  <2> SUFFICES ASSUME CancelInv, signal = "cancel", cancelAt > Len(threadIds),
                      NEW h \in Handlers \ inherited, ToBeListed(h)
               PROVE  h \in cancelled
    BY DEF EveryThreadCancelled, ToBeListed
  <2>1. /\ Len(threadIds) \in Nat /\ DOMAIN threadIds = 1 .. Len(threadIds)
        /\ cancelAt \in Nat
    BY LenProperties DEF CancelInv, CancelAt, Asked
  <2>2. \A k \in DOMAIN threadIds : ~(k >= cancelAt)
    BY <2>1
  <2> QED BY <2>2 DEF CancelInv, Asked
<1> QED BY <1>1, <1>2, InitCancelInv, PTL DEF ProgramSpec
=============================================================================
