------------------------------- MODULE Shutdown -------------------------------
(***************************************************************************)
(* The whole program around the main thread's loop: how it is set up, how  *)
(* SIGINT, SIGTERM or SIGQUIT ends it, and what its end does to the        *)
(* threads that are still running.                                         *)
(*                                                                         *)
(* The three signals are blocked in every thread; a thread of its own,     *)
(* SignalHandler, waits for one.  It asks all threads of threadIds to      *)
(* cancel themselves and sends the main thread a SIGUSR1, whose handler    *)
(* sets isInterrupted and which makes a blocked accept return.  The main   *)
(* thread then leaves its loop and destroys everything, without waiting    *)
(* for any other thread.                                                   *)
(*                                                                         *)
(* A thread that was asked to cancel itself ends at its next cancellation  *)
(* point (recv, send, connect, close, pthread_cond_wait, output), without  *)
(* having called setReady.  What that does to the cache is Cancellation's  *)
(* subject.  SIGUSR1 from outside is left out, and so is what becomes of   *)
(* threads that lock threadIdsMutex after it was destroyed.                *)
(***************************************************************************)
EXTENDS HandlerLifecycle

VARIABLES
    todo,           \* the calls the main thread has still to return from
    killed,         \* a signal's default action ended the process
    loop,           \* start: before the test, or before or inside accept
    pending,        \* one of the three signals is pending
    signal,         \* where the signal handler thread is
    cancelAt,       \* sigWait: position in threadIds, 0 without its mutex
    isInterrupted,  \* MultiThreadProxy::isInterrupted
    cancelled,      \* the handlers whose threads have a cancel request
    waits,          \* the clients blocked in pthread_cond_wait, on any node
    late,           \* AUXILIARY: connections accepted when isInterrupted was set
    missed          \* AUXILIARY: SIGUSR1 came between the test and accept

processVars == <<todo, killed>>
signalVars == <<pending, signal, cancelAt, cancelled>>
loopVars == <<loop, isInterrupted, late, missed>>
programVars == <<vars, processVars, signalVars, loopVars, waits>>

(* Mutant of Program: the thread that sends SIGUSR1 comes before its handler. *)
ProgramThreadFirst ==
    <<"getPortToListen", "setSigMask", "initSignalHandlerThread", "setSigUsrHandler",
      "initAcceptSocket", "start", "clear", "deleteNodes">>

(* main: the constructor, start, and the destructor with those of the members. *)
Program ==
    <<"getPortToListen", "setSigMask", "setSigUsrHandler", "initSignalHandlerThread",
      "initAcceptSocket", "start", "clear", "deleteNodes">>

ProgramInit == /\ Init
               /\ todo = Program
               /\ killed = FALSE
               /\ loop = "test"
               /\ pending = FALSE
               /\ signal = "none"
               /\ cancelAt = 0
               /\ isInterrupted = FALSE
               /\ cancelled = {}
               /\ waits = {}
               /\ late = 0
               /\ missed = FALSE

Running == todo # << >>

Doing(call) == Running /\ Head(todo) = call

StillToDo(call) == Contains(todo, call)

(* Mutant of ThreadIdsFree: sigWait goes through the vector without its mutex. *)
ThreadIdsUnguarded == TRUE

(* threadIdsMutex; all critical sections but sigWait's are single steps. *)
ThreadIdsFree == cancelAt = 0
-----------------------------------------------------------------------------
(* The main thread outside of its loop.                                    *)

SetUp == /\ \E call \in {"getPortToListen", "setSigMask", "setSigUsrHandler",
                         "initAcceptSocket"} : Doing(call)
         /\ todo' = Tail(todo)
         /\ UNCHANGED <<vars, killed, signalVars, loopVars, waits>>

InitSignalHandlerThread == /\ Doing("initSignalHandlerThread")
                           /\ todo' = Tail(todo)
                           /\ signal' = "sigwait"
                           /\ UNCHANGED <<vars, killed, pending, cancelAt, cancelled, loopVars,
                                          waits>>

(* Wrong arguments, no thread to be had, or the port is taken: the process *)
(* exits.                                                                  *)
SetUpFails == /\ \E call \in {"getPortToListen", "initSignalHandlerThread",
                              "initAcceptSocket"} : Doing(call)
              /\ todo' = << >>
              /\ UNCHANGED <<vars, killed, signalVars, loopVars, waits>>

(* ~MultiThreadProxy: threadIdsMutex is destroyed and the list cleared, with *)
(* it the server handlers that clients own.                                *)
ClearHandlers == /\ Doing("clear")
                 /\ todo' = Tail(todo)
                 /\ list' = << >>
                 /\ Destroy({h \in alive : \E i \in DOMAIN list : h \in LastOwned(list[i])})
                 /\ UNCHANGED <<main, conn, iter, threadIds, threadVars, killed, signalVars,
                                loopVars, waits>>

(* Cache::~Cache, and the process exits.  ~CacheNode destroys a condition  *)
(* variable that clients may wait on, which is undefined; glibc's          *)
(* pthread_cond_destroy blocks until they have left it.                    *)
DeleteNodes == /\ Doing("deleteNodes")
               /\ waits = {}
               /\ todo' = Tail(todo)
               /\ UNCHANGED <<vars, killed, signalVars, loopVars, waits>>

(* Another build may get past the clients that wait. *)
DeleteUnderWaiters == /\ Doing("deleteNodes")
                      /\ waits # {}
                      /\ todo' = Tail(todo)
                      /\ UNCHANGED <<vars, killed, signalVars, loopVars, waits>>
-----------------------------------------------------------------------------
(* MultiThreadProxy::start.                                                *)

(* Mutant of TestInterrupted: only a failed accept leads to the test. *)
TestNothing == /\ Doing("start")
               /\ main = "accept"
               /\ loop = "test"
               /\ loop' = "accept"
               /\ UNCHANGED <<vars, processVars, signalVars, isInterrupted, late, missed, waits>>

TestInterrupted == /\ Doing("start")
                   /\ main = "accept"
                   /\ loop = "test"
                   /\ IF isInterrupted THEN todo' = Tail(todo) /\ UNCHANGED loop
                                       ELSE loop' = "accept" /\ UNCHANGED todo
                   /\ UNCHANGED <<vars, killed, signalVars, isInterrupted, late, missed, waits>>

(* There is no connection to accept yet. *)
BlockInAccept == /\ loop = "accept"
                 /\ Running
                 /\ loop' = "blocked"
                 /\ UNCHANGED <<vars, processVars, signalVars, isInterrupted, late, missed, waits>>

AcceptReturns == /\ loop \in {"accept", "blocked"}
                 /\ Running
                 /\ loop' = "test"
                 /\ missed' = FALSE
                 /\ UNCHANGED <<processVars, signalVars, isInterrupted, waits>>

AcceptConnection == /\ AcceptReturns
                    /\ ThreadIdsFree
                    /\ Accept
                    /\ late' = IF isInterrupted THEN late + 1 ELSE late

(* An aborted connection, or no descriptor left. *)
AcceptFails == AcceptReturns /\ UNCHANGED <<vars, late>>

MainGoesOn == /\ Doing("start")
              /\ \/ ThreadIdsFree /\ (RegisterConnection \/ ReapHandler \/ ReapServer)
                 \/ SkipHandler \/ TakeOverServer \/ EraseHandler \/ EndCheck
              /\ UNCHANGED <<processVars, signalVars, loopVars, waits>>
-----------------------------------------------------------------------------
(* Signals.                                                                *)

(* SIGINT, SIGTERM or SIGQUIT is sent to the process. *)
Terminate == /\ Running
             /\ ~pending
             /\ IF StillToDo("setSigMask")
                THEN todo' = << >> /\ killed' = TRUE /\ UNCHANGED pending
                ELSE pending' = TRUE /\ UNCHANGED processVars
             /\ UNCHANGED <<vars, signal, cancelAt, cancelled, loopVars, waits>>

(* sigWait: sigwait returns, and threadIdsMutex is taken. *)
TakeSignal == /\ signal = "sigwait"
              /\ Running
              /\ pending
              /\ pending' = FALSE
              /\ signal' = "cancel"
              /\ cancelAt' = 1
              /\ UNCHANGED <<vars, processVars, cancelled, loopVars, waits>>

(* pthread_cancel.  The id may be that of a thread that has ended; if      *)
(* another thread has got it by now, that one is asked.  A thread whose    *)
(* handler is gone has nothing left to do.                                 *)
CancelThread ==
    /\ signal = "cancel"
    /\ Running
    /\ cancelAt \in DOMAIN threadIds
    /\ cancelled' = cancelled \cup
           {h \in alive : thread[h] \in Existing /\ id[h] = threadIds[cancelAt]}
    /\ cancelAt' = cancelAt + 1
    /\ UNCHANGED <<vars, processVars, pending, signal, loopVars, waits>>

(* The id is 0, or that of a thread that has ended: what it points to may  *)
(* be gone, and glibc reads it.                                            *)
CancelCrashes ==
    /\ signal = "cancel"
    /\ Running
    /\ cancelAt \in DOMAIN threadIds
    /\ \A h \in Handlers : thread[h] \in Existing => id[h] # threadIds[cancelAt]
    /\ todo' = << >>
    /\ UNCHANGED <<vars, killed, signalVars, loopVars, waits>>

EndCancelling == /\ signal = "cancel"
                 /\ Running
                 /\ cancelAt > Len(threadIds)
                 /\ signal' = "kill"
                 /\ cancelAt' = 0
                 /\ UNCHANGED <<vars, processVars, pending, cancelled, loopVars, waits>>

(* Mutant of WhenInterrupted: the flags of sigaction hold SA_RESTART. *)
WhenRestarted == loop

(* A blocked accept fails with EINTR: sa_flags is 0. *)
WhenInterrupted == IF loop = "blocked" THEN "test" ELSE loop

(* pthread_kill(SIGUSR1), after which the signal handler thread ends and   *)
(* further signals stay pending.                                           *)
KillMain == /\ signal = "kill"
            /\ Running
            /\ signal' = "exit"
            /\ IF StillToDo("setSigUsrHandler")
               THEN todo' = << >> /\ killed' = TRUE /\ UNCHANGED loopVars
               ELSE /\ isInterrupted' = TRUE
                    /\ loop' = WhenInterrupted
                    /\ missed' = (loop = "accept")
                    /\ UNCHANGED <<processVars, late>>
            /\ UNCHANGED <<vars, pending, cancelAt, cancelled, waits>>
-----------------------------------------------------------------------------
(* The threads of the handlers.                                            *)

(* Client threads in initServerThread, and threads past their last         *)
(* cancellation point, go on to the end; close is a cancellation point.    *)
HandlerThread == /\ Running
                 /\ \/ \E c \in Connections :
                           \/ StartFetcher(c) \/ StartFetcherFails(c)
                           \/ ThreadIdsFree /\ RegisterFetcher(c)
                           \/ c \notin waits /\ FinishClient(c)
                           \/ Fetch(c)
                    \/ \E h \in Handlers : StartThread(h) \/ SetReady(h) \/ EndThread(h)
                    \/ \E h \in Handlers \ cancelled : CloseSocket(h)
                 /\ UNCHANGED <<processVars, signalVars, loopVars, waits>>

(* A client that is served from the cache waits for data.  It would end    *)
(* here if it were cancelled.                                              *)
WaitForData(c) ==
    /\ Running
    /\ thread[Client(c)] \in {"handle", "serve"}
    /\ Client(c) \notin cancelled
    /\ c \notin waits
    /\ waits' = waits \cup {c}
    /\ Goto(Client(c), "serve")
    /\ UNCHANGED <<mainVars, threadIds, objectVars, id, pthreadId, ready, inherited,
                   processVars, signalVars, loopVars>>

(* A broadcast, or nothing at all, wakes it. *)
WakeUp(c) == /\ Running
             /\ c \in waits
             /\ waits' = waits \ {c}
             /\ UNCHANGED <<vars, processVars, signalVars, loopVars>>

(* What socketFd can be when the thread of h, here, is cancelled: a fetch  *)
(* may have assigned it, close may be cancelled after it took effect.      *)
SocketOfCancelled(h) ==
    {socket[h]} \cup CASE thread[h] = "close" -> {Close(socket[h])}
                       [] thread[h] = "handle" /\ h[2] = "server" -> {"open"}
                       [] OTHER -> {}

(* The thread reaches a cancellation point.  In initServerThread that is   *)
(* only the message about a pthread_create that failed.                    *)
CancelledThreadEnds(h) ==
    /\ Running
    /\ h \in cancelled
    /\ \/ thread[h] \in {"handle", "serve", "close"}
       \/ thread[h] = "register" /\ thread[Server(h[1])] = "none"
    /\ \E s \in SocketOfCancelled(h) : socket' = [socket EXCEPT ![h] = s]
    /\ Goto(h, "ended")
    /\ waits' = {c \in waits : Client(c) # h}
    /\ UNCHANGED <<mainVars, threadIds, alive, interrupted, id, pthreadId, ready, inherited,
                   processVars, signalVars, loopVars>>
-----------------------------------------------------------------------------
MainThread == \/ SetUp \/ InitSignalHandlerThread \/ SetUpFails
              \/ TestInterrupted \/ MainGoesOn
              \/ ClearHandlers \/ DeleteNodes

SignalThread == TakeSignal \/ CancelThread \/ CancelCrashes \/ EndCancelling \/ KillMain

(* The process has ended, or waits for a connection that does not come. *)
AtRest == /\ \/ ~Running
             \/ /\ loop = "blocked"
                /\ \A c \in Connections : socket[Client(c)] # "none"
                /\ \A h \in Handlers : thread[h] \in {"none", "ended"}
          /\ UNCHANGED programVars

ProgramNext == \/ MainThread \/ BlockInAccept \/ AcceptConnection \/ AcceptFails
               \/ Terminate \/ SignalThread
               \/ HandlerThread \/ \E h \in Handlers : CancelledThreadEnds(h)
               \/ \E c \in Connections : WaitForData(c) \/ WakeUp(c)
               \/ DeleteUnderWaiters
               \/ AtRest

ProgramSpec == ProgramInit /\ [][ProgramNext]_programVars

(* The main thread and the signal handler thread are scheduled, and a wait *)
(* that is cancelled ends.  Nothing else is assumed of other threads: any  *)
(* of them may be blocked for ever.                                        *)
FairProgram ==
    /\ ProgramSpec
    /\ WF_programVars(MainThread)
    /\ WF_programVars(SignalThread)
    /\ \A c \in Connections : WF_programVars(c \in waits /\ CancelledThreadEnds(Client(c)))
-----------------------------------------------------------------------------
(* When sigWait has gone through threadIds, every thread that is not ready *)
(* and whose id was appended to it has been asked to cancel itself, though *)
(* threads started, ended and gave their ids to others in the meantime;    *)
(* only the ids that were given out again too early are an exception.      *)
EveryThreadCancelled ==
    signal = "cancel" /\ cancelAt > Len(threadIds) =>
        \A h \in Handlers \ inherited :
            thread[h] \in Existing /\ ~ready[h] /\ Registered(h) => h \in cancelled

(* A SIGUSR1 that comes at the wrong moment costs one connection, no more: *)
(* at most one is accepted after isInterrupted was set.                    *)
OneMoreConnection == late <= 1

(* Signals end the process by their default action only while nothing has  *)
(* been set up.  From the creation of the signal handler thread on, the    *)
(* main thread ends the process.                                           *)
SignalsTaken == killed => signal = "none"

(* While the main thread is in its loop a handler lives as long as its     *)
(* thread uses it, although threads end without having said so.  From then *)
(* on handlers are destroyed under the threads that are left.              *)
HandlersKeptUntilEnd == StillToDo("start") => HandlerOutlivesThread

(* A signal reaches the main thread and the process ends, even when other  *)
(* threads are blocked, with two exceptions: if SIGUSR1 came between the   *)
(* test of isInterrupted and accept, the end waits for accept to return;   *)
(* and a client that was not asked to cancel itself, because it came after *)
(* the pass over threadIds or had the id of another, can hold up the       *)
(* destruction of the node it waits at.                                    *)
ShutdownEnds ==
    /\ pending /\ signal # "exit" ~> isInterrupted \/ ~Running
    /\ isInterrupted /\ ~missed ~>
           \/ ~Running
           \/ Doing("deleteNodes") /\ \E c \in waits : Client(c) \notin cancelled

(* checkConnectionHandlers ends, although it appends to the list it goes   *)
(* through and shares threadIdsMutex with sigWait, and the main thread     *)
(* gets back to accept unless the process ends meanwhile.                  *)
CheckEnds == main # "accept" ~> main = "accept" \/ ~Running
=============================================================================
