------------------------------ MODULE CacheNode ------------------------------
(***************************************************************************)
(* One entry of the proxy's response cache: cache/CacheNode.{h,cpp}.       *)
(*                                                                         *)
(* A node is a record with the fields of the class.  Every method is an    *)
(* operator from the node before the call to the node after it; the        *)
(* modules that call it say which thread runs it, and when.  A method that *)
(* takes the node's mutex and gives it back before it returns (addData,    *)
(* getData, setReady, addListener, removeListener) is one step, which      *)
(* needs the mutex free (IsFree).  The one critical section that is more   *)
(* than a method, the wait loop of a reader, uses Lock, Unlock and Wait.   *)
(*                                                                         *)
(* The response is a sequence of chunks instead of bytes: what one recv of *)
(* the fetching thread returned is one item, labelled with the client on   *)
(* whose behalf it was fetched and its number in that response, so that    *)
(* two responses stored into one node can be told apart.                   *)
(***************************************************************************)
EXTENDS Integers, Sequences, FiniteSets

CONSTANTS Clients,   \* the client connections, each with the thread it started
          Unlocked,  \* the owner of a mutex nobody holds
          MaxChunks  \* BOUND: the most chunks an origin server sends

ASSUME NodeAssumption == /\ IsFiniteSet(Clients)
                         /\ Unlocked \notin Clients
                         /\ MaxChunks \in Nat

Chunk(f, k) == <<f, k>>
ErrorText(f) == <<f, 0>>
Items == Clients \X (0 .. MaxChunks)

Node == [data : Seq(Items),
         nodeReady : BOOLEAN,
         mutex : Clients \cup {Unlocked},
         anyDataCondVar : SUBSET Clients,
         condVarDestroyed : BOOLEAN,
         listenersCount : Int]

(* Mutant of NewNode: the constructor leaves nodeReady set. *)
NewNodeReady == [data |-> << >>,
                 nodeReady |-> TRUE,
                 mutex |-> Unlocked,
                 anyDataCondVar |-> {},
                 condVarDestroyed |-> FALSE,
                 listenersCount |-> 0]

NewNode == [data |-> << >>,
            nodeReady |-> FALSE,
            mutex |-> Unlocked,
            anyDataCondVar |-> {},
            condVarDestroyed |-> FALSE,
            listenersCount |-> 0]
-----------------------------------------------------------------------------
(* The mutex.                                                              *)

IsFree(n) == n.mutex = Unlocked

Lock(n, t) == [n EXCEPT !.mutex = t]

Unlock(n) == [n EXCEPT !.mutex = Unlocked]

(* The condition variable is the set of threads blocked on it.  Waiting    *)
(* gives the mutex up in the same step; a woken thread must take it again. *)

Wait(n, t) == [n EXCEPT !.mutex = Unlocked, !.anyDataCondVar = @ \cup {t}]

Broadcast(n) == [n EXCEPT !.anyDataCondVar = {}]

WakeSpuriously(n, t) == [n EXCEPT !.anyDataCondVar = @ \ {t}]
-----------------------------------------------------------------------------
(* The methods.                                                            *)

(* Mutant of AddData: the insertion is at the wrong end. *)
PrependData(n, newData) == [n EXCEPT !.data = newData \o @]

AddData(n, newData) == [n EXCEPT !.data = @ \o newData]

GetData(n, offset, length) == SubSeq(n.data, offset + 1, offset + length)

SetReady(n) == [n EXCEPT !.nodeReady = TRUE]

AddListener(n) == [n EXCEPT !.listenersCount = @ + 1]

(* Mutant of RemoveListener: it does not ask whether the response is complete. *)
RemoveListenerEarlyDestroy(n) ==
    [n EXCEPT !.listenersCount = @ - 1,
              !.condVarDestroyed = @ \/ n.listenersCount = 1]

RemoveListener(n) ==
    [n EXCEPT !.listenersCount = @ - 1,
              !.condVarDestroyed = @ \/ (n.listenersCount = 1 /\ n.nodeReady)]
=============================================================================
