----------------------------- MODULE ResponseSize -----------------------------
(***************************************************************************)
(* How large a response the cache can hold.  A node keeps its bytes in a   *)
(* vector, whose size is a size_t, but CacheNode::getSizeWithoutLock gives *)
(* it as an int, and sendDataFromCache keeps offset and size in ints.      *)
(*                                                                         *)
(* One fetcher and one client at one node; CacheStream has the rest of     *)
(* what they do.  A chunk is one unit of size, and Half stands for the     *)
(* 2^31 units from which an int is too small.  Overflow in the arithmetic  *)
(* of the client is undefined: a build wraps around, or keeps the value in *)
(* a wider register.                                                       *)
(***************************************************************************)
EXTENDS Integers

CONSTANTS Half,    \* the first number an int cannot hold
          MaxSize  \* BOUND: the largest response

ASSUME SizeAssumption == Half \in Nat \ {0} /\ MaxSize \in Nat

VARIABLES
    stored,          \* data.size()
    nodeReady,       \* CacheNode.nodeReady
    pc,              \* where the client is in sendDataFromCache
    size,            \* its local variables
    offset,
    cacheNodeReady,
    length,          \* what it has copied, and sends
    sent             \* AUXILIARY: how much the client has been sent

fetcherVars == <<stored, nodeReady>>
clientVars == <<pc, size, offset, cacheNodeReady, length, sent>>
vars == <<fetcherVars, clientVars>>

(* "outside": getData has read memory in front of the vector, and anything *)
(* may follow.                                                             *)
ClientPC == {"test", "copy", "send", "done", "threw", "outside"}

Init == /\ stored = 0
        /\ nodeReady = FALSE
        /\ pc = "test"
        /\ size = 0
        /\ offset = 0
        /\ cacheNodeReady = FALSE
        /\ length = 0
        /\ sent = 0


(* The conversion of a larger integer to int. *)
ToInt(n) == ((n + Half) % (2 * Half)) - Half

(* What int arithmetic whose exact result is n may give. *)
Results(n) == {n, ToInt(n)}
-----------------------------------------------------------------------------
(* The fetcher: addData and setReady take the node's mutex, which a client *)
(* that threw in getData has kept.                                         *)

MutexLost == pc = "threw"

AddData == /\ ~nodeReady
           /\ ~MutexLost
           /\ stored < MaxSize
           /\ stored' = stored + 1
           /\ UNCHANGED <<nodeReady, clientVars>>

SetReady == /\ ~nodeReady
            /\ ~MutexLost
            /\ nodeReady' = TRUE
            /\ UNCHANGED <<stored, clientVars>>
-----------------------------------------------------------------------------
(* The client: sendDataFromCache.                                          *)

AllSent == cacheNodeReady /\ offset = size

EndLoop == /\ pc = "test"
           /\ AllSent
           /\ pc' = "done"
           /\ UNCHANGED <<fetcherVars, size, offset, cacheNodeReady, length, sent>>

(* The wait for data; readiness is looked at only if there is none.        *)
GotData == /\ pc = "test"
           /\ ~AllSent
           /\ size' = ToInt(stored)
           /\ offset # size' \/ nodeReady
           /\ cacheNodeReady' = IF offset = size' THEN nodeReady ELSE cacheNodeReady
           /\ pc' = "copy"
           /\ UNCHANGED <<fetcherVars, offset, length, sent>>

(* getData of size - offset bytes: a vector of negative length throws,     *)
(* while the mutex is locked.                                              *)
CopyData == /\ pc = "copy"
            /\ length' \in Results(size - offset)
            /\ pc' = CASE length' < 0 -> "threw"
                       [] length' > 0 /\ offset < 0 -> "outside"
                       [] length' > 0 /\ offset + length' > stored -> "outside"
                       [] OTHER -> "send"
            /\ UNCHANGED <<fetcherVars, size, offset, cacheNodeReady, sent>>

(* Mutant of Advance: all that was copied is taken for sent. *)
AdvanceToSize(n) == {size}

Advance(n) == Results(offset + n)

(* send takes some of it. *)
SendData == /\ pc = "send"
            /\ \E n \in 0 .. length :
                   /\ n = 0 => length = 0
                   /\ sent' = sent + n
                   /\ offset' \in Advance(n)
            /\ pc' = "test"
            /\ UNCHANGED <<fetcherVars, size, cacheNodeReady, length>>
-----------------------------------------------------------------------------
AtRest == /\ pc \in {"done", "threw", "outside"}
          /\ nodeReady \/ MutexLost
          /\ UNCHANGED vars

Next == \/ AddData \/ SetReady
        \/ EndLoop \/ GotData \/ CopyData \/ SendData
        \/ AtRest

Spec == Init /\ [][Next]_vars
-----------------------------------------------------------------------------
(* What the client is about to send continues what it has been sent, also  *)
(* while the size of the response is a negative int: up to 2^32 - 1 bytes  *)
(* the wrong numbers may stop a client, but do not make it repeat or leave *)
(* out a part.                                                             *)
SentInOrder ==
    pc = "send" /\ length > 0 /\ stored < 2 * Half =>
        offset = sent /\ sent + length <= stored

=============================================================================
