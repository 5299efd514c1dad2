-------------------------- MODULE MCStorageFailures --------------------------
EXTENDS StorageFailures

CONSTANTS FirstClient, FirstUrl  \* a client, and the URL it asks for

(* As the view of MCCacheStream.  Once the process has ended it makes no   *)
(* difference where.                                                       *)
View == IF aborted THEN << >>
        ELSE <<cache, pc, url, offset, cacheNodeReady, sent, fpc, fetched,
               [c \in Clients |-> IF pc[c] = "send" THEN size[c] ELSE 0], failureVars>>

(* BOUND: one fetch per URL, no two clients that both found no node. *)
OneFetch == \A u \in Urls : Cardinality({c \in Clients :
                url[c] = u /\ (pc[c] \in {"addCacheNode", "initServerThread"}
                               \/ fpc[c] # "none")}) <= 1

(* BOUND: clients and URLs are alike, and symmetry is no help with liveness. *)
NamedFirst == url[FirstClient] \in {NoUrl, FirstUrl}

(* BOUND: clients of the other URL are bystanders to the failures of that *)
(* one, but for those of the two locks they share.                         *)
FirstFails == /\ leftLocked \subseteq {FirstUrl}
              /\ \A f \in silent : url[f] = FirstUrl
=============================================================================
