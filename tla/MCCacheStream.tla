---------------------------- MODULE MCCacheStream ----------------------------
EXTENDS CacheStream, TLC

Symmetry == Permutations(Clients)

(* size is read only between the wait loop and the test of the outer loop; *)
(* states that differ in it elsewhere are one state to TLC.                *)
View == <<cache, pc, url, offset, cacheNodeReady, sent, fpc, fetched,
          [c \in Clients |-> IF pc[c] = "send" THEN size[c] ELSE 0]>>

(* BOUND: one fetch per URL, no two clients that both found no node. *)
OneFetch == \A u \in Urls : Cardinality({c \in Clients :
                url[c] = u /\ (pc[c] \in {"addCacheNode", "initServerThread"}
                               \/ fpc[c] # "none")}) <= 1

(* BOUND: as many chunks as there may be from one fetcher, none from two. *)
OneFetchOrEmpty == OneFetch \/ \A f \in Clients : fetched[f] = 0
=============================================================================
