---------------------------- MODULE MCCancellation ----------------------------
EXTENDS Cancellation

CONSTANT FirstClient  \* a client

(* As the view of MCCacheStream. *)
View == <<cache, pc, url, offset, cacheNodeReady, sent, fpc, fetched,
          [c \in Clients |-> IF pc[c] = "send" THEN size[c] ELSE 0], cancelVars>>

(* BOUND: one fetch, by that client; which one it is makes no difference. *)
FirstFetches == \A c \in Clients \ {FirstClient} :
                    pc[c] \notin {"addCacheNode", "initServerThread"} /\ fpc[c] = "none"
=============================================================================
