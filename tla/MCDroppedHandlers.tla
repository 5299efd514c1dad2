-------------------------- MODULE MCDroppedHandlers --------------------------
EXTENDS DroppedHandlers, TLC

Symmetry == Permutations(Clients) \cup Permutations(Urls)

(* As the view of MCCacheStream. *)
View == <<cache, pc, url, offset, cacheNodeReady, sent, fpc, fetched,
          [c \in Clients |-> IF pc[c] = "send" THEN size[c] ELSE 0],
          memoryVars, fetchVars, crashed>>
=============================================================================
